------------------------------ MODULE RolesTab ------------------------------
(***************************************************************************)
(* The roles of the user administration (UsersPage.tsx): their cards with  *)
(* what each may do, the dialogs that create, edit and delete them, and    *)
(* the server (core/internal/store/roles.go), which checks first and       *)
(* writes later.  A role is its slug; the first free one is given to a new *)
(* role, so one that was deleted may come back with other rights.          *)
(***************************************************************************)
EXTENDS Naturals, FiniteSets

CONSTANTS Custom,    \* slugs of roles that are not built in
          NoRole,
          Holders,   \* users
          Perms,
          MaxAtOnce  \* bound: requests under way at once

VARIABLE view

Here == view.page = "roles"

Gone == [there |-> FALSE, grants |-> {}]

Role(grants) == [there |-> TRUE, grants |-> grants]

There(list) == {r \in Custom : list[r].there}

NoModal == [kind |-> "none", role |-> NoRole, grants |-> {}]

\* oneByOne: no request is sent, by any administrator, before the one before
\* it has been answered.
Mounted ==
  {[page |-> "roles", srv |-> s, holds |-> h,
    list |-> [r \in Custom |-> Gone], counted |-> [u \in Holders |-> "viewer"],
    modal |-> NoModal, deleting |-> NoRole, jobs |-> {}, oneByOne |-> k]
     : s \in [Custom -> {Gone, Role({})}],
       h \in {[u \in Holders |-> "viewer"]}, k \in BOOLEAN}

Change(next) == Here /\ view' = next

Exists(role) == role = "viewer" \/ role \in There(view.srv)

-----------------------------------------------------------------------------
\* Two queries: a role's mutation asks for the roles only, so the numbers of
\* users beside them are as old as the other query.

RolesArrive == Change([view EXCEPT !.list = view.srv])

UsersArrive == Change([view EXCEPT !.counted = view.holds])

Count(role) == Cardinality({u \in Holders : view.counted[u] = role})

-----------------------------------------------------------------------------
\* The dialogs.  A built-in role is only looked at.

Free == Here /\ view.modal = NoModal /\ view.deleting = NoRole

OpenNew == Free /\ Change([view EXCEPT !.modal.kind = "new"])

OpenEdit(r) ==
  /\ Free /\ r \in There(view.list)
  /\ Change([view EXCEPT !.modal = [kind |-> "edit", role |-> r,
                                    grants |-> view.list[r].grants]])

OpenView == Free /\ Change([view EXCEPT !.modal.kind = "view"])

Toggle(p) ==
  /\ view.modal.kind \in {"new", "edit"}
  /\ Change([view EXCEPT !.modal.grants = IF p \in @ THEN @ \ {p} ELSE @ \union {p}])

CloseModal ==
  /\ view.modal # NoModal
  /\ Change([view EXCEPT !.modal = NoModal])

AskDelete(r) ==
  /\ Free /\ r \in There(view.list) /\ Count(r) = 0
  /\ Change([view EXCEPT !.deleting = r])

CancelDelete ==
  /\ view.deleting # NoRole
  /\ Change([view EXCEPT !.deleting = NoRole])

-----------------------------------------------------------------------------
\* Requests.

Pending(kinds) == \E j \in view.jobs : j.kind \in kinds

Send(kind, role, of, grants) ==
  /\ Cardinality(view.jobs) < IF view.oneByOne THEN 1 ELSE MaxAtOnce
  /\ Change([view EXCEPT !.jobs = @ \union
       {[kind |-> kind, role |-> role, of |-> of, grants |-> grants, at |-> "sent"]}])

Submit ==
  /\ view.modal.kind \in {"new", "edit"} /\ ~Pending({"create", "update"})
  /\ IF view.modal.kind = "new" THEN Send("create", NoRole, {}, view.modal.grants)
     ELSE Send("update", view.modal.role, {}, view.modal.grants)

ConfirmDelete ==
  /\ view.deleting # NoRole /\ ~Pending({"delete"})
  /\ Send("delete", view.deleting, {}, {})

\* The members' tab, of this administrator or another: a role that is listed.
Assign(u) ==
  /\ Here
  /\ \E r \in There(view.list) \union {"viewer"} : Send("assign", r, {u}, {})

Becomes(j, next) == [view EXCEPT !.jobs = (@ \ {j}) \union {[next EXCEPT !.at = "served"]}]

\* A variant that leaves it to the page whether a role is in use.
Check_Trusting(j) ==
  /\ j.kind \in {"delete", "assign"} /\ j.at = "sent" /\ Exists(j.role)
  /\ Change([view EXCEPT !.jobs = (@ \ {j}) \union {[j EXCEPT !.at = "checked"]}])

\* A role that somebody has is not deleted, nor one assigned that is not there.
Check(j) ==
  /\ j.kind \in {"delete", "assign"} /\ j.at = "sent" /\ Exists(j.role)
  /\ j.kind = "delete" => \A u \in Holders : view.holds[u] # j.role
  /\ Change([view EXCEPT !.jobs = (@ \ {j}) \union {[j EXCEPT !.at = "checked"]}])

Serve(j) ==
  \/ /\ j.kind = "create" /\ j.at = "sent"
     /\ \E r \in Custom \ There(view.srv) :
          Change([Becomes(j, j) EXCEPT !.srv[r] = Role(j.grants)])
  \/ /\ j.kind = "update" /\ j.at = "sent" /\ Exists(j.role)
     /\ Change([Becomes(j, j) EXCEPT !.srv[j.role] = Role(j.grants)])
  \/ /\ j.kind = "delete" /\ j.at = "checked"
     /\ Change([Becomes(j, j) EXCEPT !.srv[j.role] = Gone])
  \/ /\ j.kind = "assign" /\ j.at = "checked"
     /\ Change([Becomes(j, j) EXCEPT !.holds = [u \in Holders |-> IF u \in j.of THEN j.role
                                                                  ELSE @[u]]])

Refused(j) ==
  /\ j.at \in {"sent", "checked"}
  /\ Change([view EXCEPT !.jobs = @ \ {j}])

\* A success closes the dialog that is open, whichever role it is open for.
Settle(j) ==
  /\ j.at = "served"
  /\ Change([view EXCEPT !.jobs = @ \ {j},
       !.modal = IF j.kind \in {"create", "update"} THEN NoModal ELSE @,
       !.deleting = IF j.kind = "delete" THEN NoRole ELSE @])

Step ==
  /\ Here
  /\ \/ RolesArrive \/ UsersArrive
     \/ OpenNew \/ OpenView \/ CloseModal \/ CancelDelete \/ Submit \/ ConfirmDelete
     \/ \E r \in Custom : OpenEdit(r)
     \/ \E r \in Custom : AskDelete(r)
     \/ \E p \in Perms : Toggle(p)
     \/ \E u \in Holders : Assign(u)
     \/ \E j \in view.jobs : Check(j)
     \/ \E j \in view.jobs : Serve(j)
     \/ \E j \in view.jobs : Refused(j)
     \/ \E j \in view.jobs : Settle(j)

-----------------------------------------------------------------------------
TypeOK ==
  /\ {view.srv, view.list} \subseteq [Custom -> [there : BOOLEAN, grants : SUBSET Perms]]
  /\ {view.holds, view.counted} \subseteq [Holders -> Custom \union {"viewer"}]
  /\ {view.modal.role, view.deleting} \subseteq Custom \union {NoRole}

\* Nobody is left with a role that is gone, and would have the rights of the
\* next role of that name: not by a page whose numbers are old, as long as
\* requests come one by one.  (Two at once can: each check passes before the
\* other's write, roles.go:222.)
RoleInUseStays == Here /\ view.oneByOne => \A u \in Holders : Exists(view.holds[u])
=============================================================================
