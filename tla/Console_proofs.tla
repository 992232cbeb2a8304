-------------------------- MODULE Console_proofs --------------------------
(***************************************************************************)
(* Proofs about the pages of the dashboard, composed.  Each page has an    *)
(* invariant of its own, which its steps keep, and which what it is        *)
(* mounted as satisfies; the invariant of the dashboard is that of the     *)
(* page that is open.  The pages that only show something have to leave    *)
(* its name alone; what they show is the subject of ConsoleScreens_proofs. *)
(***************************************************************************)
EXTENDS MCConsole, FiniteSetTheorems, FunctionTheorems, NaturalsInduction, TLAPS

-----------------------------------------------------------------------------
(* The list of nodes.                                                      *)

\* Outside the selection mode nothing is selected.
FleetInv ==
  /\ view.page = "nodes"
  /\ {"page", "dialog", "selected", "selectMode"} \subseteq DOMAIN view
  /\ view.selectMode \in BOOLEAN /\ (~view.selectMode => view.selected = {})

\* A dialog becomes one of a bulk deletion only for nodes on the screen.
FleetAsks ==
  view.dialog.kind # "bulk" /\ view'.dialog.kind = "bulk" => view'.dialog.ids \subseteq Fleet!Visible

LEMMA FleetMounts ==
  ASSUME view' \in Fleet!Mounted
  PROVE  FleetInv'
<1>1. view'.page = "nodes" /\ {"page", "dialog", "selected", "selectMode"} \subseteq DOMAIN view'
      /\ view'.selectMode = FALSE /\ view'.selected = {}
  BY DEF Fleet!Mounted
<1>. QED  BY <1>1 DEF FleetInv

\* Every step of the page.
LEMMA FleetStep ==
  ASSUME FleetInv, Fleet!Step
  PROVE  FleetInv' /\ FleetAsks
<1>. USE DEF FleetInv, FleetAsks, Fleet!Change, Fleet!Here
<1>1. CASE Fleet!Data
  BY <1>1 DEF Fleet!Data, Fleet!PollStarts, Fleet!PollIsRead, Fleet!PollArrives, Fleet!Asked
<1>2. CASE Fleet!SetFilter \/ Fleet!CloseBanner \/ Fleet!CancelPending
  BY <1>2 DEF Fleet!SetFilter, Fleet!CloseBanner, Fleet!CancelPending, Fleet!NoDialog
<1>3. CASE Fleet!ToggleSelectMode \/ Fleet!ToggleSelectAll
  BY <1>3 DEF Fleet!ToggleSelectMode, Fleet!ToggleSelectAll, Fleet!NoDialog
<1>4. ASSUME NEW n \in Nodes, Fleet!ToggleSel(n) \/ Fleet!Elsewhere(n) PROVE FleetInv' /\ FleetAsks
  BY <1>4 DEF Fleet!ToggleSel, Fleet!NoDialog, Fleet!Elsewhere
<1>5. CASE Fleet!OpenBulk
  BY <1>5 DEF Fleet!OpenBulk, Fleet!NoDialog
<1>6. ASSUME NEW n \in Nodes, Fleet!OnAct(n) PROVE FleetInv' /\ FleetAsks
  <2>1. \/ view' = [view EXCEPT !.fetch = Fleet!Asked]
        \/ view' = [view EXCEPT !.dialog = [kind |-> "delete", ids |-> {n}]]
        \/ view' = [view EXCEPT !.dialog = [kind |-> "regen", ids |-> {n}]]
    BY <1>6 DEF Fleet!OnAct
  <2>2. ASSUME NEW k \in {"delete", "regen"}, view' = [view EXCEPT !.dialog = [kind |-> k, ids |-> {n}]]
        PROVE  FleetInv' /\ FleetAsks
    BY <2>2
  <2>3. CASE view' = [view EXCEPT !.fetch = Fleet!Asked]
    BY <2>3
  <2>. QED  BY <2>1, <2>2, <2>3
<1>7. CASE Fleet!ConfirmPending \/ Fleet!Create
  <2>1. PICK job : Fleet!Begin(job)
    BY <1>7 DEF Fleet!ConfirmPending, Fleet!Create
  <2>. QED  BY <2>1 DEF Fleet!Begin, Fleet!NoDialog
<1>8. ASSUME NEW j \in view.jobs, NEW n \in j.left, Fleet!Serve(j, n) PROVE FleetInv' /\ FleetAsks
  BY <1>8 DEF Fleet!Serve
<1>9. ASSUME NEW j \in view.jobs, Fleet!CreateSettles(j) \/ Fleet!RegenSettles(j)
      PROVE  FleetInv' /\ FleetAsks
  BY <1>9 DEF Fleet!CreateSettles, Fleet!RegenSettles
<1>10. ASSUME NEW j \in view.jobs, Fleet!OneSettles(j) \/ Fleet!BulkSettles(j)
       PROVE  FleetInv' /\ FleetAsks
  BY <1>10 DEF Fleet!OneSettles, Fleet!BulkSettles, Fleet!Asked
<1>. HIDE DEF FleetInv, FleetAsks
<1>. QED
  BY <1>1, <1>2, <1>3, <1>4, <1>5, <1>6, <1>7, <1>8, <1>9, <1>10
  DEF Fleet!Step, Fleet!User, Fleet!Server

-----------------------------------------------------------------------------
(* The users.                                                              *)

RoleOrGone == {"admin", "viewer", "gone"}

StaffJob(j) ==
  /\ {"kind", "ids", "role", "left", "failed", "watched", "told"} \subseteq DOMAIN j
  /\ j.role \in {"admin", "viewer"} /\ j.left \subseteq j.ids /\ j.ids \subseteq People
  /\ j.kind \in {"delete", "bulk"} => Me \notin j.ids

\* The shape of the page's state; nothing that is selected, or that a dialog or
\* a request would delete, is the user.
StaffShape ==
  /\ view.page = "users"
  /\ {"page", "srv", "list", "fetch", "filter", "selected", "busy", "dialog", "jobs", "suspect",
      "user"} \subseteq DOMAIN view
  /\ {"at", "list"} \subseteq DOMAIN view.fetch
  /\ {"kind", "who", "role", "sent"} \subseteq DOMAIN view.dialog
  /\ view.srv \in [People -> RoleOrGone] /\ view.list \in [People -> RoleOrGone]
  /\ view.fetch.list \in [People -> RoleOrGone]
  /\ view.selected \subseteq People \ {Me}
  /\ view.dialog.kind \in {"none", "add", "edit", "delete", "bulk"}
  /\ view.dialog.kind \in {"edit", "delete"} => view.dialog.who \in People
  /\ view.dialog.kind = "delete" => view.dialog.who # Me
  /\ view.dialog.role \in {"admin", "viewer"}
  /\ \A j \in view.jobs : StaffJob(j)

\* A deletion or a change of role that leaves the server's users with an
\* administrator: one that is not concerned, or those it makes.
Leaves(ids) == Staff!Admins(view.srv) \ ids # {}

StaffJobSafe(j) ==
  Leaves(j.ids) \/ (j.kind \in {"edit", "role"} /\ j.role = "admin")

StaffDialogSafe ==
  /\ view.dialog.kind = "delete" => Leaves({view.dialog.who})
  /\ view.dialog.kind = "bulk" => Leaves(view.selected)
  /\ view.dialog.kind = "edit" => view.dialog.role = "admin" \/ Leaves({view.dialog.who})

\* To a careful user: one request is under way at most; the list is the
\* server's when nothing is under way and no error is left; a dialog that was
\* not submitted was opened on such a list.
StaffCareful ==
  /\ Staff!Admins(view.srv) # {}
  /\ \A i, j \in view.jobs : i = j
  /\ \A j \in view.jobs : StaffJobSafe(j) /\ (j.told => view.suspect)
  /\ view.jobs = {} /\ ~view.suspect =>
       /\ view.fetch.at = "none" => view.list = view.srv
       /\ view.fetch.at = "read" => view.fetch.list = view.srv
  /\ view.dialog.kind # "none" /\ ~view.dialog.sent /\ ~view.suspect =>
       view.jobs = {} /\ StaffDialogSafe
  /\ view.busy # NoUser => \E j \in view.jobs : j.kind = "role" /\ j.watched /\ ~j.told

StaffInv == StaffShape /\ (view.user = "careful" => StaffCareful)

LEMMA StaffMounts ==
  ASSUME view' \in Staff!Mounted
  PROVE  StaffInv'
<1>1. PICK s \in [People -> Staff!Roles \union {"gone"}], c \in Users :
        /\ s[Me] = "admin"
        /\ view' = [page |-> "users", srv |-> s, list |-> [p \in People |-> "gone"],
                    fetch |-> Staff!Asked, filter |-> "all", selected |-> {}, busy |-> NoUser,
                    dialog |-> Staff!NoDialog, jobs |-> {}, suspect |-> FALSE, user |-> c]
  BY DEF Staff!Mounted
<1>2. s \in [People -> RoleOrGone] /\ Staff!Admins(s) # {}
  BY <1>1, ConsoleAssumption DEF RoleOrGone, Staff!Roles, Staff!Admins
<1>3. /\ {"at", "list"} \subseteq DOMAIN Staff!Asked /\ Staff!Asked.at = "asked"
      /\ Staff!Asked.list \in [People -> RoleOrGone]
      /\ {"kind", "who", "role", "sent"} \subseteq DOMAIN Staff!NoDialog
      /\ Staff!NoDialog.kind = "none" /\ Staff!NoDialog.role = "viewer"
  BY DEF Staff!Asked, Staff!NoDialog, RoleOrGone
<1>4. StaffShape'
  BY <1>1, <1>2, <1>3 DEF StaffShape, RoleOrGone
<1>5. StaffCareful'
  BY <1>1, <1>2, <1>3 DEF StaffCareful
<1>. QED  BY <1>4, <1>5 DEF StaffInv

\* The last administrator, and another.
LEMMA StaffNotLast ==
  ASSUME StaffShape, NEW p \in People, ~Staff!IsLastAdmin(p), Staff!Admins(view.list) # {}
  PROVE  Staff!Admins(view.list) \ {p} # {}
<1>. DEFINE a == Staff!Admins(view.list)
<1>1. CASE view.list[p] # "admin"
  BY <1>1 DEF Staff!Admins
<1>2. CASE view.list[p] = "admin"
  <2>1. ~(Cardinality(a) <= 1)
    <3>1. Staff!Cardinality(a) = Cardinality(a)
      BY DEF Staff!Cardinality, Cardinality
    <3>. QED  BY <1>2, <3>1 DEF Staff!IsLastAdmin
  <2>. HIDE DEF a
  <2>2. SUFFICES ASSUME a \subseteq {p} PROVE FALSE
    BY DEF a
  <2>3. a = {p}
    BY <2>2 DEF a
  <2>4. Cardinality({p}) = 1
    BY FS_Singleton
  <2>. QED  BY <2>1, <2>3, <2>4
<1>. QED  BY <1>1, <1>2

\* What a bulk deletion may leave.
LEMMA StaffBulk ==
  ASSUME StaffShape, Staff!CanBulkDelete
  PROVE  Staff!Admins(view.list) \ view.selected # {}
<1>. DEFINE users == Staff!In(view.list) \intersect view.selected
            rest == Staff!Admins(view.list) \ users
<1>1. Cardinality(rest) >= 1
  <2>1. Staff!Cardinality(rest) = Cardinality(rest)
    BY DEF Staff!Cardinality, Cardinality
  <2>. QED  BY <2>1 DEF Staff!CanBulkDelete
<1>2. rest = Staff!Admins(view.list) \ view.selected
  BY DEF Staff!Admins, Staff!In
<1>. HIDE DEF rest
<1>3. rest # {}
  BY <1>1, FS_EmptySet
<1>. QED  BY <1>2, <1>3

\* A row the page shows is of somebody.
LEMMA StaffShown ==
  ASSUME StaffShape, NEW p \in Staff!Filtered
  PROVE  p \in People /\ view.list[p] \in {"admin", "viewer"}
BY DEF StaffShape, RoleOrGone, Staff!Filtered, Staff!In, Staff!Admins

\* A request that is reset is one still.
LEMMA StaffUnwatched ==
  ASSUME StaffShape, NEW kind
  PROVE  /\ \A j \in Staff!Unwatch(kind) : StaffJob(j)
         /\ view.jobs = {} => Staff!Unwatch(kind) = {}
<1>1. ASSUME NEW j \in view.jobs PROVE StaffJob(j) /\ StaffJob([j EXCEPT !.watched = FALSE])
  BY DEF StaffShape, StaffJob
<1>. QED  BY <1>1 DEF Staff!Unwatch

\* What a careful user acts on.
LEMMA StaffActs ==
  ASSUME StaffInv, view.user = "careful", Staff!Acts
  PROVE  view.jobs = {} /\ view.fetch.at = "none" /\ ~view.suspect /\ view.list = view.srv
         /\ view.busy = NoUser
BY DEF StaffInv, StaffCareful, Staff!Acts, Staff!Settled

\* Every step of the page keeps the shape, and a careful user's care.
LEMMA StaffStep ==
  ASSUME StaffInv, Staff!Step
  PROVE  StaffInv'
<1>. USE DEF Staff!Change, Staff!Here
<1>0. /\ {"page", "srv", "list", "fetch", "filter", "selected", "busy", "dialog", "jobs",
          "suspect", "user"} \subseteq DOMAIN view
      /\ StaffShape
  BY DEF StaffInv, StaffShape
<1>a. /\ {"at", "list"} \subseteq DOMAIN Staff!Asked /\ Staff!Asked.at = "asked"
       /\ Staff!Asked.list \in [People -> RoleOrGone]
       /\ {"kind", "who", "role", "sent"} \subseteq DOMAIN Staff!NoDialog
       /\ Staff!NoDialog.kind = "none" /\ Staff!NoDialog.role = "viewer"
  BY DEF Staff!Asked, Staff!NoDialog, RoleOrGone
<1>1. CASE Staff!PollStarts
  <2>1. /\ view'.fetch = Staff!Asked
        /\ DOMAIN view' = DOMAIN view /\ view'.page = view.page /\ view'.srv = view.srv
        /\ view'.list = view.list /\ view'.filter = view.filter /\ view'.selected = view.selected
        /\ view'.busy = view.busy /\ view'.dialog = view.dialog /\ view'.jobs = view.jobs
        /\ view'.suspect = view.suspect /\ view'.user = view.user
    BY <1>0, <1>1 DEF Staff!PollStarts
  <2>2. StaffShape'
    BY <1>0, <1>a, <2>1 DEF StaffShape, StaffJob
  <2>3. ASSUME view.user = "careful" PROVE StaffCareful'
    BY <1>0, <1>a, <2>1, <2>3 DEF StaffInv, StaffCareful, StaffJobSafe, StaffDialogSafe, Leaves
  <2>. QED  BY <2>1, <2>2, <2>3 DEF StaffInv
<1>2. CASE Staff!PollIsRead
  <2>1. /\ view'.fetch = [at |-> "read", list |-> view.srv]
        /\ DOMAIN view' = DOMAIN view /\ view'.page = view.page /\ view'.srv = view.srv
        /\ view'.list = view.list /\ view'.filter = view.filter /\ view'.selected = view.selected
        /\ view'.busy = view.busy /\ view'.dialog = view.dialog /\ view'.jobs = view.jobs
        /\ view'.suspect = view.suspect /\ view'.user = view.user
    BY <1>0, <1>2 DEF Staff!PollIsRead
  <2>2. StaffShape'
    BY <1>0, <1>a, <2>1 DEF StaffShape, StaffJob
  <2>3. ASSUME view.user = "careful" PROVE StaffCareful'
    BY <1>0, <1>a, <2>1, <2>3 DEF StaffInv, StaffCareful, StaffJobSafe, StaffDialogSafe, Leaves
  <2>. QED  BY <2>1, <2>2, <2>3 DEF StaffInv
<1>3. CASE Staff!PollArrives
  <2>1. /\ {"at", "list"} \subseteq DOMAIN view'.fetch /\ view'.fetch.at = "none"
        /\ view'.fetch.list \in [People -> RoleOrGone]
        /\ view.fetch.at = "read" /\ view'.list = view.fetch.list
        /\ DOMAIN view' = DOMAIN view /\ view'.page = view.page /\ view'.srv = view.srv
        /\ view'.filter = view.filter /\ view'.selected = view.selected /\ view'.busy = view.busy
        /\ view'.dialog = view.dialog /\ view'.jobs = view.jobs /\ view'.suspect = view.suspect
        /\ view'.user = view.user
    BY <1>0, <1>3 DEF Staff!PollArrives, Staff!Asked, RoleOrGone
  <2>2. StaffShape'
    BY <1>0, <1>a, <2>1 DEF StaffShape, StaffJob
  <2>3. ASSUME view.user = "careful" PROVE StaffCareful'
    BY <1>0, <1>a, <2>1, <2>3 DEF StaffInv, StaffCareful, StaffJobSafe, StaffDialogSafe, Leaves
  <2>. QED  BY <2>1, <2>2, <2>3 DEF StaffInv
<1>4. CASE Staff!Refresh
  <2>1. /\ view'.fetch = Staff!Asked /\ view.dialog.kind = "none"
        /\ view.user = "careful" => view.jobs = {}
        /\ view'.suspect = FALSE
        /\ DOMAIN view' = DOMAIN view /\ view'.page = view.page /\ view'.srv = view.srv
        /\ view'.list = view.list /\ view'.filter = view.filter /\ view'.selected = view.selected
        /\ view'.busy = view.busy /\ view'.dialog = view.dialog /\ view'.jobs = view.jobs
        /\ view'.user = view.user
    BY <1>0, <1>4 DEF Staff!Refresh
  <2>2. StaffShape'
    BY <1>0, <1>a, <2>1 DEF StaffShape, StaffJob
  <2>3. ASSUME view.user = "careful" PROVE StaffCareful'
    BY <1>0, <1>a, <2>1, <2>3 DEF StaffInv, StaffCareful, StaffJobSafe, StaffDialogSafe, Leaves
  <2>. QED  BY <2>1, <2>2, <2>3 DEF StaffInv
<1>5. CASE Staff!SetFilter
  <2>1. /\ TRUE
        /\ DOMAIN view' = DOMAIN view /\ view'.page = view.page /\ view'.srv = view.srv
        /\ view'.list = view.list /\ view'.fetch = view.fetch /\ view'.selected = view.selected
        /\ view'.busy = view.busy /\ view'.dialog = view.dialog /\ view'.jobs = view.jobs
        /\ view'.suspect = view.suspect /\ view'.user = view.user
    BY <1>0, <1>5 DEF Staff!SetFilter, Staff!OnPage, Staff!Acts
  <2>2. StaffShape'
    BY <1>0, <1>a, <2>1 DEF StaffShape, StaffJob
  <2>3. ASSUME view.user = "careful" PROVE StaffCareful'
    BY <1>0, <1>a, <2>1, <2>3 DEF StaffInv, StaffCareful, StaffJobSafe, StaffDialogSafe, Leaves
  <2>. QED  BY <2>1, <2>2, <2>3 DEF StaffInv
<1>6. CASE Staff!ToggleAll \/ Staff!ClearSelection \/ \E p \in People : Staff!ToggleOne(p)
  <2>1. /\ view'.selected \subseteq People \ {Me}
        /\ view.dialog.kind = "none"
        /\ DOMAIN view' = DOMAIN view /\ view'.page = view.page /\ view'.srv = view.srv
        /\ view'.list = view.list /\ view'.fetch = view.fetch /\ view'.filter = view.filter
        /\ view'.busy = view.busy /\ view'.dialog = view.dialog /\ view'.jobs = view.jobs
        /\ view'.suspect = view.suspect /\ view'.user = view.user
    BY <1>0, <1>6 DEF StaffShape, Staff!ToggleAll, Staff!ClearSelection, Staff!ToggleOne, Staff!OnPage,
       Staff!Acts, Staff!Filtered, Staff!In, Staff!Admins
  <2>2. StaffShape'
    BY <1>0, <1>a, <2>1 DEF StaffShape, StaffJob
  <2>3. ASSUME view.user = "careful" PROVE StaffCareful'
    BY <1>0, <1>a, <2>1, <2>3 DEF StaffInv, StaffCareful, StaffJobSafe, StaffDialogSafe, Leaves
  <2>. QED  BY <2>1, <2>2, <2>3 DEF StaffInv
<1>7. CASE Staff!Close
  <2>1. /\ view'.dialog = Staff!NoDialog
        /\ DOMAIN view' = DOMAIN view /\ view'.page = view.page /\ view'.srv = view.srv
        /\ view'.list = view.list /\ view'.fetch = view.fetch /\ view'.filter = view.filter
        /\ view'.selected = view.selected /\ view'.busy = view.busy /\ view'.jobs = view.jobs
        /\ view'.suspect = view.suspect /\ view'.user = view.user
    BY <1>0, <1>7 DEF Staff!Close
  <2>2. StaffShape'
    BY <1>0, <1>a, <2>1 DEF StaffShape, StaffJob
  <2>3. ASSUME view.user = "careful" PROVE StaffCareful'
    BY <1>0, <1>a, <2>1, <2>3 DEF StaffInv, StaffCareful, StaffJobSafe, StaffDialogSafe, Leaves
  <2>. QED  BY <2>1, <2>2, <2>3 DEF StaffInv
<1>8. CASE Staff!OpenAdd \/ Staff!OpenBulk \/ \E p \in People : Staff!OpenEdit(p) \/ Staff!OpenDelete(p)
  <2>1. PICK kind, who :
          /\ kind \in {"add", "edit", "delete", "bulk"} /\ Staff!OnPage /\ Staff!Opens(kind, who)
          /\ kind = "edit" => who \in Staff!Filtered
          /\ kind = "delete" => who \in Staff!Filtered \ {Me} /\ ~Staff!IsLastAdmin(who)
          /\ kind = "bulk" => Staff!CanBulkDelete
    BY <1>8 DEF Staff!OpenAdd, Staff!OpenBulk, Staff!OpenEdit, Staff!OpenDelete
  <2>. DEFINE role == IF kind = "edit" THEN view.list[who] ELSE "viewer"
  <2>2. /\ view'.dialog = [kind |-> kind, who |-> who, sent |-> FALSE, role |-> role]
        /\ view'.jobs = Staff!Unwatch(kind)
        /\ DOMAIN view' = DOMAIN view /\ view'.page = view.page /\ view'.srv = view.srv
        /\ view'.list = view.list /\ view'.fetch = view.fetch /\ view'.filter = view.filter
        /\ view'.selected = view.selected /\ view'.busy = view.busy
        /\ view'.suspect = view.suspect /\ view'.user = view.user
    BY <1>0, <2>1 DEF Staff!Opens, Staff!OnPage, Staff!Acts
  <2>3. role \in {"admin", "viewer"} /\ (kind \in {"edit", "delete"} => who \in People)
    BY <1>0, <2>1, StaffShown
  <2>. HIDE DEF role
  <2>4. \A j \in view'.jobs : StaffJob(j)'
    BY <1>0, <2>2, StaffUnwatched DEF StaffJob
  <2>5. StaffShape'
    BY <1>0, <2>1, <2>2, <2>3, <2>4 DEF StaffShape
  <2>6. ASSUME view.user = "careful" PROVE StaffCareful'
    <3>1. /\ view.jobs = {} /\ view.fetch.at = "none" /\ ~view.suspect /\ view.list = view.srv
          /\ view.busy = NoUser /\ Staff!Admins(view.srv) # {}
      BY <2>1, <2>6, StaffActs DEF Staff!OnPage, StaffInv, StaffCareful
    <3>2. view'.jobs = {}
      BY <1>0, <2>2, <3>1, StaffUnwatched
    <3>3. kind = "delete" => Leaves({who})
      BY <1>0, <2>1, <2>3, <3>1, StaffNotLast DEF Leaves
    <3>4. kind = "bulk" => Leaves(view.selected)
      BY <1>0, <2>1, <3>1, StaffBulk DEF Leaves
    <3>5. kind = "edit" => role = "admin" \/ Leaves({who})
      BY <3>1 DEF role, Leaves, Staff!Admins
    <3>. QED
      BY <2>1, <2>2, <3>1, <3>2, <3>3, <3>4, <3>5
      DEF StaffCareful, StaffJobSafe, StaffDialogSafe, Leaves
  <2>. QED  BY <2>2, <2>5, <2>6 DEF StaffInv
<1>9. ASSUME NEW r \in Staff!Roles, Staff!PickRole(r) PROVE StaffInv'
  <2>1. /\ view'.dialog = [view.dialog EXCEPT !.role = r]
        /\ DOMAIN view' = DOMAIN view /\ view'.page = view.page /\ view'.srv = view.srv
        /\ view'.list = view.list /\ view'.fetch = view.fetch /\ view'.filter = view.filter
        /\ view'.selected = view.selected /\ view'.busy = view.busy /\ view'.jobs = view.jobs
        /\ view'.suspect = view.suspect /\ view'.user = view.user
    BY <1>0, <1>9 DEF Staff!PickRole
  <2>2. /\ DOMAIN view'.dialog = DOMAIN view.dialog /\ view'.dialog.role = r
        /\ view'.dialog.kind = view.dialog.kind /\ view'.dialog.who = view.dialog.who
        /\ view'.dialog.sent = view.dialog.sent /\ r \in {"admin", "viewer"}
    BY <1>0, <2>1 DEF StaffShape, Staff!Roles
  <2>3. StaffShape'
    BY <1>0, <2>1, <2>2 DEF StaffShape, StaffJob
  <2>4. ASSUME view.user = "careful" PROVE StaffCareful'
    <3>1. /\ view.jobs = {} /\ view.fetch.at = "none" /\ ~view.suspect /\ view.list = view.srv
          /\ view.busy = NoUser /\ Staff!Admins(view.srv) # {}
      BY <1>9, <2>4, StaffActs DEF Staff!PickRole, StaffInv, StaffCareful
    <3>2. view.dialog.kind = "edit" => r = "admin" \/ Leaves({view.dialog.who})
      <4>1. SUFFICES ASSUME view.dialog.kind = "edit", r # "admin" PROVE Leaves({view.dialog.who})
        OBVIOUS
      <4>2. ~Staff!IsLastAdmin(view.dialog.who) /\ view.dialog.who \in People
        BY <1>0, <1>9, <4>1 DEF Staff!PickRole, StaffShape
      <4>. QED  BY <1>0, <3>1, <4>2, StaffNotLast DEF Leaves
    <3>3. view.dialog.kind \in {"add", "edit"}
      BY <1>9 DEF Staff!PickRole
    <3>. QED
      BY <2>1, <2>2, <3>1, <3>2, <3>3 DEF StaffCareful, StaffJobSafe, StaffDialogSafe, Leaves
  <2>. QED  BY <2>1, <2>3, <2>4 DEF StaffInv
<1>10. CASE Staff!Submit
  <2>1. PICK ids \in Staff!Named :
          /\ view'.dialog = [view.dialog EXCEPT !.sent = TRUE]
          /\ view'.jobs = Staff!Unwatch(view.dialog.kind)
                             \union {Staff!Job(view.dialog.kind, ids, view.dialog.role)}
          /\ DOMAIN view' = DOMAIN view /\ view'.page = view.page /\ view'.srv = view.srv
          /\ view'.list = view.list /\ view'.fetch = view.fetch /\ view'.filter = view.filter
          /\ view'.selected = view.selected /\ view'.busy = view.busy
          /\ view'.suspect = view.suspect /\ view'.user = view.user
    BY <1>0, <1>10 DEF Staff!Submit
  <2>2. /\ DOMAIN view'.dialog = DOMAIN view.dialog /\ view'.dialog.sent
        /\ view'.dialog.kind = view.dialog.kind /\ view'.dialog.who = view.dialog.who
        /\ view'.dialog.role = view.dialog.role
    BY <1>0, <2>1
  <2>3. /\ view.dialog.kind \in {"add", "edit", "delete", "bulk"} /\ ~view.dialog.sent /\ Staff!Acts
    BY <1>0, <1>10 DEF Staff!Submit, StaffShape
  <2>4. /\ view.dialog.kind = "bulk" => ids = view.selected
        /\ view.dialog.kind \in {"edit", "delete"} => ids = {view.dialog.who}
        /\ view.dialog.kind = "add" => \E p \in People \ Staff!In(view.srv) : ids = {p}
    <3>1. CASE view.dialog.kind = "bulk"
      BY <2>1, <3>1 DEF Staff!Named
    <3>2. CASE view.dialog.kind \in {"edit", "delete"}
      BY <2>1, <3>2 DEF Staff!Named
    <3>3. CASE view.dialog.kind = "add"
      BY <2>1, <3>3 DEF Staff!Named
    <3>. QED  BY <2>3, <3>1, <3>2, <3>3
  <2>5. PICK k :
          /\ view'.jobs = Staff!Unwatch(view.dialog.kind) \union {k}
          /\ k.kind = view.dialog.kind /\ k.ids = ids /\ k.role = view.dialog.role /\ k.left = ids
          /\ ~k.told
          /\ {"kind", "ids", "role", "left", "failed", "watched", "told"} \subseteq DOMAIN k
    <3>1. PICK k : k = Staff!Job(view.dialog.kind, ids, view.dialog.role)
      OBVIOUS
    <3>2. /\ k.kind = view.dialog.kind /\ k.ids = ids /\ k.role = view.dialog.role /\ k.left = ids
          /\ ~k.told
          /\ {"kind", "ids", "role", "left", "failed", "watched", "told"} \subseteq DOMAIN k
      BY <3>1 DEF Staff!Job
    <3>. QED  BY <2>1, <3>1, <3>2
  <2>7. StaffJob(k)
    BY <1>0, <2>3, <2>4, <2>5 DEF StaffJob, StaffShape
  <2>8. \A j \in view'.jobs : StaffJob(j)'
    BY <1>0, <2>5, <2>7, StaffUnwatched DEF StaffJob
  <2>9. StaffShape'
    BY <1>0, <2>1, <2>2, <2>8 DEF StaffShape
  <2>10. ASSUME view.user = "careful" PROVE StaffCareful'
    <3>1. /\ view.jobs = {} /\ view.fetch.at = "none" /\ ~view.suspect /\ view.list = view.srv
          /\ view.busy = NoUser /\ Staff!Admins(view.srv) # {}
      BY <2>3, <2>10, StaffActs DEF StaffInv, StaffCareful
    <3>2. view'.jobs = {k}
      BY <1>0, <2>5, <3>1, StaffUnwatched
    <3>3. StaffDialogSafe
      BY <2>3, <2>10, <3>1 DEF StaffInv, StaffCareful
    <3>4. view.dialog.kind = "add" => Leaves(ids)
      BY <2>4, <3>1 DEF Leaves, Staff!Admins, Staff!In
    <3>5. StaffJobSafe(k)
      BY <2>3, <2>4, <2>5, <3>3, <3>4 DEF StaffJobSafe, StaffDialogSafe
    <3>6. StaffJobSafe(k)' /\ ~k.told
      BY <2>1, <2>5, <3>5 DEF StaffJobSafe, Leaves
    <3>. QED  BY <2>1, <2>2, <3>1, <3>2, <3>6 DEF StaffCareful
  <2>. QED  BY <2>1, <2>9, <2>10 DEF StaffInv
<1>11. ASSUME NEW p \in People, NEW role \in Staff!Roles, Staff!ChangeRole(p, role) PROVE StaffInv'
  <2>. DEFINE k == Staff!Job("role", {p}, role)
  <2>1. /\ view'.busy = p /\ view'.jobs = Staff!Unwatch("role") \union {k}
        /\ DOMAIN view' = DOMAIN view /\ view'.page = view.page /\ view'.srv = view.srv
        /\ view'.list = view.list /\ view'.fetch = view.fetch /\ view'.filter = view.filter
        /\ view'.selected = view.selected /\ view'.dialog = view.dialog
        /\ view'.suspect = view.suspect /\ view'.user = view.user
    <3>. HIDE DEF k
    <3>. QED  BY <1>0, <1>11 DEF Staff!ChangeRole, k
  <2>2. /\ k.kind = "role" /\ k.ids = {p} /\ k.role = role /\ k.left = {p}
        /\ k.told = FALSE /\ k.watched = TRUE
        /\ {"kind", "ids", "role", "left", "failed", "watched", "told"} \subseteq DOMAIN k
    BY DEF Staff!Job
  <2>. HIDE DEF k
  <2>3. StaffJob(k)
    BY <2>2 DEF StaffJob, Staff!Roles
  <2>4. \A j \in view'.jobs : StaffJob(j)'
    BY <1>0, <2>1, <2>3, StaffUnwatched DEF StaffJob
  <2>5. StaffShape'
    BY <1>0, <2>1, <2>4 DEF StaffShape
  <2>6. ASSUME view.user = "careful" PROVE StaffCareful'
    <3>1. /\ view.jobs = {} /\ view.fetch.at = "none" /\ ~view.suspect /\ view.list = view.srv
          /\ view.busy = NoUser /\ Staff!Admins(view.srv) # {} /\ view.dialog.kind = "none"
      BY <1>11, <2>6, StaffActs DEF Staff!ChangeRole, Staff!OnPage, StaffInv, StaffCareful
    <3>2. view'.jobs = {k}
      BY <1>0, <2>1, <3>1, StaffUnwatched
    <3>3. Leaves({p})
      <4>1. ~Staff!IsLastAdmin(p)
        BY <1>11 DEF Staff!ChangeRole
      <4>. QED  BY <1>0, <3>1, <4>1, StaffNotLast DEF Leaves
    <3>4. StaffJobSafe(k)'
      BY <2>1, <2>2, <3>3 DEF StaffJobSafe, Leaves
    <3>. QED  BY <2>1, <2>2, <3>1, <3>2, <3>4 DEF StaffCareful
  <2>. QED  BY <2>1, <2>5, <2>6 DEF StaffInv
<1>12. ASSUME NEW j \in view.jobs, NEW p \in j.left, Staff!Serve(j, p) PROVE StaffInv'
  <2>0. StaffJob(j) /\ p \in People /\ p \in j.ids
    BY <1>0 DEF StaffShape, StaffJob
  <2>1. PICK good \in BOOLEAN :
          view' = [view EXCEPT
            !.jobs = (@ \ {j}) \union
              (IF j.told /\ [j EXCEPT !.left = @ \ {p}, !.failed = @ \/ ~good].left = {} THEN {}
               ELSE {[j EXCEPT !.left = @ \ {p}, !.failed = @ \/ ~good]}),
            !.srv[p] = IF ~good THEN @
                       ELSE CASE j.kind \in {"delete", "bulk"} -> "gone"
                              [] j.kind = "add" -> j.role
                              [] OTHER -> IF @ = "gone" THEN @ ELSE j.role]
    BY <1>12 DEF Staff!Serve
  <2>2. PICK k : k = [j EXCEPT !.left = @ \ {p}, !.failed = @ \/ ~good]
    OBVIOUS
  <2>3. PICK r : r = IF ~good THEN view.srv[p]
                     ELSE CASE j.kind \in {"delete", "bulk"} -> "gone"
                            [] j.kind = "add" -> j.role
                            [] OTHER -> IF view.srv[p] = "gone" THEN view.srv[p] ELSE j.role
    OBVIOUS
  <2>4. /\ view'.jobs = (view.jobs \ {j}) \union (IF j.told /\ k.left = {} THEN {} ELSE {k})
        /\ view'.srv = [view.srv EXCEPT ![p] = r]
        /\ DOMAIN view' = DOMAIN view /\ view'.page = view.page /\ view'.list = view.list
        /\ view'.fetch = view.fetch /\ view'.filter = view.filter
        /\ view'.selected = view.selected /\ view'.busy = view.busy /\ view'.dialog = view.dialog
        /\ view'.suspect = view.suspect /\ view'.user = view.user
    <3>1. view' = [view EXCEPT
            !.jobs = (@ \ {j}) \union (IF j.told /\ k.left = {} THEN {} ELSE {k}), !.srv[p] = r]
      BY <2>1, <2>2, <2>3
    <3>. QED  BY <1>0, <3>1
  <2>5. /\ k.kind = j.kind /\ k.ids = j.ids /\ k.role = j.role /\ k.left = j.left \ {p}
        /\ k.told = j.told /\ k.watched = j.watched /\ DOMAIN k = DOMAIN j
    BY <2>0, <2>2 DEF StaffJob
  <2>6. r \in RoleOrGone /\ (j.kind \in {"edit", "role"} => r \in {view.srv[p], j.role})
    BY <1>0, <2>0, <2>3 DEF StaffShape, StaffJob, RoleOrGone
  <2>7. StaffJob(k)'
    BY <2>0, <2>5 DEF StaffJob
  <2>8. StaffShape'
    <3>1. \A i \in view'.jobs : StaffJob(i)'
      BY <1>0, <2>4, <2>7 DEF StaffShape, StaffJob
    <3>2. view'.srv \in [People -> RoleOrGone]
      BY <1>0, <2>0, <2>4, <2>6 DEF StaffShape
    <3>. QED  BY <1>0, <2>4, <3>1, <3>2 DEF StaffShape
  <2>9. ASSUME view.user = "careful" PROVE StaffCareful'
    <3>0. StaffCareful
      BY <2>9 DEF StaffInv
    <3>1. view.jobs = {j} /\ StaffJobSafe(j) /\ (j.told => view.suspect)
          /\ (view.busy # NoUser => j.kind = "role" /\ j.watched /\ ~j.told)
      BY <3>0 DEF StaffCareful
    <3>2. view'.jobs \subseteq {k} /\ (view'.jobs = {} => j.told)
      BY <2>4, <3>1
    <3>3. Leaves(j.ids) => Leaves(j.ids)'
      BY <1>0, <2>0, <2>4 DEF Leaves, Staff!Admins, StaffShape
    <3>4. Staff!Admins(view'.srv) # {}
      <4>1. CASE Leaves(j.ids)
        BY <3>3, <4>1 DEF Leaves
      <4>2. CASE j.kind \in {"edit", "role"} /\ j.role = "admin"
        BY <1>0, <2>0, <2>4, <2>3, <2>6, <3>0, <4>2 DEF StaffCareful, Staff!Admins, StaffShape
      <4>. QED  BY <3>1, <4>1, <4>2 DEF StaffJobSafe
    <3>5. StaffJobSafe(k)'
      BY <2>5, <3>1, <3>3 DEF StaffJobSafe, Leaves
    <3>6. ~(view.dialog.kind # "none" /\ ~view.dialog.sent /\ ~view.suspect)
      BY <3>0, <3>1 DEF StaffCareful
    <3>7. view'.busy # NoUser => \E i \in view'.jobs : i.kind = "role" /\ i.watched /\ ~i.told
      BY <2>4, <2>5, <3>1
    <3>8. \A i \in view'.jobs : StaffJobSafe(i)' /\ (i.told => view'.suspect)
      BY <2>4, <2>5, <3>1, <3>2, <3>5
    <3>9. view'.jobs = {} => view'.suspect
      BY <2>4, <3>1, <3>2
    <3>10. Staff!Admins(view.srv)' # {}
      BY <3>4 DEF Staff!Admins
    <3>. QED  BY <2>4, <3>2, <3>6, <3>7, <3>8, <3>9, <3>10 DEF StaffCareful
  <2>. QED  BY <2>4, <2>8, <2>9 DEF StaffInv
<1>13. ASSUME NEW j \in view.jobs, Staff!Succeeds(j) PROVE StaffInv'
  <2>1. /\ view'.jobs = view.jobs \ {j} /\ view'.fetch = Staff!Asked
        /\ view'.selected = IF j.kind = "bulk" THEN {} ELSE view.selected
        /\ view'.busy = IF j.kind = "role" /\ j.watched THEN NoUser ELSE view.busy
        /\ view'.dialog = IF view.dialog.kind = Staff!Family(j.kind) THEN Staff!NoDialog ELSE view.dialog
        /\ DOMAIN view' = DOMAIN view /\ view'.page = view.page /\ view'.srv = view.srv
        /\ view'.list = view.list /\ view'.filter = view.filter /\ view'.suspect = view.suspect
        /\ view'.user = view.user
    BY <1>0, <1>13 DEF Staff!Succeeds
  <2>2. StaffShape'
    BY <1>0, <1>a, <2>1 DEF StaffShape, StaffJob
  <2>3. ASSUME view.user = "careful" PROVE StaffCareful'
    <3>0. StaffCareful
      BY <2>3 DEF StaffInv
    <3>1. view'.jobs = {} /\ (view.busy # NoUser => j.kind = "role" /\ j.watched)
      BY <2>1, <3>0 DEF StaffCareful
    <3>2. view'.dialog.kind = "none" \/ (view'.dialog = view.dialog)
      BY <1>a, <2>1
    <3>3. ~(view.dialog.kind # "none" /\ ~view.dialog.sent /\ ~view.suspect)
      BY <3>0 DEF StaffCareful
    <3>. QED  BY <1>a, <2>1, <3>0, <3>1, <3>2, <3>3 DEF StaffCareful
  <2>. QED  BY <2>1, <2>2, <2>3 DEF StaffInv
<1>14. ASSUME NEW j \in view.jobs, Staff!Fails(j) PROVE StaffInv'
  <2>. DEFINE k == [j EXCEPT !.told = TRUE]
  <2>1. /\ view'.jobs = (view.jobs \ {j}) \union (IF j.left = {} THEN {} ELSE {k})
        /\ view'.suspect = TRUE
        /\ view'.busy = IF j.kind = "role" /\ j.watched THEN NoUser ELSE view.busy
        /\ DOMAIN view'.dialog = DOMAIN view.dialog /\ view'.dialog.kind = view.dialog.kind
        /\ view'.dialog.who = view.dialog.who /\ view'.dialog.role = view.dialog.role
        /\ DOMAIN view' = DOMAIN view /\ view'.page = view.page /\ view'.srv = view.srv
        /\ view'.list = view.list /\ view'.fetch = view.fetch /\ view'.filter = view.filter
        /\ view'.selected = view.selected /\ view'.user = view.user
    <3>. HIDE DEF k
    <3>1. {"kind", "who", "role", "sent"} \subseteq DOMAIN view.dialog
      BY <1>0 DEF StaffShape
    <3>. QED  BY <1>0, <1>14, <3>1 DEF Staff!Fails, k
  <2>2. StaffJob(k)' /\ k.kind = j.kind /\ k.role = j.role /\ k.ids = j.ids
    BY <1>0 DEF StaffShape, StaffJob
  <2>. HIDE DEF k
  <2>3. \A i \in view'.jobs : StaffJob(i)'
    BY <1>0, <2>1, <2>2 DEF StaffShape, StaffJob
  <2>4. StaffShape'
    BY <1>0, <2>1, <2>3 DEF StaffShape
  <2>5. ASSUME view.user = "careful" PROVE StaffCareful'
    <3>0. StaffCareful
      BY <2>5 DEF StaffInv
    <3>1. /\ view.jobs = {j} /\ StaffJobSafe(j)
          /\ view.busy # NoUser => j.kind = "role" /\ j.watched
      BY <3>0 DEF StaffCareful
    <3>2. view'.jobs \subseteq {k} /\ StaffJobSafe(k)'
      BY <2>1, <2>2, <3>1 DEF StaffJobSafe, Leaves
    <3>3. Staff!Admins(view.srv)' # {}
      BY <2>1, <3>0 DEF StaffCareful, Staff!Admins
    <3>. QED  BY <2>1, <3>1, <3>2, <3>3 DEF StaffCareful
  <2>. QED  BY <2>1, <2>4, <2>5 DEF StaffInv
<1>15. ASSUME NEW p \in People, Staff!Elsewhere(p) PROVE StaffInv'
  <2>1. PICK r \in RoleOrGone :
          /\ view'.srv = [view.srv EXCEPT ![p] = r] /\ view'.user = "hasty"
          /\ DOMAIN view' = DOMAIN view /\ view'.page = view.page /\ view'.list = view.list
          /\ view'.fetch = view.fetch /\ view'.filter = view.filter
          /\ view'.selected = view.selected /\ view'.busy = view.busy /\ view'.dialog = view.dialog
          /\ view'.jobs = view.jobs /\ view'.suspect = view.suspect
    BY <1>0, <1>15 DEF Staff!Elsewhere, Staff!Roles, RoleOrGone
  <2>2. view'.srv \in [People -> RoleOrGone]
    BY <1>0, <2>1 DEF StaffShape
  <2>3. StaffShape'
    BY <1>0, <2>1, <2>2 DEF StaffShape, StaffJob
  <2>. QED  BY <2>1, <2>3 DEF StaffInv
<1>. QED
  BY <1>1, <1>2, <1>3, <1>4, <1>5, <1>6, <1>7, <1>8, <1>9, <1>10, <1>11, <1>12, <1>13, <1>14, <1>15
  DEF Staff!Step, Staff!Data, Staff!User

-----------------------------------------------------------------------------
(* The roles.                                                              *)

\* A checked request stays right as long as it is the only one.
RoleRequest(j) ==
  /\ {"kind", "role", "of", "grants", "at"} \subseteq DOMAIN j
  /\ view.oneByOne /\ j.at = "checked" =>
       /\ j.kind = "delete" => \A u \in Holders : view.holds[u] # j.role
       /\ j.kind = "assign" => Rights!Exists(j.role)

RightsInv ==
  /\ view.page = "roles"
  /\ {"page", "srv", "holds", "jobs", "oneByOne"} \subseteq DOMAIN view
  /\ view.oneByOne \in BOOLEAN
  /\ DOMAIN view.srv = Custom /\ \A r \in Custom : "there" \in DOMAIN view.srv[r]
  /\ IsFiniteSet(view.jobs)
  /\ \A j \in view.jobs : RoleRequest(j)
  /\ view.oneByOne => \A i, j \in view.jobs : i = j
  /\ view.oneByOne => \A u \in Holders : Rights!Exists(view.holds[u])

LEMMA RightsMounts ==
  ASSUME view' \in Rights!Mounted
  PROVE  RightsInv'
<1>1. PICK s \in [Custom -> {Rights!Gone, Rights!Role({})}], k \in BOOLEAN :
        view' = [page |-> "roles", srv |-> s, holds |-> [u \in Holders |-> "viewer"],
                 list |-> [r \in Custom |-> Rights!Gone], counted |-> [u \in Holders |-> "viewer"],
                 modal |-> Rights!NoModal, deleting |-> NoRole, jobs |-> {}, oneByOne |-> k]
  BY DEF Rights!Mounted
<1>2. \A r \in Custom : "there" \in DOMAIN s[r]
  BY DEF Rights!Gone, Rights!Role
<1>. QED  BY <1>1, <1>2, FS_EmptySet DEF RightsInv, Rights!Exists

\* A request is added to none, or not one by one.
LEMMA RightsSent ==
  ASSUME RightsInv, NEW kind, NEW role, NEW of, NEW grants, Rights!Send(kind, role, of, grants)
  PROVE  RightsInv'
<1>. DEFINE job == [kind |-> kind, role |-> role, of |-> of, grants |-> grants, at |-> "sent"]
<1>1. view' = [view EXCEPT !.jobs = @ \union {job}]
  BY DEF Rights!Send, Rights!Change
<1>2. view.oneByOne => view.jobs = {}
  <2>1. SUFFICES ASSUME view.oneByOne PROVE view.jobs = {}
    OBVIOUS
  <2>2. Rights!Cardinality(view.jobs) = Cardinality(view.jobs)
    BY DEF Rights!Cardinality, Cardinality
  <2>3. Cardinality(view.jobs) < 1
    BY <2>1, <2>2 DEF Rights!Send
  <2>. QED  BY <2>3, FS_EmptySet, FS_CardinalityType DEF RightsInv
<1>3. IsFiniteSet(view.jobs \union {job})
  BY FS_AddElement DEF RightsInv
<1>4. job.at = "sent" /\ {"kind", "role", "of", "grants", "at"} \subseteq DOMAIN job
  OBVIOUS
<1>. HIDE DEF job
<1>5. \A j \in view'.jobs : RoleRequest(j)'
  BY <1>1, <1>4 DEF RightsInv, RoleRequest, Rights!Exists, Rights!There
<1>. QED  BY <1>1, <1>2, <1>3, <1>5 DEF RightsInv, Rights!Exists, Rights!There

\* A step that touches neither the server nor the requests.
LEMMA RightsLook ==
  ASSUME RightsInv, "page" \in DOMAIN view', view'.page = "roles", DOMAIN view' = DOMAIN view,
         view'.srv = view.srv, view'.holds = view.holds, view'.oneByOne = view.oneByOne,
         view'.jobs = view.jobs
  PROVE  RightsInv'
BY DEF RightsInv, RoleRequest, Rights!Exists, Rights!There

\* Every step of the page.
LEMMA RightsStep ==
  ASSUME RightsInv, Rights!Step
  PROVE  RightsInv'
<1>. USE DEF Rights!Change, Rights!Here
<1>0. {"page", "srv", "holds", "jobs", "oneByOne"} \subseteq DOMAIN view /\ view.page = "roles"
  BY DEF RightsInv
<1>1. CASE Rights!RolesArrive \/ Rights!UsersArrive \/ Rights!OpenNew \/ Rights!OpenView
  BY <1>0, <1>1, RightsLook
  DEF Rights!RolesArrive, Rights!UsersArrive, Rights!OpenNew, Rights!OpenView
<1>2. CASE Rights!CloseModal \/ Rights!CancelDelete
  BY <1>0, <1>2, RightsLook DEF Rights!CloseModal, Rights!CancelDelete
<1>3. ASSUME NEW r \in Custom, Rights!OpenEdit(r) \/ Rights!AskDelete(r) PROVE RightsInv'
  BY <1>0, <1>3, RightsLook DEF Rights!OpenEdit, Rights!AskDelete
<1>4. ASSUME NEW p \in Perms, Rights!Toggle(p) PROVE RightsInv'
  BY <1>0, <1>4, RightsLook DEF Rights!Toggle
<1>5. CASE Rights!Submit \/ Rights!ConfirmDelete
  BY <1>5, RightsSent DEF Rights!Submit, Rights!ConfirmDelete
<1>6. ASSUME NEW u \in Holders, Rights!Assign(u) PROVE RightsInv'
  BY <1>6, RightsSent DEF Rights!Assign
<1>7. ASSUME NEW j \in view.jobs, Rights!Check(j) PROVE RightsInv'
  <2>. DEFINE k == [j EXCEPT !.at = "checked"]
  <2>1. view' = [view EXCEPT !.jobs = (@ \ {j}) \union {k}]
    BY <1>7 DEF Rights!Check
  <2>2. /\ {"kind", "role", "of", "grants", "at"} \subseteq DOMAIN k
        /\ k.at = "checked" /\ k.kind = j.kind /\ k.role = j.role
    BY DEF RightsInv, RoleRequest
  <2>3. IsFiniteSet((view.jobs \ {j}) \union {k})
    BY FS_AddElement, FS_RemoveElement DEF RightsInv
  <2>. HIDE DEF k
  <2>4. view'.srv = view.srv /\ view'.holds = view.holds /\ view'.oneByOne = view.oneByOne
        /\ view'.jobs = (view.jobs \ {j}) \union {k} /\ DOMAIN view' = DOMAIN view
        /\ view'.page = "roles"
    BY <1>0, <2>1
  <2>5. \A i \in view'.jobs : RoleRequest(i)'
    BY <1>7, <2>2, <2>4 DEF RightsInv, RoleRequest, Rights!Exists, Rights!There, Rights!Check
  <2>. QED  BY <2>2, <2>3, <2>4, <2>5 DEF RightsInv, Rights!Exists, Rights!There
<1>8. ASSUME NEW j \in view.jobs, Rights!Serve(j) PROVE RightsInv'
  <2>. DEFINE k == [j EXCEPT !.at = "served"]
  <2>1. /\ {"kind", "role", "of", "grants", "at"} \subseteq DOMAIN k
        /\ k.at = "served"
    BY DEF RightsInv, RoleRequest
  <2>2. IsFiniteSet((view.jobs \ {j}) \union {k})
    BY FS_AddElement, FS_RemoveElement DEF RightsInv
  <2>. DEFINE w == [view EXCEPT !.jobs = (@ \ {j}) \union {k}]
  <2>3. /\ Rights!Becomes(j, j) = w
        /\ DOMAIN w = DOMAIN view /\ w.page = "roles" /\ w.srv = view.srv /\ w.holds = view.holds
        /\ w.oneByOne = view.oneByOne /\ w.jobs = (view.jobs \ {j}) \union {k}
    BY <1>0 DEF Rights!Becomes
  <2>. HIDE DEF k, w
  \* What the server stores, and what follows.
  <2>4. /\ view'.oneByOne = view.oneByOne /\ view'.jobs = (view.jobs \ {j}) \union {k}
        /\ DOMAIN view' = DOMAIN view /\ view'.page = "roles"
    BY <1>0, <1>8, <2>3 DEF Rights!Serve
  <2>5. view.oneByOne => view.jobs = {j} /\ view'.jobs = {k}
    BY <2>4 DEF RightsInv
  <2>6. \/ \E r : view'.srv = [view.srv EXCEPT ![r] = Rights!Role(j.grants)]
                  /\ view'.holds = view.holds
        \/ /\ j.kind = "delete" /\ j.at = "checked"
           /\ view'.srv = [view.srv EXCEPT ![j.role] = Rights!Gone] /\ view'.holds = view.holds
        \/ /\ j.kind = "assign" /\ j.at = "checked" /\ view'.srv = view.srv
           /\ view'.holds = [u \in Holders |-> IF u \in j.of THEN j.role ELSE view.holds[u]]
    <3>1. ASSUME NEW r, NEW role, view' = [w EXCEPT !.srv[r] = role]
          PROVE  view'.srv = [view.srv EXCEPT ![r] = role] /\ view'.holds = view.holds
      BY <1>0, <2>3, <3>1
    <3>2. CASE j.kind = "create"
      <4>1. PICK r : view' = [w EXCEPT !.srv[r] = Rights!Role(j.grants)]
        BY <1>8, <2>3, <3>2 DEF Rights!Serve
      <4>. QED  BY <3>1, <4>1
    <3>3. CASE j.kind = "update"
      <4>1. view' = [w EXCEPT !.srv[j.role] = Rights!Role(j.grants)]
        BY <1>8, <2>3, <3>3 DEF Rights!Serve
      <4>. QED  BY <3>1, <4>1
    <3>4. CASE j.kind = "delete"
      <4>1. j.at = "checked" /\ view' = [w EXCEPT !.srv[j.role] = Rights!Gone]
        BY <1>8, <2>3, <3>4 DEF Rights!Serve
      <4>. QED  BY <3>1, <3>4, <4>1
    <3>5. CASE j.kind = "assign"
      BY <1>0, <1>8, <2>3, <3>5 DEF Rights!Serve
    <3>. QED  BY <1>8, <3>2, <3>3, <3>4, <3>5 DEF Rights!Serve
  <2>7. DOMAIN view'.srv = Custom /\ \A r \in Custom : "there" \in DOMAIN view'.srv[r]
    <3>1. ASSUME NEW r, NEW role, "there" \in DOMAIN role, view'.srv = [view.srv EXCEPT ![r] = role]
          PROVE  DOMAIN view'.srv = Custom /\ \A x \in Custom : "there" \in DOMAIN view'.srv[x]
      BY <3>1 DEF RightsInv
    <3>2. "there" \in DOMAIN Rights!Gone /\ "there" \in DOMAIN Rights!Role(j.grants)
      BY DEF Rights!Role, Rights!Gone
    <3>3. CASE view'.srv = view.srv
      BY <3>3 DEF RightsInv
    <3>. QED  BY <2>6, <3>1, <3>2, <3>3
  <2>8. ASSUME view.oneByOne PROVE \A u \in Holders : Rights!Exists(view.holds[u])'
    <3>1. \A u \in Holders : Rights!Exists(view.holds[u])
      BY <2>8 DEF RightsInv
    <3>2. ASSUME NEW r, view'.srv = [view.srv EXCEPT ![r] = Rights!Role(j.grants)],
                 view'.holds = view.holds
          PROVE  \A u \in Holders : Rights!Exists(view.holds[u])'
      BY <2>7, <3>1, <3>2 DEF RightsInv, Rights!Exists, Rights!There, Rights!Role
    <3>3. CASE /\ j.kind = "delete" /\ j.at = "checked"
               /\ view'.srv = [view.srv EXCEPT ![j.role] = Rights!Gone] /\ view'.holds = view.holds
      BY <2>7, <2>8, <3>1, <3>3 DEF RightsInv, RoleRequest, Rights!Exists, Rights!There
    <3>4. CASE /\ j.kind = "assign" /\ j.at = "checked" /\ view'.srv = view.srv
               /\ view'.holds = [u \in Holders |-> IF u \in j.of THEN j.role ELSE view.holds[u]]
      BY <2>8, <3>1, <3>4 DEF RightsInv, RoleRequest, Rights!Exists, Rights!There
    <3>. QED  BY <2>6, <3>2, <3>3, <3>4
  <2>9. \A i \in view'.jobs : RoleRequest(i)'
    BY <2>1, <2>4, <2>5 DEF RightsInv, RoleRequest
  <2>. QED  BY <2>2, <2>4, <2>5, <2>7, <2>8, <2>9 DEF RightsInv
<1>9. ASSUME NEW j \in view.jobs, Rights!Refused(j) \/ Rights!Settle(j) PROVE RightsInv'
  <2>1. view'.srv = view.srv /\ view'.holds = view.holds /\ view'.oneByOne = view.oneByOne
        /\ view'.jobs = view.jobs \ {j} /\ DOMAIN view' = DOMAIN view /\ view'.page = "roles"
    BY <1>0, <1>9 DEF Rights!Refused, Rights!Settle
  <2>2. IsFiniteSet(view.jobs \ {j})
    BY FS_RemoveElement DEF RightsInv
  <2>3. \A i \in view'.jobs : RoleRequest(i)'
    BY <2>1 DEF RightsInv, RoleRequest, Rights!Exists, Rights!There
  <2>. QED  BY <2>1, <2>2, <2>3 DEF RightsInv, Rights!Exists, Rights!There
<1>. QED
  BY <1>1, <1>2, <1>3, <1>4, <1>5, <1>6, <1>7, <1>8, <1>9 DEF Rights!Step

-----------------------------------------------------------------------------
(* The dialog that deploys.                                                *)

JobFields == {"k", "by", "type", "prefix", "at", "n"}

\* A request, and a row: where no client names one type after another, the name
\* is of the type.
DeployJob(j) ==
  /\ DOMAIN j = JobFields /\ j = [f \in JobFields |-> j[f]]
  /\ ~view.named => j.prefix = j.type

DeployRow(r) ==
  /\ {"type", "prefix", "n", "status"} \subseteq DOMAIN r
  /\ ~view.named => r.prefix = r.type

DeployInv ==
  /\ view.page = "node-deploy"
  /\ {"page", "deps", "list", "modal", "jobs", "named"} \subseteq DOMAIN view
  /\ {"open", "type", "pending", "error"} \subseteq DOMAIN view.modal
  /\ \A j \in view.jobs : DeployJob(j)
  /\ \A r \in view.deps \union view.list : DeployRow(r)
  /\ \A r, s \in view.deps : r.prefix = s.prefix /\ r.n = s.n => r = s
  /\ view.modal.pending => \E j \in view.jobs : j.by = "dialog"

\* The name the server chooses is the one the page predicts.
DeployPredicts ==
  ~view.named /\ view.list = view.deps =>
    \A j \in view'.jobs \ view.jobs :
      j.at = "named" /\ j.by = "dialog" => j.n = Deploying!Predicted(j.type)

LEMMA DeployMounts ==
  ASSUME view' \in Deploying!Mounted
  PROVE  DeployInv'
<1>1. PICK k \in BOOLEAN :
        view' = [page |-> "node-deploy", deps |-> {}, list |-> {}, modal |-> Deploying!Closed,
                 jobs |-> {}, made |-> 0, active |-> 0, named |-> k]
  BY DEF Deploying!Mounted
<1>. QED  BY <1>1 DEF DeployInv, Deploying!Closed

\* A step that leaves the server's rows and the requests alone.
LEMMA DeployLook ==
  ASSUME DeployInv, DOMAIN view' = DOMAIN view, view'.page = view.page, view'.deps = view.deps,
         view'.list \in {view.list, view.deps}, view'.jobs = view.jobs, view'.named = view.named,
         {"open", "type", "pending", "error"} \subseteq DOMAIN view'.modal,
         view'.modal.pending => view.modal.pending
  PROVE  DeployInv' /\ DeployPredicts
<1>1. \A j \in view'.jobs : DeployJob(j)'
  BY DEF DeployInv, DeployJob
<1>2. \A r \in view'.deps \union view'.list : DeployRow(r)'
  BY DEF DeployInv, DeployRow
<1>. QED  BY <1>1, <1>2 DEF DeployInv, DeployPredicts

\* A job that is changed stays a job.
LEMMA DeployJobChanged ==
  ASSUME NEW j, DeployJob(j), NEW f \in {"by", "at", "n"}, NEW x, NEW k, k = [j EXCEPT ![f] = x]
  PROVE  DeployJob(k) /\ k[f] = x /\ \A g \in JobFields \ {f} : k[g] = j[g]
BY DEF DeployJob, JobFields

\* One job for another of the same owner, or for none that waits.
LEMMA DeployJobReplaced ==
  ASSUME DeployInv, NEW j \in view.jobs, NEW k, DeployJob(k), k.by = j.by,
         view'.jobs = (view.jobs \ {j}) \union {k}, view'.named = view.named,
         view'.modal = view.modal
  PROVE  /\ \A i \in view'.jobs : DeployJob(i)'
         /\ view'.modal.pending => \E i \in view'.jobs : i.by = "dialog"
<1>1. \A i \in view'.jobs : DeployJob(i)'
  BY DEF DeployInv, DeployJob
<1>2. view'.modal.pending => \E i \in view'.jobs : i.by = "dialog"
  BY DEF DeployInv
<1>. QED  BY <1>1, <1>2

\* Every step of the page.
LEMMA DeployStep ==
  ASSUME DeployInv, Deploying!Step
  PROVE  DeployInv' /\ DeployPredicts
<1>. USE DEF Deploying!Change, Deploying!Here
<1>0. /\ {"page", "deps", "list", "modal", "jobs", "named"} \subseteq DOMAIN view
      /\ {"open", "type", "pending", "error"} \subseteq DOMAIN view.modal
  BY DEF DeployInv
<1>1. CASE Deploying!ListArrives
  BY <1>0, <1>1, DeployLook DEF Deploying!ListArrives
<1>2. CASE Deploying!OpenModal
  BY <1>0, <1>2, DeployLook DEF Deploying!OpenModal, Deploying!Closed
<1>3. CASE Deploying!ChooseType
  BY <1>0, <1>3, DeployLook DEF Deploying!ChooseType
<1>4. CASE Deploying!ToggleLogs \/ Deploying!CloseLogs
  BY <1>0, <1>4, DeployLook DEF Deploying!ToggleLogs, Deploying!CloseLogs
<1>5. CASE Deploying!CloseModal
  <2>1. /\ view'.jobs = {[j EXCEPT !.by = IF @ = "dialog" THEN "left" ELSE @] : j \in view.jobs}
        /\ view'.modal = Deploying!Closed /\ view'.deps = view.deps /\ view'.list = view.list
        /\ view'.named = view.named /\ DOMAIN view' = DOMAIN view /\ view'.page = view.page
    BY <1>0, <1>5 DEF Deploying!CloseModal
  <2>2. ASSUME NEW k \in view'.jobs PROVE DeployJob(k)' /\ k.by # "dialog"
    <3>1. PICK j \in view.jobs : k = [j EXCEPT !.by = IF @ = "dialog" THEN "left" ELSE @]
      BY <2>1
    <3>2. DeployJob(j)
      BY DEF DeployInv
    <3>3. DeployJob(k) /\ k.by = IF j.by = "dialog" THEN "left" ELSE j.by
      BY <3>1, <3>2, DeployJobChanged
    <3>. QED  BY <2>1, <3>3 DEF DeployJob
  <2>3. \A r \in view'.deps \union view'.list : DeployRow(r)'
    BY <2>1 DEF DeployInv, DeployRow
  <2>4. {"open", "type", "pending", "error"} \subseteq DOMAIN view'.modal /\ ~view'.modal.pending
    <3>1. /\ {"open", "type", "pending", "error"} \subseteq DOMAIN Deploying!Closed
          /\ ~Deploying!Closed.pending
      BY DEF Deploying!Closed
    <3>. QED  BY <2>1, <3>1
  <2>5. \A r, x \in view'.deps : r.prefix = x.prefix /\ r.n = x.n => r = x
    BY <2>1 DEF DeployInv
  <2>. QED  BY <1>0, <2>1, <2>2, <2>3, <2>4, <2>5 DEF DeployInv, DeployPredicts
<1>6. CASE Deploying!Deploy \/ Deploying!DeployElsewhere
  <2>1. PICK by, type, prefix :
          /\ by \in {"dialog", "other"}
          /\ view'.jobs = view.jobs \union {Deploying!Request(by, type, prefix)}
          /\ ~view.named => prefix = type
          /\ \/ view'.modal = view.modal
             \/ by = "dialog" /\ {"open", "type", "pending", "error"} \subseteq DOMAIN view'.modal
          /\ view'.deps = view.deps /\ view'.list = view.list
          /\ view'.named = view.named /\ DOMAIN view' = DOMAIN view /\ view'.page = view.page
    <3>1. CASE Deploying!Deploy
      BY <1>0, <3>1 DEF Deploying!Deploy
    <3>2. CASE Deploying!DeployElsewhere
      BY <1>0, <3>2 DEF Deploying!DeployElsewhere
    <3>. QED  BY <1>6, <3>1, <3>2
  <2>. DEFINE k == Deploying!Request(by, type, prefix)
  <2>2. DeployJob(k) /\ k.by = by /\ k.at = "sent"
    BY <2>1 DEF DeployJob, JobFields, Deploying!Request
  <2>. HIDE DEF k
  <2>3. \A i \in view'.jobs : DeployJob(i)'
    BY <2>1, <2>2 DEF DeployInv, DeployJob, k
  <2>4. \A r \in view'.deps \union view'.list : DeployRow(r)'
    BY <2>1 DEF DeployInv, DeployRow
  <2>5. DeployPredicts
    BY <2>1, <2>2 DEF DeployPredicts, k
  <2>. QED  BY <2>1, <2>2, <2>3, <2>4, <2>5 DEF DeployInv, k
<1>7. ASSUME NEW j \in view.jobs, Deploying!ChooseName(j) PROVE DeployInv' /\ DeployPredicts
  <2>. DEFINE n == IF j.prefix = j.type THEN Deploying!NextPotID(j.type) ELSE 1
              k == [j EXCEPT !.at = "named", !.n = n]
  <2>1. view' = [view EXCEPT !.jobs = (@ \ {j}) \union {k}]
    BY <1>7 DEF Deploying!ChooseName, Deploying!Becomes
  <2>2. /\ view'.jobs = (view.jobs \ {j}) \union {k}
        /\ view'.deps = view.deps /\ view'.list = view.list /\ view'.modal = view.modal
        /\ view'.named = view.named /\ DOMAIN view' = DOMAIN view /\ view'.page = view.page
    <3>. HIDE DEF k
    <3>. QED  BY <1>0, <2>1
  <2>3. DeployJob(j)
    BY DEF DeployInv
  <2>4. DeployJob(k) /\ k.by = j.by /\ k.n = n /\ k.type = j.type /\ k.prefix = j.prefix
    <3>. HIDE DEF n
    <3>. DEFINE i == [j EXCEPT !.at = "named"]
    <3>1. DeployJob(i) /\ \A g \in JobFields \ {"at"} : i[g] = j[g]
      BY <2>3, DeployJobChanged
    <3>2. k = [i EXCEPT !.n = n]
      OBVIOUS
    <3>. HIDE DEF i, k
    <3>3. DeployJob(k) /\ k.n = n /\ \A g \in JobFields \ {"n"} : k[g] = i[g]
      BY <3>1, <3>2, DeployJobChanged
    <3>. QED  BY <3>1, <3>3 DEF JobFields
  <2>5. DeployPredicts
    <3>1. SUFFICES ASSUME ~view.named, view.list = view.deps PROVE k.n = Deploying!Predicted(k.type)
      <4>. HIDE DEF k
      <4>. QED  BY <2>2 DEF DeployPredicts
    <3>2. k.n = Deploying!NextPotID(j.type)
      BY <2>3, <2>4, <3>1 DEF DeployJob
    <3>3. {r \in view.deps : r.type = j.type /\ r.prefix = j.type} = {r \in view.list : r.prefix = j.type}
      BY <3>1 DEF DeployInv, DeployRow
    <3>4. Deploying!NextPotID(j.type) = Deploying!Predicted(j.type)
      BY <3>3 DEF Deploying!NextPotID, Deploying!Predicted
    <3>. HIDE DEF k
    <3>. QED  BY <2>4, <3>2, <3>4
  <2>. HIDE DEF k
  <2>6. \A r \in view'.deps \union view'.list : DeployRow(r)'
    BY <2>2 DEF DeployInv, DeployRow
  <2>7. /\ \A i \in view'.jobs : DeployJob(i)'
        /\ view'.modal.pending => \E i \in view'.jobs : i.by = "dialog"
    BY <2>2, <2>4, DeployJobReplaced
  <2>. QED  BY <2>2, <2>5, <2>6, <2>7 DEF DeployInv
<1>8. ASSUME NEW j \in view.jobs, Deploying!Store(j) PROVE DeployInv' /\ DeployPredicts
  <2>. DEFINE row == [id |-> j.k, type |-> j.type, prefix |-> j.prefix, n |-> j.n, status |-> "pending"]
  <2>1. PICK at \in {"refused", "stored"} :
          /\ view'.jobs = (view.jobs \ {j}) \union {[j EXCEPT !.at = at]}
          /\ \/ view'.deps = view.deps
             \/ view'.deps = view.deps \union {row} /\ ~Deploying!Taken(j)
          /\ view'.list = view.list /\ view'.modal = view.modal
          /\ view'.named = view.named /\ DOMAIN view' = DOMAIN view /\ view'.page = view.page
    <3>. HIDE DEF row
    <3>1. CASE Deploying!Taken(j)
      BY <1>0, <1>8, <3>1 DEF Deploying!Store, Deploying!Becomes
    <3>2. CASE ~Deploying!Taken(j)
      BY <1>0, <1>8, <3>2 DEF Deploying!Store, Deploying!Becomes, row
    <3>. QED  BY <3>1, <3>2
  <2>. DEFINE k == [j EXCEPT !.at = at]
  <2>2. DeployJob(j)
    BY DEF DeployInv
  <2>3. DeployJob(k) /\ k.by = j.by /\ k.at = at
    BY <2>2, DeployJobChanged DEF JobFields
  <2>. HIDE DEF k
  <2>4. DeployPredicts
    BY <2>1, <2>3 DEF DeployPredicts, k
  <2>5. /\ \A i \in view'.jobs : DeployJob(i)'
        /\ view'.modal.pending => \E i \in view'.jobs : i.by = "dialog"
    BY <2>1, <2>3, DeployJobReplaced DEF k
  <2>6. /\ DeployRow(row) /\ row.prefix = j.prefix /\ row.n = j.n
    BY <2>2 DEF DeployRow, DeployJob
  <2>. HIDE DEF row
  <2>7. \A r \in view'.deps \union view'.list : DeployRow(r)'
    BY <2>1, <2>6 DEF DeployInv, DeployRow
  <2>8. \A r, s \in view'.deps : r.prefix = s.prefix /\ r.n = s.n => r = s
    BY <2>1, <2>6 DEF DeployInv, Deploying!Taken
  <2>. QED  BY <2>1, <2>4, <2>5, <2>7, <2>8 DEF DeployInv
<1>9. ASSUME NEW j \in view.jobs, Deploying!Settle(j) PROVE DeployInv' /\ DeployPredicts
  <2>1. /\ view'.jobs = {[i EXCEPT !.by = IF @ = "dialog" /\ j.by # "other" THEN "left" ELSE @]
                           : i \in view.jobs \ {j}}
        /\ view'.modal = IF j.by = "other" THEN view.modal ELSE Deploying!Closed
        /\ view'.deps = view.deps /\ view'.list = view.list
        /\ view'.named = view.named /\ DOMAIN view' = DOMAIN view /\ view'.page = view.page
    BY <1>0, <1>9 DEF Deploying!Settle
  <2>2. ASSUME NEW i \in view.jobs, NEW k,
               k = [i EXCEPT !.by = IF @ = "dialog" /\ j.by # "other" THEN "left" ELSE @]
        PROVE  DeployJob(k)' /\ (k = i \/ k.by # "dialog")
    <3>1. DeployJob(i)
      BY DEF DeployInv
    <3>2. DeployJob(k) /\ k.by = (IF i.by = "dialog" /\ j.by # "other" THEN "left" ELSE i.by)
          /\ \A g \in JobFields \ {"by"} : k[g] = i[g]
      BY <2>2, <3>1, DeployJobChanged
    <3>3. k.by = i.by => k = i
      BY <3>1, <3>2 DEF DeployJob, JobFields
    <3>. QED  BY <2>1, <3>2, <3>3 DEF DeployJob
  <2>3. \A k \in view'.jobs : DeployJob(k)' /\ (k \in view.jobs \/ k.by # "dialog")
    BY <2>1, <2>2
  <2>4. \A r \in view'.deps \union view'.list : DeployRow(r)'
    BY <2>1 DEF DeployInv, DeployRow
  <2>5. view'.modal.pending => \E k \in view'.jobs : k.by = "dialog"
    <3>1. SUFFICES ASSUME view'.modal.pending PROVE \E k \in view'.jobs : k.by = "dialog"
      OBVIOUS
    <3>2. j.by = "other" /\ view.modal.pending
      <4>1. Deploying!Closed.pending = FALSE
        BY DEF Deploying!Closed
      <4>. QED  BY <2>1, <3>1, <4>1
    <3>3. PICK i \in view.jobs : i.by = "dialog"
      BY <3>2 DEF DeployInv
    <3>. DEFINE k == [i EXCEPT !.by = IF @ = "dialog" /\ j.by # "other" THEN "left" ELSE @]
    <3>4. k.by = i.by
      BY <3>2, <3>3 DEF DeployInv, DeployJob, JobFields
    <3>5. k \in view'.jobs
      BY <2>1, <3>2, <3>3
    <3>. HIDE DEF k
    <3>. QED  BY <3>3, <3>4, <3>5
  <2>6. {"open", "type", "pending", "error"} \subseteq DOMAIN view'.modal
    BY <1>0, <2>1 DEF Deploying!Closed
  <2>7. DeployPredicts
    BY <2>3 DEF DeployPredicts
  <2>. QED  BY <2>1, <2>3, <2>4, <2>5, <2>6, <2>7 DEF DeployInv
<1>10. ASSUME NEW j \in view.jobs, Deploying!Refused(j) PROVE DeployInv' /\ DeployPredicts
  <2>1. /\ view'.jobs = view.jobs \ {j}
        /\ view'.modal = IF j.by = "dialog" THEN [view.modal EXCEPT !.pending = FALSE, !.error = TRUE]
                         ELSE view.modal
        /\ view'.deps = view.deps /\ view'.list = view.list
        /\ view'.named = view.named /\ DOMAIN view' = DOMAIN view /\ view'.page = view.page
    BY <1>0, <1>10 DEF Deploying!Refused
  <2>2. /\ {"open", "type", "pending", "error"} \subseteq DOMAIN view'.modal
        /\ view'.modal.pending => view.modal.pending /\ j.by # "dialog"
    BY <1>0, <2>1
  <2>3. /\ \A i \in view'.jobs : DeployJob(i)'
        /\ \A r \in view'.deps \union view'.list : DeployRow(r)'
    BY <2>1 DEF DeployInv, DeployJob, DeployRow
  <2>. QED  BY <2>1, <2>2, <2>3 DEF DeployInv, DeployPredicts
<1>11. ASSUME NEW r \in view.deps, Deploying!AgentReports(r) PROVE DeployInv' /\ DeployPredicts
  <2>1. PICK s :
          /\ \/ view'.deps = view.deps \ {r}
             \/ view'.deps = (view.deps \ {r}) \union {[r EXCEPT !.status = s]}
          /\ view'.jobs = view.jobs /\ view'.list = view.list /\ view'.modal = view.modal
          /\ view'.named = view.named /\ DOMAIN view' = DOMAIN view /\ view'.page = view.page
    BY <1>0, <1>11 DEF Deploying!AgentReports
  <2>. DEFINE q == [r EXCEPT !.status = s]
  <2>2. DeployRow(q) /\ q.prefix = r.prefix /\ q.n = r.n
    BY DEF DeployInv, DeployRow
  <2>6. view'.deps = view.deps \ {r} \/ view'.deps = (view.deps \ {r}) \union {q}
    BY <2>1
  <2>. HIDE DEF q
  <2>3. \A x \in view'.deps \union view'.list : DeployRow(x)'
    BY <2>1, <2>2, <2>6 DEF DeployInv, DeployRow
  <2>4. \A x, y \in view'.deps : x.prefix = y.prefix /\ x.n = y.n => x = y
    BY <2>2, <2>6 DEF DeployInv
  <2>5. \A i \in view'.jobs : DeployJob(i)'
    BY <2>1 DEF DeployInv, DeployJob
  <2>. QED  BY <2>1, <2>3, <2>4, <2>5 DEF DeployInv, DeployPredicts
<1>. QED
  BY <1>1, <1>2, <1>3, <1>4, <1>5, <1>6, <1>7, <1>8, <1>9, <1>10, <1>11 DEF Deploying!Step

-----------------------------------------------------------------------------
(* The Telegram bots.                                                      *)

BotsJob(j) == {"kind", "bot", "at"} \subseteq DOMAIN j

\* The bot that is marked as being tested is.
BotsInv ==
  /\ view.page = "telegram-bots"
  /\ {"page", "list", "fetch", "jobs", "testing", "modal"} \subseteq DOMAIN view
  /\ \A j \in view.jobs : BotsJob(j)
  /\ view.testing # NoBot => \E j \in view.jobs : j.kind = "test" /\ j.bot = view.testing

\* The cards change when a list arrives.
BotsKeep ==
  view'.list # view.list => view.fetch.at = "read" /\ view'.list = view.fetch.list

LEMMA BotsMounts ==
  ASSUME view' \in Notifiers!Mounted
  PROVE  BotsInv'
<1>1. /\ view'.page = "telegram-bots" /\ view'.jobs = {} /\ view'.testing = NoBot
      /\ {"page", "list", "fetch", "jobs", "testing", "modal"} \subseteq DOMAIN view'
  BY DEF Notifiers!Mounted
<1>. QED  BY <1>1 DEF BotsInv

\* A step that leaves the requests alone.
LEMMA BotsLook ==
  ASSUME BotsInv, DOMAIN view' = DOMAIN view, view'.page = view.page, view'.jobs = view.jobs,
         view'.testing = view.testing, BotsKeep
  PROVE  BotsInv' /\ BotsKeep
BY DEF BotsInv, BotsJob

\* A request is sent.
LEMMA BotsSent ==
  ASSUME BotsInv, NEW j, BotsJob(j), DOMAIN view' = DOMAIN view, view'.page = view.page,
         view'.list = view.list, view'.jobs = view.jobs \union {j},
         (view'.testing = view.testing) \/ (j.kind = "test" /\ j.bot = view'.testing)
  PROVE  BotsInv' /\ BotsKeep
BY DEF BotsInv, BotsJob, BotsKeep

\* Every step of the page.
LEMMA BotsStep ==
  ASSUME BotsInv, Notifiers!Step
  PROVE  BotsInv' /\ BotsKeep
<1>. USE DEF Notifiers!Change, Notifiers!Here
<1>0. /\ {"page", "list", "fetch", "jobs", "testing", "modal"} \subseteq DOMAIN view
      /\ view.page = "telegram-bots"
  BY DEF BotsInv
<1>1. CASE Notifiers!PollStarts \/ Notifiers!PollIsRead \/ Notifiers!PollArrives
  BY <1>0, <1>1, BotsLook
  DEF Notifiers!PollStarts, Notifiers!PollIsRead, Notifiers!PollArrives, BotsKeep
<1>2. CASE Notifiers!AddBot \/ Notifiers!SetEnabled \/ Notifiers!CloseModal
  BY <1>0, <1>2, BotsLook
  DEF Notifiers!AddBot, Notifiers!SetEnabled, Notifiers!CloseModal, BotsKeep
<1>3. CASE Notifiers!CancelDelete \/ \E b \in Bots : Notifiers!Edit(b) \/ Notifiers!AskDelete(b)
  BY <1>0, <1>3, BotsLook
  DEF Notifiers!CancelDelete, Notifiers!Edit, Notifiers!AskDelete, BotsKeep
<1>4. CASE \E o \in Options : Notifiers!SetOption(o)
  BY <1>0, <1>4, BotsLook DEF Notifiers!SetOption, BotsKeep
<1>5. ASSUME NEW kind, NEW b, NEW on, NEW config
      PROVE  LET j == Notifiers!Job(kind, b, on, config) IN
               BotsJob(j) /\ j.kind = kind /\ j.bot = b
  BY DEF Notifiers!Job, BotsJob
<1>6. CASE Notifiers!Save \/ Notifiers!Delete \/ \E b \in Bots : Notifiers!Toggle(b)
  <2>1. PICK kind, b, on, config :
          /\ DOMAIN view' = DOMAIN view /\ view'.page = view.page /\ view'.list = view.list
          /\ view'.jobs = view.jobs \union {Notifiers!Job(kind, b, on, config)}
          /\ view'.testing = view.testing
    <3>1. CASE Notifiers!Save
      <4>1. PICK b :
              view' = [view EXCEPT
                !.jobs = @ \union {Notifiers!Job(IF view.modal.of = "new" THEN "create" ELSE "update", b,
                                                 view.modal.enabled, view.modal.config)},
                !.wanted[b] = IF view.patient /\ view.modal.moved THEN view.modal.enabled ELSE @]
        BY <3>1 DEF Notifiers!Save
      <4>. QED  BY <1>0, <4>1
    <3>2. CASE Notifiers!Delete
      BY <1>0, <3>2 DEF Notifiers!Delete
    <3>3. CASE \E b \in Bots : Notifiers!Toggle(b)
      <4>1. PICK b, on :
              view' = [view EXCEPT !.jobs = @ \union {Notifiers!Job("toggle", b, on, {})},
                                   !.wanted[b] = IF view.patient THEN on ELSE @]
        BY <3>3 DEF Notifiers!Toggle
      <4>. QED  BY <1>0, <4>1
    <3>. QED  BY <1>6, <3>1, <3>2, <3>3
  <2>. QED  BY <1>5, <2>1, BotsSent
<1>7. ASSUME NEW b \in Bots, Notifiers!Test(b) PROVE BotsInv' /\ BotsKeep
  <2>1. /\ DOMAIN view' = DOMAIN view /\ view'.page = view.page /\ view'.list = view.list
        /\ view'.jobs = view.jobs \union {Notifiers!Job("test", b, FALSE, {})}
        /\ view'.testing = b
    BY <1>0, <1>7 DEF Notifiers!Test
  <2>2. PICK j : j = Notifiers!Job("test", b, FALSE, {})
    OBVIOUS
  <2>3. BotsJob(j) /\ j.kind = "test" /\ j.bot = b
    BY <2>2 DEF Notifiers!Job, BotsJob
  <2>4. view'.jobs = view.jobs \union {j} /\ (j.kind = "test" /\ j.bot = view'.testing)
    BY <2>1, <2>2, <2>3
  <2>. QED  BY <2>1, <2>3, <2>4, BotsSent
<1>8. ASSUME NEW j \in view.jobs, Notifiers!Serve(j) PROVE BotsInv' /\ BotsKeep
  <2>. DEFINE i == [j EXCEPT !.at = "served"]
  <2>1. BotsJob(j)
    BY DEF BotsInv
  <2>2. BotsJob(i) /\ i.kind = j.kind /\ i.bot = j.bot
    BY <2>1 DEF BotsJob
  <2>3. /\ DOMAIN view' = DOMAIN view /\ view'.page = view.page /\ view'.list = view.list
        /\ view'.jobs = (view.jobs \ {j}) \union {i} /\ view'.testing = view.testing
    BY <1>0, <1>8 DEF Notifiers!Serve
  <2>. HIDE DEF i
  <2>. QED  BY <1>0, <2>2, <2>3 DEF BotsInv, BotsJob, BotsKeep
<1>9. ASSUME NEW j \in view.jobs, Notifiers!Refused(j) \/ Notifiers!Settle(j)
      PROVE  BotsInv' /\ BotsKeep
  <2>1. /\ DOMAIN view' = DOMAIN view /\ view'.page = view.page /\ view'.list = view.list
        /\ view'.jobs = view.jobs \ {j}
        /\ view'.testing = IF j.kind = "test" THEN NoBot ELSE view.testing
    BY <1>0, <1>9 DEF Notifiers!Refused, Notifiers!Settle
  <2>. QED  BY <1>0, <2>1 DEF BotsInv, BotsJob, BotsKeep
<1>. QED
  BY <1>1, <1>2, <1>3, <1>4, <1>6, <1>7, <1>8, <1>9 DEF Notifiers!Step

-----------------------------------------------------------------------------
(* The page of one node.                                                   *)

\* To a user who does one thing at a time there is one request at most, and
\* the mark is on the honeypot it is about.
DetailInv ==
  /\ view.page = "node"
  /\ {"page", "fetch", "pending", "jobs", "oneByOne"} \subseteq DOMAIN view
  /\ \A j \in view.jobs : {"pot", "at"} \subseteq DOMAIN j
  /\ "pot" \in DOMAIN view.pending
  /\ view.oneByOne =>
       /\ \A i, j \in view.jobs : i = j
       /\ \A j \in view.jobs : view.pending.pot = j.pot

LEMMA DetailMounts ==
  ASSUME view' \in Detail!Mounted
  PROVE  DetailInv'
<1>1. /\ view'.page = "node" /\ view'.jobs = {} /\ view'.pending = Detail!Idle
      /\ {"page", "fetch", "pending", "jobs", "oneByOne"} \subseteq DOMAIN view'
  BY DEF Detail!Mounted
<1>2. "pot" \in DOMAIN Detail!Idle
  BY DEF Detail!Idle
<1>. QED  BY <1>1, <1>2 DEF DetailInv

\* A step that leaves the requests and the mark alone.
LEMMA DetailLook ==
  ASSUME DetailInv, DOMAIN view' = DOMAIN view, view'.page = view.page, view'.jobs = view.jobs,
         view'.pending = view.pending, view'.oneByOne = view.oneByOne
  PROVE  DetailInv'
BY DEF DetailInv

\* Every step of the page.
LEMMA DetailStep ==
  ASSUME DetailInv, Detail!Step
  PROVE  DetailInv'
<1>. USE DEF Detail!Change, Detail!Here
<1>0. /\ {"page", "fetch", "pending", "jobs", "oneByOne"} \subseteq DOMAIN view
      /\ view.page = "node"
  BY DEF DetailInv
<1>1. CASE Detail!PollStarts \/ Detail!PollIsRead \/ Detail!PollArrives
  BY <1>0, <1>1, DetailLook DEF Detail!PollStarts, Detail!PollIsRead, Detail!PollArrives
<1>2. CASE \E p \in Pots : Detail!AgentReports(p)
  <2>1. PICK p, s : view' = [view EXCEPT !.real[p] = s]
    BY <1>2 DEF Detail!AgentReports
  <2>. QED  BY <1>0, <2>1, DetailLook
<1>3. ASSUME NEW p \in Pots, NEW a \in Detail!Acts, Detail!Act(p, a) PROVE DetailInv'
  <2>. DEFINE j == [pot |-> p, act |-> a, at |-> "sent"]
  <2>1. /\ DOMAIN view' = DOMAIN view /\ view'.page = view.page
        /\ view'.jobs = view.jobs \union {j} /\ view'.oneByOne = view.oneByOne
        /\ view'.pending = [pot |-> p, act |-> a]
    BY <1>0, <1>3 DEF Detail!Act
  <2>2. view.oneByOne => view.jobs = {}
    BY <1>3 DEF Detail!Act, Detail!Busy, DetailInv
  <2>3. {"pot", "at"} \subseteq DOMAIN j /\ j.pot = p
    OBVIOUS
  <2>4. "pot" \in DOMAIN view'.pending /\ view'.pending.pot = p
    BY <2>1
  <2>. HIDE DEF j
  <2>. QED  BY <1>0, <2>1, <2>2, <2>3, <2>4 DEF DetailInv
<1>4. ASSUME NEW j \in view.jobs, Detail!Serve(j) PROVE DetailInv'
  <2>. DEFINE i == [j EXCEPT !.at = "served"]
  <2>1. {"pot", "at"} \subseteq DOMAIN i /\ i.pot = j.pot
    BY DEF DetailInv
  <2>2. /\ DOMAIN view' = DOMAIN view /\ view'.page = view.page
        /\ view'.jobs = (view.jobs \ {j}) \union {i} /\ view'.oneByOne = view.oneByOne
        /\ view'.pending = view.pending
    BY <1>0, <1>4 DEF Detail!Serve
  <2>. HIDE DEF i
  <2>. QED  BY <1>0, <2>1, <2>2 DEF DetailInv
<1>5. ASSUME NEW j \in view.jobs, Detail!Settle(j) PROVE DetailInv'
  <2>1. /\ DOMAIN view' = DOMAIN view /\ view'.page = view.page
        /\ view'.jobs = view.jobs \ {j} /\ view'.oneByOne = view.oneByOne
        /\ view'.pending = Detail!Idle
    BY <1>0, <1>5 DEF Detail!Settle
  <2>2. "pot" \in DOMAIN Detail!Idle
    BY DEF Detail!Idle
  <2>3. view.oneByOne => view'.jobs = {}
    BY <2>1 DEF DetailInv
  <2>. QED  BY <1>0, <2>1, <2>2, <2>3 DEF DetailInv
<1>. QED  BY <1>1, <1>2, <1>3, <1>4, <1>5 DEF Detail!Step

-----------------------------------------------------------------------------
(* The metrics of a node.                                                  *)

MetricsFields ==
  {"page", "open", "online", "latest", "shown", "loaded", "hours", "fetch", "refresh", "stray"}

\* The period that is open was asked for or has something to show; a refresh
\* that waits for the agent has, and one that reads is asked for, and what was
\* read for it is new enough.
MetricsInv ==
  /\ view.page = "node-metrics" /\ DOMAIN view = MetricsFields
  /\ view.hours \in Hours /\ view.stray \subseteq Hours /\ view.latest \in Nat
  /\ view.open \in BOOLEAN
  /\ view.shown \in [Hours -> Nat] /\ view.loaded \in [Hours -> BOOLEAN]
  /\ view.fetch \in [Hours -> [at : {"none", "asked", "read"}, value : Nat]]
  /\ view.refresh \in
       [at : {"none", "command", "wait", "reading"}, since : Nat, hours : Nat, same : BOOLEAN]
  /\ view.refresh.since <= view.latest
  /\ view.open => view.fetch[view.hours].at # "none" \/ view.loaded[view.hours]
  /\ view.refresh.at # "none" => view.refresh.hours \in Hours
  /\ view.refresh.at \in {"command", "wait"} => view.loaded[view.refresh.hours]
  /\ view.refresh.at = "reading" =>
       /\ view.fetch[view.refresh.hours].at # "none"
       /\ view.refresh.same /\ view.fetch[view.refresh.hours].at = "read" =>
            view.fetch[view.refresh.hours].value >= view.refresh.since

\* A refresh that ends has brought what the agent had reported.
MetricsNew ==
  view.refresh.at = "reading" /\ view.refresh.same /\ view'.refresh.at = "none" /\ view'.open
    => view'.shown[view.refresh.hours] >= view.refresh.since

LEMMA MetricsPeriod == Metrics!FirstPeriod \in Hours
<1>1. \E h \in Hours : \A g \in Hours : h <= g
  <2>. DEFINE R == OpToRel(<, Nat)
  <2>1. IsWellFoundedOn(R, Nat)
    BY NatLessThanWellFounded
  <2>. HIDE DEF R
  <2>2. PICK h \in Hours : \A g \in Hours : ~(<<g, h>> \in R)
    BY <2>1, ConsoleAssumption, WFMin
  <2>3. ASSUME NEW g \in Hours PROVE h <= g
    <3>1. g \in Nat /\ h \in Nat /\ ~(<<g, h>> \in R)
      BY <2>2, ConsoleAssumption
    <3>2. ~(g < h)
      BY <3>1 DEF R, OpToRel
    <3>. QED  BY <3>1, <3>2
  <2>. QED  BY <2>3
<1>. QED  BY <1>1 DEF Metrics!FirstPeriod

LEMMA MetricsMounts ==
  ASSUME view' \in Metrics!Mounted
  PROVE  MetricsInv'
<1>1. PICK o \in BOOLEAN :
        view' = [page |-> "node-metrics", open |-> FALSE, online |-> o, latest |-> 0,
                 shown |-> [h \in Hours |-> 0], loaded |-> [h \in Hours |-> FALSE],
                 hours |-> Metrics!FirstPeriod, fetch |-> [h \in Hours |-> Metrics!NoFetch],
                 refresh |-> Metrics!NoRefresh, stray |-> {}]
  BY DEF Metrics!Mounted
<1>2. Metrics!NoFetch \in [at : {"none", "asked", "read"}, value : Nat]
  BY DEF Metrics!NoFetch
<1>3. /\ Metrics!NoRefresh \in
           [at : {"none", "command", "wait", "reading"}, since : Nat, hours : Nat, same : BOOLEAN]
      /\ Metrics!NoRefresh.at = "none" /\ Metrics!NoRefresh.since = 0
  BY DEF Metrics!NoRefresh
<1>. QED  BY <1>1, <1>2, <1>3, MetricsPeriod DEF MetricsInv, MetricsFields

\* Asking for a period leaves everything else alone.
LEMMA MetricsAsked ==
  ASSUME NEW v, DOMAIN v = MetricsFields, NEW h \in Hours,
         v.fetch \in [Hours -> [at : {"none", "asked", "read"}, value : Nat]],
         NEW w, (w = Metrics!Ask(v, h)) \/ (w = Metrics!AskUnlessAsked(v, h))
  PROVE  /\ DOMAIN w = MetricsFields
         /\ \A f \in MetricsFields \ {"fetch"} : w[f] = v[f]
         /\ w.fetch \in [Hours -> [at : {"none", "asked", "read"}, value : Nat]]
         /\ w.fetch[h].at # "none" /\ \A g \in Hours \ {h} : w.fetch[g] = v.fetch[g]
         /\ w.fetch[h].at = "asked" \/ w.fetch = v.fetch
<1>1. CASE w = Metrics!Ask(v, h)
  <2>1. w = [v EXCEPT !.fetch = [v.fetch EXCEPT ![h] = [at |-> "asked", value |-> 0]]]
    BY <1>1 DEF Metrics!Ask
  <2>. QED  BY <2>1 DEF MetricsFields
<1>2. CASE w = v /\ v.fetch[h].at # "none"
  BY <1>2
<1>. QED  BY <1>1, <1>2 DEF Metrics!AskUnlessAsked

\* Every step of the page.
LEMMA MetricsStep ==
  ASSUME MetricsInv, Metrics!Step
  PROVE  MetricsInv' /\ MetricsNew
<1>. DEFINE Fetch == [at : {"none", "asked", "read"}, value : Nat]
            Refresh == [at : {"none", "command", "wait", "reading"}, since : Nat, hours : Nat,
                        same : BOOLEAN]
<1>. USE DEF Metrics!Change, Metrics!Here
<1>0. /\ view.page = "node-metrics" /\ DOMAIN view = MetricsFields
      /\ view.hours \in Hours /\ view.stray \subseteq Hours /\ view.latest \in Nat
      /\ view.open \in BOOLEAN
      /\ view.shown \in [Hours -> Nat] /\ view.loaded \in [Hours -> BOOLEAN]
      /\ view.fetch \in [Hours -> Fetch] /\ view.refresh \in Refresh
      /\ view.refresh.since <= view.latest
  BY DEF MetricsInv
<1>a. /\ Metrics!NoFetch \in Fetch /\ Metrics!NoFetch.at = "none"
      /\ Metrics!NoRefresh \in Refresh
      /\ Metrics!NoRefresh.at = "none" /\ Metrics!NoRefresh.since = 0
  BY DEF Metrics!NoFetch, Metrics!NoRefresh
<1>1. CASE Metrics!LeaveTab
  <2>1. /\ view'.page = view.page /\ DOMAIN view' = DOMAIN view /\ view'.hours = view.hours
        /\ view'.stray \subseteq Hours /\ view'.latest = view.latest /\ view'.shown = view.shown
        /\ view'.loaded = view.loaded /\ view'.fetch = view.fetch
        /\ view'.refresh = Metrics!NoRefresh /\ view'.open = FALSE
    BY <1>0, <1>1 DEF Metrics!LeaveTab, MetricsFields
  <2>2. MetricsNew
    BY <2>1 DEF MetricsNew
  <2>3. /\ view'.refresh \in Refresh /\ view'.refresh.at = "none"
        /\ view'.refresh.since <= view'.latest /\ view'.open \in BOOLEAN
    <3>1. view'.refresh.since = 0 /\ view'.refresh.at = "none"
      BY <1>a, <2>1
    <3>2. view'.latest >= 0
      BY <1>0, <2>1
    <3>3. view'.open \in BOOLEAN
      BY <2>1
    <3>4. view'.refresh \in Refresh
      BY <1>a, <2>1
    <3>. QED  BY <3>1, <3>2, <3>3, <3>4
  <2>. QED  BY <1>0, <2>1, <2>2, <2>3 DEF MetricsInv
<1>2. CASE Metrics!OpenTab \/ Metrics!SetHours
  <2>1. PICK h \in Hours, o \in BOOLEAN :
          view' = Metrics!AskUnlessAsked([view EXCEPT !.open = o, !.hours = h], h)
    <3>1. CASE Metrics!OpenTab
      BY <3>1, MetricsPeriod DEF Metrics!OpenTab
    <3>2. CASE Metrics!SetHours
      <4>1. PICK h \in Hours : view' = Metrics!AskUnlessAsked([view EXCEPT !.hours = h], h)
        BY <3>2 DEF Metrics!SetHours
      <4>2. [view EXCEPT !.hours = h] = [view EXCEPT !.open = TRUE, !.hours = h]
        BY <1>0, <3>2 DEF Metrics!SetHours, MetricsFields
      <4>. QED  BY <4>1, <4>2
    <3>. QED  BY <1>2, <3>1, <3>2
  <2>2. PICK v, w :
          /\ v = [view EXCEPT !.open = o, !.hours = h]
          /\ w = Metrics!AskUnlessAsked(v, h) /\ w = view'
    BY <2>1
  <2>3. /\ DOMAIN v = MetricsFields /\ v.hours = h /\ v.open = o
        /\ \A f \in MetricsFields \ {"open", "hours"} : v[f] = view[f]
    BY <1>0, <2>2 DEF MetricsFields
  <2>4. v.fetch \in [Hours -> Fetch] /\ v.fetch = view.fetch
    BY <1>0, <2>3 DEF MetricsFields
  <2>5. /\ DOMAIN w = MetricsFields
        /\ \A f \in MetricsFields \ {"fetch"} : w[f] = v[f]
        /\ w.fetch \in [Hours -> Fetch] /\ w.fetch[h].at # "none"
        /\ \A g \in Hours \ {h} : w.fetch[g] = v.fetch[g]
        /\ w.fetch[h].at = "asked" \/ w.fetch = v.fetch
    <3>1. w = Metrics!AskUnlessAsked(v, h) /\ DOMAIN v = MetricsFields
      BY <2>2, <2>3
    <3>. QED  BY <2>4, <3>1, MetricsAsked
  <2>6. /\ view'.page = view.page /\ view'.hours = h /\ view'.stray = view.stray
        /\ view'.latest = view.latest /\ view'.shown = view.shown /\ view'.loaded = view.loaded
        /\ view'.refresh = view.refresh /\ view'.open \in BOOLEAN
    <3>1. w = view'
      BY <2>2
    <3>. QED  BY <2>3, <2>5, <3>1 DEF MetricsFields
  <2>7. MetricsNew
    BY <1>0, <2>6 DEF MetricsNew
  <2>. QED  BY <1>0, <2>2, <2>4, <2>5, <2>6, <2>7 DEF MetricsInv
<1>3. CASE Metrics!AutoRefresh \/ Metrics!StrayRead
  <2>1. PICK h, w :
          /\ h \in Hours /\ w = Metrics!Ask(view, h) /\ DOMAIN view' = DOMAIN w
          /\ \A f \in MetricsFields \ {"stray"} : view'[f] = w[f]
          /\ view'.stray \subseteq Hours
    <3>1. CASE Metrics!AutoRefresh
      <4>1. PICK w : w = Metrics!Ask(view, view.hours) /\ view' = w
        BY <3>1 DEF Metrics!AutoRefresh
      <4>2. w.stray = view.stray
        BY <1>0, <4>1, MetricsAsked DEF MetricsFields
      <4>3. view'.stray \subseteq Hours
        BY <1>0, <4>1, <4>2
      <4>. QED  BY <1>0, <4>1, <4>3
    <3>2. CASE Metrics!StrayRead
      <4>1. PICK h, w :
              h \in view.stray /\ w = Metrics!Ask(view, h) /\ view' = [w EXCEPT !.stray = @ \ {h}]
        BY <3>2 DEF Metrics!StrayRead
      <4>2. w.stray = view.stray /\ DOMAIN w = MetricsFields
        <5>1. h \in Hours
          BY <1>0, <4>1
        <5>. QED  BY <1>0, <4>1, <5>1, MetricsAsked DEF MetricsFields
      <4>3. /\ DOMAIN view' = DOMAIN w /\ view'.stray = view.stray \ {h}
            /\ \A f \in MetricsFields \ {"stray"} : view'[f] = w[f]
        BY <4>1, <4>2 DEF MetricsFields
      <4>4. h \in Hours /\ view'.stray \subseteq Hours
        BY <1>0, <4>1, <4>3
      <4>. QED  BY <4>1, <4>3, <4>4
    <3>. QED  BY <1>3, <3>1, <3>2
  <2>2. /\ DOMAIN w = MetricsFields
        /\ \A f \in MetricsFields \ {"fetch"} : w[f] = view[f]
        /\ w.fetch \in [Hours -> Fetch] /\ w.fetch[h].at # "none"
        /\ \A g \in Hours \ {h} : w.fetch[g] = view.fetch[g]
        /\ w.fetch[h].at = "asked" \/ w.fetch = view.fetch
    BY <1>0, <2>1, MetricsAsked
  <2>3. /\ view'.page = view.page /\ view'.hours = view.hours /\ view'.open = view.open
        /\ view'.latest = view.latest /\ view'.shown = view.shown /\ view'.loaded = view.loaded
        /\ view'.refresh = view.refresh /\ view'.fetch = w.fetch
    BY <2>1, <2>2 DEF MetricsFields
  <2>. QED  BY <1>0, <2>1, <2>2, <2>3 DEF MetricsInv, MetricsNew
<1>4. CASE Metrics!ManualRefresh
  <2>. DEFINE at(a) == [at |-> a, since |-> view.latest, hours |-> view.hours, same |-> TRUE]
  <2>1. at("command") \in Refresh /\ at("reading") \in Refresh
    BY <1>0, ConsoleAssumption
  <2>2. view.loaded[view.hours] \/ ~view.open
    BY <1>4 DEF Metrics!ManualRefresh, MetricsInv
  <2>3. CASE view' = [view EXCEPT !.refresh = at("command")]
    <3>1. /\ view'.page = view.page /\ DOMAIN view' = DOMAIN view /\ view'.hours = view.hours
          /\ view'.stray = view.stray /\ view'.latest = view.latest /\ view'.shown = view.shown
          /\ view'.loaded = view.loaded /\ view'.fetch = view.fetch /\ view'.open = view.open
          /\ view'.refresh = at("command")
      BY <1>0, <2>3 DEF MetricsFields
    <3>2. view.open
      BY <1>4 DEF Metrics!ManualRefresh
    <3>. QED  BY <1>0, <2>1, <2>2, <3>1, <3>2 DEF MetricsInv, MetricsNew
  <2>4. CASE view' = [Metrics!Ask(view, view.hours) EXCEPT !.refresh = at("reading")]
    <3>1. PICK w : w = Metrics!Ask(view, view.hours)
      OBVIOUS
    <3>2. /\ DOMAIN w = MetricsFields
          /\ \A f \in MetricsFields \ {"fetch"} : w[f] = view[f]
          /\ w.fetch \in [Hours -> Fetch]
      BY <1>0, <3>1, MetricsAsked
    <3>3. w.fetch[view.hours].at = "asked"
      BY <1>0, <3>1 DEF Metrics!Ask, MetricsFields
    <3>4. /\ DOMAIN view' = MetricsFields /\ view'.refresh = at("reading")
          /\ \A f \in MetricsFields \ {"refresh"} : view'[f] = w[f]
      BY <2>4, <3>1, <3>2 DEF MetricsFields
    <3>5. /\ view'.page = view.page /\ view'.hours = view.hours /\ view'.stray = view.stray
          /\ view'.latest = view.latest /\ view'.shown = view.shown /\ view'.loaded = view.loaded
          /\ view'.open = view.open /\ view'.fetch = w.fetch
      BY <3>2, <3>4 DEF MetricsFields
    <3>. QED  BY <1>0, <2>1, <3>2, <3>3, <3>4, <3>5 DEF MetricsInv, MetricsNew
  <2>. QED  BY <1>4, <2>3, <2>4 DEF Metrics!ManualRefresh
<1>5. CASE Metrics!CommandSent
  <2>1. /\ view'.page = view.page /\ DOMAIN view' = DOMAIN view /\ view'.hours = view.hours
        /\ view'.stray = view.stray /\ view'.latest = view.latest /\ view'.shown = view.shown
        /\ view'.loaded = view.loaded /\ view'.fetch = view.fetch /\ view'.open = view.open
        /\ view'.refresh = [view.refresh EXCEPT !.at = "wait"]
    BY <1>0, <1>5 DEF Metrics!CommandSent, MetricsFields
  <2>2. /\ view'.refresh \in Refresh /\ view'.refresh.at = "wait"
        /\ view'.refresh.since = view.refresh.since /\ view'.refresh.hours = view.refresh.hours
    BY <1>0, <2>1
  <2>3. view.refresh.at = "command"
    BY <1>5 DEF Metrics!CommandSent
  <2>. QED  BY <1>0, <2>1, <2>2, <2>3 DEF MetricsInv, MetricsNew
<1>6. CASE Metrics!Reread
  <2>1. PICK w : /\ w = Metrics!Ask(view, view.hours) \/ w = Metrics!AskUnlessAsked(view, view.hours)
                 /\ w = Metrics!Ask(view, view.hours) \/ ~view.loaded[view.hours]
                 /\ view' = Metrics!Reading(w)
    BY <1>6 DEF Metrics!Reread
  <2>2. /\ DOMAIN w = MetricsFields
        /\ \A f \in MetricsFields \ {"fetch"} : w[f] = view[f]
        /\ w.fetch \in [Hours -> Fetch] /\ w.fetch[view.hours].at # "none"
    BY <1>0, <2>1, MetricsAsked
  <2>3. view.loaded[view.hours] => w.fetch[view.hours].at = "asked"
    BY <1>0, <2>1 DEF Metrics!Ask, MetricsFields
  <2>4. /\ w.refresh = view.refresh /\ w.hours = view.hours /\ w.latest = view.latest
        /\ w.page = view.page /\ w.stray = view.stray /\ w.shown = view.shown
        /\ w.loaded = view.loaded /\ w.open = view.open
    BY <2>2 DEF MetricsFields
  <2>5. /\ DOMAIN view' = MetricsFields
        /\ \A f \in MetricsFields \ {"refresh"} : view'[f] = w[f]
        /\ view'.refresh = [view.refresh EXCEPT !.at = "reading", !.same = @ /\ view.refresh.hours = view.hours,
                                                !.hours = view.hours, !.since = view.latest]
    BY <1>0, <2>1, <2>2, <2>4 DEF Metrics!Reading, MetricsFields
  <2>6. PICK r : r = view'.refresh
    OBVIOUS
  <2>7. /\ r \in Refresh /\ r.at = "reading" /\ r.hours = view.hours /\ r.since = view.latest
        /\ r.same = (view.refresh.same /\ view.refresh.hours = view.hours)
    <3>1. view.hours \in Nat
      BY <1>0, ConsoleAssumption
    <3>. QED  BY <1>0, <2>5, <2>6, <3>1
  <2>8. /\ view'.page = view.page
        /\ view'.hours = view.hours /\ view'.stray = view.stray /\ view'.latest = view.latest
        /\ view'.shown = view.shown /\ view'.loaded = view.loaded /\ view'.open = view.open
        /\ view'.fetch = w.fetch
    BY <2>4, <2>5 DEF MetricsFields
  <2>9. r.same => w.fetch[view.hours].at = "asked"
    <3>1. view.refresh.at \in {"command", "wait"}
      BY <1>6 DEF Metrics!Reread
    <3>. QED  BY <2>3, <2>7, <3>1 DEF MetricsInv
  <2>. QED  BY <1>0, <2>2, <2>5, <2>6, <2>7, <2>8, <2>9 DEF MetricsInv, MetricsNew
<1>7. ASSUME NEW h \in Hours, Metrics!FetchIsRead(h) PROVE MetricsInv' /\ MetricsNew
  <2>1. /\ view'.page = view.page /\ DOMAIN view' = DOMAIN view /\ view'.hours = view.hours
        /\ view'.stray = view.stray /\ view'.latest = view.latest /\ view'.shown = view.shown
        /\ view'.loaded = view.loaded /\ view'.open = view.open /\ view'.refresh = view.refresh
        /\ view'.fetch = [view.fetch EXCEPT ![h] = [at |-> "read", value |-> view.latest]]
    BY <1>0, <1>7 DEF Metrics!FetchIsRead, MetricsFields
  <2>2. /\ view'.fetch \in [Hours -> Fetch]
        /\ view'.fetch[h].at = "read" /\ view'.fetch[h].value = view.latest
        /\ \A g \in Hours \ {h} : view'.fetch[g] = view.fetch[g]
    BY <1>0, <2>1
  <2>. QED  BY <1>0, <2>1, <2>2 DEF MetricsInv, MetricsNew
<1>8. ASSUME NEW h \in Hours, Metrics!FetchArrives(h) PROVE MetricsInv' /\ MetricsNew
  <2>1. /\ view'.page = view.page /\ DOMAIN view' = DOMAIN view /\ view'.hours = view.hours
        /\ view'.stray = view.stray /\ view'.latest = view.latest /\ view'.open = view.open
        /\ view'.shown = [view.shown EXCEPT ![h] = view.fetch[h].value]
        /\ view'.loaded = [view.loaded EXCEPT ![h] = TRUE]
        /\ view'.fetch = [view.fetch EXCEPT ![h] = Metrics!NoFetch]
        /\ view'.refresh = IF view.refresh.at = "reading" /\ view.refresh.hours = h
                           THEN Metrics!NoRefresh ELSE view.refresh
    BY <1>0, <1>8 DEF Metrics!FetchArrives, MetricsFields
  <2>2. /\ view'.shown \in [Hours -> Nat] /\ view'.shown[h] = view.fetch[h].value
        /\ view'.loaded \in [Hours -> BOOLEAN] /\ view'.loaded[h]
        /\ \A g \in Hours \ {h} : view'.loaded[g] = view.loaded[g]
        /\ view'.fetch \in [Hours -> Fetch]
        /\ \A g \in Hours \ {h} : view'.fetch[g] = view.fetch[g]
    BY <1>0, <1>a, <2>1
  <2>3. view'.refresh \in Refresh /\ view'.refresh.since <= view.latest
    BY <1>0, <1>a, <2>1
  <2>4. view.fetch[h].at = "read"
    BY <1>8 DEF Metrics!FetchArrives
  <2>. HIDE DEF Fetch, Refresh
  <2>5. MetricsNew
    BY <1>0, <2>1, <2>2, <2>4 DEF MetricsInv, MetricsNew
  <2>6. view'.refresh.at # "none" => view'.refresh = view.refresh
    BY <1>a, <2>1
  <2>7. view'.refresh.at = "reading" => view'.refresh.hours # h
    BY <1>a, <2>1
  <2>. QED
    BY <1>0, <2>1, <2>2, <2>3, <2>5, <2>6, <2>7 DEF MetricsInv, Fetch, Refresh
<1>9. CASE Metrics!AgentReports \/ Metrics!OnlineChanges
  <2>1. /\ view'.page = view.page /\ DOMAIN view' = DOMAIN view /\ view'.hours = view.hours
        /\ view'.stray = view.stray /\ view'.latest \in {view.latest, view.latest + 1}
        /\ view'.shown = view.shown /\ view'.loaded = view.loaded /\ view'.open = view.open
        /\ view'.refresh = view.refresh /\ view'.fetch = view.fetch
    BY <1>0, <1>9 DEF Metrics!AgentReports, Metrics!OnlineChanges, MetricsFields
  <2>. QED  BY <1>0, <2>1 DEF MetricsInv, MetricsNew
<1>. QED  BY <1>1, <1>2, <1>3, <1>4, <1>5, <1>6, <1>7, <1>8, <1>9 DEF Metrics!Step

-----------------------------------------------------------------------------
(* The front page.                                                         *)

\* A layout is due only while the map is open, and only the one that is run.
FrontFields == {"page", "tab", "graph", "layout", "due", "frames"}

Due(v) == v.due \subseteq IF v.tab = "topology" THEN {v.layout} ELSE {}

FrontInv ==
  /\ view.page = "dashboard" /\ FrontFields \subseteq DOMAIN view
  /\ Due(view)

LEMMA FrontMounts ==
  ASSUME view' \in Front!Mounted
  PROVE  FrontInv'
<1>1. view' = Front!Fresh
  BY DEF Front!Mounted
<1>2. view'.page = "dashboard" /\ FrontFields \subseteq DOMAIN view' /\ view'.due = {}
  BY <1>1 DEF Front!Fresh, FrontFields
<1>. QED  BY <1>2 DEF FrontInv, Due

\* Starting a layout stops the one before it.
LEMMA FrontRelaid ==
  ASSUME NEW v, FrontFields \subseteq DOMAIN v, Due(v), v.tab = "topology"
  PROVE  LET w == Front!Relaid(v) IN
           DOMAIN w = DOMAIN v /\ w.page = v.page /\ w.tab = v.tab /\ Due(w)
<1>. DEFINE w == Front!Relaid(v)
<1>1. /\ DOMAIN w = DOMAIN v /\ w.page = v.page /\ w.tab = v.tab /\ w.layout = 1 - v.layout
      /\ w.due = (v.due \ {v.layout}) \union {1 - v.layout}
  BY DEF Front!Relaid, FrontFields
<1>. HIDE DEF w
<1>2. Due(w)
  BY <1>1 DEF Due
<1>. QED  BY <1>1, <1>2 DEF w

\* So does building the map anew.
LEMMA FrontRebuilt ==
  ASSUME NEW v, FrontFields \subseteq DOMAIN v, Due(v)
  PROVE  LET w == Front!Rebuilt(v) IN
           DOMAIN w = DOMAIN v /\ w.page = v.page /\ Due(w)
<1>. DEFINE graph == Front!Built(v.nodes, v.pots)
            w == [v EXCEPT !.graph = graph]
<1>. HIDE DEF graph
<1>1. /\ DOMAIN w = DOMAIN v /\ w.page = v.page /\ w.tab = v.tab /\ w.due = v.due
      /\ w.layout = v.layout
  BY DEF FrontFields
<1>2. Front!Rebuilt(v) \in {v, w, Front!Relaid(w)}
      /\ (Front!Rebuilt(v) = v \/ v.tab = "topology")
  BY DEF Front!Rebuilt, graph
<1>. HIDE DEF w
<1>3. Due(w)
  BY <1>1 DEF Due
<1>4. v.tab = "topology" =>
        DOMAIN Front!Relaid(w) = DOMAIN v /\ Front!Relaid(w).page = v.page /\ Due(Front!Relaid(w))
  BY <1>1, <1>3, FrontRelaid
<1>. QED  BY <1>1, <1>2, <1>3, <1>4

\* Every step of the page.
LEMMA FrontStep ==
  ASSUME FrontInv, Front!Step
  PROVE  FrontInv'
<1>. USE DEF Front!Change, Front!Here, Front!Canvas
<1>0. view.page = "dashboard" /\ FrontFields \subseteq DOMAIN view /\ Due(view)
  BY DEF FrontInv
<1>a. ASSUME NEW v, DOMAIN v = DOMAIN view, v.page = view.page, Due(v), view' = Front!Rebuilt(v)
      PROVE  FrontInv'
  BY <1>0, <1>a, FrontRebuilt DEF FrontInv
<1>b. ASSUME DOMAIN view' = DOMAIN view, view'.page = view.page, view'.tab = view.tab,
             view'.layout = view.layout, view'.due \subseteq view.due
      PROVE  FrontInv'
  BY <1>0, <1>b DEF FrontInv, Due
<1>1. CASE Front!NodesArrive
  <2>1. PICK nodes : view' = Front!Rebuilt([view EXCEPT !.nodes = nodes])
    BY <1>1 DEF Front!NodesArrive
  <2>2. Due([view EXCEPT !.nodes = nodes])
    BY <1>0 DEF Due, FrontFields
  <2>. QED  BY <1>0, <1>a, <2>1, <2>2 DEF FrontFields
<1>2. CASE Front!DeploymentsArrive
  <2>1. PICK pots : view' = Front!Rebuilt([view EXCEPT !.pots = pots])
    BY <1>2 DEF Front!DeploymentsArrive
  <2>2. Due([view EXCEPT !.pots = pots])
    BY <1>0 DEF Due, FrontFields
  <2>. QED  BY <1>0, <1>a, <2>1, <2>2 DEF FrontFields
<1>3. ASSUME NEW tab, Front!SetTab(tab) PROVE FrontInv'
  <2>. DEFINE v == [Front!Fresh EXCEPT !.nodes = view.nodes, !.pots = view.pots, !.tab = tab]
  <2>1. view' = Front!Rebuilt(v)
    BY <1>3 DEF Front!SetTab
  <2>2. FrontFields \subseteq DOMAIN v /\ v.page = "dashboard" /\ v.due = {}
    BY DEF Front!Fresh, FrontFields
  <2>. HIDE DEF v
  <2>3. Due(v)
    BY <2>2 DEF Due
  <2>. QED  BY <2>1, <2>2, <2>3, FrontRebuilt DEF FrontInv
<1>4. CASE Front!Tick
  BY <1>0, <1>4, <1>b DEF Front!Tick, FrontFields
<1>5. CASE Front!Resize
  <2>. DEFINE v == [view EXCEPT !.graph = Front!Built(view.nodes, view.pots)]
  <2>1. view' = Front!Relaid(v) /\ view.tab = "topology"
    BY <1>5 DEF Front!Resize
  <2>2. /\ DOMAIN v = DOMAIN view /\ v.page = view.page /\ v.tab = view.tab /\ v.due = view.due
        /\ v.layout = view.layout
    BY <1>0 DEF FrontFields
  <2>. HIDE DEF v
  <2>3. Due(v)
    BY <1>0, <2>2 DEF Due
  <2>. QED  BY <1>0, <2>1, <2>2, <2>3, FrontRelaid DEF FrontInv
<1>6. CASE Front!Background \/ Front!LeaveThing \/ Front!SetSearch
  BY <1>0, <1>6, <1>b DEF Front!Background, Front!LeaveThing, Front!SetSearch, FrontFields
<1>7. ASSUME NEW t, Front!Select(t) \/ Front!Enter(t) \/ Front!SetFilter(t) PROVE FrontInv'
  BY <1>0, <1>7, <1>b DEF Front!Select, Front!Enter, Front!SetFilter, FrontFields
<1>. QED  BY <1>1, <1>2, <1>3, <1>4, <1>5, <1>6, <1>7 DEF Front!Step

-----------------------------------------------------------------------------
(* The alerts.                                                             *)

\* A list shows what an answer has confirmed.
Confirmed(t, list) ==
  list[t.of] \in IF t.kind = "delete" THEN {"none"} ELSE {"none", "acknowledged"}

AlarmJob(j) == {"kind", "of", "at"} \subseteq DOMAIN j /\ j.of \in Alerts

\* What is confirmed is so on the server, and in every list read since the page
\* was told.
AlarmInv ==
  /\ view.page = "alerts"
  /\ {"page", "srv", "list", "fetch", "bell", "jobs", "told"} \subseteq DOMAIN view
  /\ DOMAIN view.srv = Alerts /\ {"at", "list"} \subseteq DOMAIN view.fetch
  /\ \A j \in view.jobs : AlarmJob(j) /\ (j.at = "served" => Confirmed(j, view.srv))
  /\ \A t \in view.told : t.of \in Alerts /\ Confirmed(t, view.srv)
  /\ view.fetch.at = "read" => \A t \in view.told : Confirmed(t, view.fetch.list)

\* The list that arrives shows what is confirmed.
AlarmKeeps == view'.list # view.list => \A t \in view.told : Confirmed(t, view'.list)

LEMMA AlarmMounts ==
  ASSUME view' \in Alarm!Mounted
  PROVE  AlarmInv'
<1>1. PICK s \in [Alerts -> Alarm!State] :
        view' = [page |-> "alerts", srv |-> s, list |-> [a \in Alerts |-> "none"],
                 fetch |-> Alarm!Asked, bell |-> 0, jobs |-> {}, told |-> {}]
  BY DEF Alarm!Mounted
<1>2. {"at", "list"} \subseteq DOMAIN Alarm!Asked
  BY DEF Alarm!Asked
<1>. QED  BY <1>1, <1>2 DEF AlarmInv

\* Every step of the page.
LEMMA AlarmStep ==
  ASSUME AlarmInv, Alarm!Step
  PROVE  AlarmInv' /\ AlarmKeeps
<1>. USE DEF Alarm!Change, Alarm!Here
<1>0. /\ view.page = "alerts"
      /\ {"page", "srv", "list", "fetch", "bell", "jobs", "told"} \subseteq DOMAIN view
      /\ DOMAIN view.srv = Alerts /\ {"at", "list"} \subseteq DOMAIN view.fetch
  BY DEF AlarmInv
<1>a. {"at", "list"} \subseteq DOMAIN Alarm!Asked /\ Alarm!Asked.at = "asked"
  BY DEF Alarm!Asked
<1>1. CASE Alarm!PollStarts \/ Alarm!BellPolls
  <2>1. /\ DOMAIN view' = DOMAIN view /\ view'.page = view.page /\ view'.srv = view.srv
        /\ view'.list = view.list /\ view'.jobs = view.jobs /\ view'.told = view.told
        /\ view'.fetch \in {view.fetch, Alarm!Asked}
    BY <1>0, <1>1 DEF Alarm!PollStarts, Alarm!BellPolls
  <2>. QED  BY <1>0, <1>a, <2>1 DEF AlarmInv, AlarmJob, AlarmKeeps, Confirmed
<1>2. CASE Alarm!PollIsRead
  <2>1. /\ DOMAIN view' = DOMAIN view /\ view'.page = view.page /\ view'.srv = view.srv
        /\ view'.list = view.list /\ view'.jobs = view.jobs /\ view'.told = view.told
        /\ view'.fetch = [at |-> "read", list |-> view.srv]
    BY <1>0, <1>2 DEF Alarm!PollIsRead
  <2>2. {"at", "list"} \subseteq DOMAIN view'.fetch /\ view'.fetch.list = view.srv
    BY <2>1
  <2>. QED  BY <1>0, <2>1, <2>2 DEF AlarmInv, AlarmJob, AlarmKeeps, Confirmed
<1>3. CASE Alarm!PollArrives
  <2>1. /\ DOMAIN view' = DOMAIN view /\ view'.page = view.page /\ view'.srv = view.srv
        /\ view'.list = view.fetch.list /\ view'.jobs = view.jobs /\ view'.told = view.told
        /\ view'.fetch = [Alarm!Asked EXCEPT !.at = "none"] /\ view.fetch.at = "read"
    BY <1>0, <1>3 DEF Alarm!PollArrives
  <2>2. {"at", "list"} \subseteq DOMAIN view'.fetch /\ view'.fetch.at = "none"
    BY <1>a, <2>1
  <2>. QED  BY <1>0, <2>1, <2>2 DEF AlarmInv, AlarmJob, AlarmKeeps, Confirmed
<1>4. ASSUME NEW a \in Alerts, Alarm!Acknowledge(a) \/ Alarm!Delete(a)
      PROVE  AlarmInv' /\ AlarmKeeps
  <2>1. PICK j : /\ AlarmJob(j) /\ j.at = "sent"
                 /\ view' = [view EXCEPT !.jobs = @ \union {j}]
    BY <1>4 DEF Alarm!Acknowledge, Alarm!Delete, AlarmJob
  <2>2. /\ DOMAIN view' = DOMAIN view /\ view'.page = view.page /\ view'.srv = view.srv
        /\ view'.list = view.list /\ view'.jobs = view.jobs \union {j} /\ view'.told = view.told
        /\ view'.fetch = view.fetch
    BY <1>0, <2>1
  <2>. QED  BY <1>0, <2>1, <2>2 DEF AlarmInv, AlarmKeeps, Confirmed
<1>5. ASSUME NEW a \in Alerts, Alarm!Raised(a) PROVE AlarmInv' /\ AlarmKeeps
  <2>1. /\ DOMAIN view' = DOMAIN view /\ view'.page = view.page
        /\ view'.srv = [view.srv EXCEPT ![a] = "open"]
        /\ view'.list = view.list /\ view'.jobs = view.jobs /\ view'.told = view.told
        /\ view'.fetch = view.fetch
    BY <1>0, <1>5 DEF Alarm!Raised
  <2>2. \A t \in view.told \union view.jobs : t.of # a
    BY <1>5 DEF Alarm!Raised
  <2>3. DOMAIN view'.srv = Alerts
    BY <1>0, <2>1
  <2>4. \A t \in view.told \union view.jobs : Confirmed(t, view.srv) => Confirmed(t, view'.srv)
    BY <1>0, <2>1, <2>2 DEF Confirmed, AlarmInv, AlarmJob
  <2>. QED  BY <1>0, <2>1, <2>3, <2>4 DEF AlarmInv, AlarmKeeps
<1>6. ASSUME NEW j \in view.jobs, Alarm!Serve(j) PROVE AlarmInv' /\ AlarmKeeps
  <2>1. PICK i, x : /\ i = [j EXCEPT !.at = "served"]
                    /\ x = IF j.kind = "delete" \/ view.srv[j.of] = "none" THEN "none"
                           ELSE "acknowledged"
                    /\ view' = [view EXCEPT !.jobs = (@ \ {j}) \union {i}, !.srv[j.of] = x]
    BY <1>0, <1>6 DEF Alarm!Serve
  <2>2. /\ DOMAIN view' = DOMAIN view /\ view'.page = view.page
        /\ view'.srv = [view.srv EXCEPT ![j.of] = x]
        /\ view'.list = view.list /\ view'.jobs = (view.jobs \ {j}) \union {i}
        /\ view'.told = view.told /\ view'.fetch = view.fetch
    BY <1>0, <2>1
  <2>3. AlarmJob(j) /\ AlarmJob(i) /\ i.kind = j.kind /\ i.of = j.of
    BY <2>1 DEF AlarmInv, AlarmJob
  <2>4. DOMAIN view'.srv = Alerts /\ Confirmed(i, view'.srv)
    BY <1>0, <2>1, <2>2, <2>3 DEF Confirmed, AlarmJob
  <2>5. \A t : t.of \in Alerts /\ Confirmed(t, view.srv) => Confirmed(t, view'.srv)
    BY <1>0, <2>1, <2>2, <2>3 DEF Confirmed, AlarmJob
  <2>6. \A k \in view'.jobs : AlarmJob(k) /\ (k.at = "served" => Confirmed(k, view'.srv))
    BY <2>2, <2>3, <2>4, <2>5 DEF AlarmInv, AlarmJob
  <2>. QED  BY <1>0, <2>2, <2>4, <2>5, <2>6 DEF AlarmInv, AlarmKeeps
<1>7. ASSUME NEW j \in view.jobs, Alarm!Refused(j) PROVE AlarmInv' /\ AlarmKeeps
  <2>1. /\ DOMAIN view' = DOMAIN view /\ view'.page = view.page /\ view'.srv = view.srv
        /\ view'.list = view.list /\ view'.jobs = view.jobs \ {j} /\ view'.told = view.told
        /\ view'.fetch = view.fetch
    BY <1>0, <1>7 DEF Alarm!Refused
  <2>. QED  BY <1>0, <2>1 DEF AlarmInv, AlarmKeeps
<1>8. ASSUME NEW j \in view.jobs, Alarm!Settle(j) PROVE AlarmInv' /\ AlarmKeeps
  <2>1. PICK t : /\ t = [kind |-> j.kind, of |-> j.of]
                 /\ view' = [view EXCEPT !.jobs = @ \ {j}, !.told = @ \union {t},
                                         !.fetch = Alarm!Asked]
                 /\ j.at = "served"
    BY <1>8 DEF Alarm!Settle
  <2>2. /\ DOMAIN view' = DOMAIN view /\ view'.page = view.page /\ view'.srv = view.srv
        /\ view'.list = view.list /\ view'.jobs = view.jobs \ {j}
        /\ view'.told = view.told \union {t} /\ view'.fetch = Alarm!Asked
    BY <1>0, <2>1
  <2>3. t.of \in Alerts /\ Confirmed(t, view.srv)
    BY <2>1 DEF AlarmInv, AlarmJob, Confirmed
  <2>. QED  BY <1>0, <1>a, <2>2, <2>3 DEF AlarmInv, AlarmKeeps
<1>. QED  BY <1>1, <1>2, <1>3, <1>4, <1>5, <1>6, <1>7, <1>8 DEF Alarm!Step

-----------------------------------------------------------------------------
(* The newest of a set: how many there are.                                *)

Newer(set, e) == {f \in set : f > e}

LEMMA NewestIsNewest ==
  ASSUME NEW set, NEW n
  PROVE  Map!Newest(set, n) = {e \in set : Cardinality(Newer(set, e)) < n}
<1>1. \A S : Map!Cardinality(S) = Cardinality(S)
  BY DEF Map!Cardinality, Cardinality
<1>. QED  BY <1>1 DEF Map!Newest, Newer

\* The older of two has more that are newer.
LEMMA OlderHasMore ==
  ASSUME NEW set \in SUBSET Int, IsFiniteSet(set), NEW x \in set, NEW y \in set, x < y
  PROVE  /\ Cardinality(Newer(set, x)) \in Nat /\ Cardinality(Newer(set, y)) \in Nat
         /\ Cardinality(Newer(set, y)) < Cardinality(Newer(set, x))
<1>. DEFINE A == Newer(set, x)
            B == Newer(set, y)
<1>1. A \subseteq set /\ B \subseteq A \ {y} /\ y \in A
  <2>1. \A f \in set : f \in Int
    OBVIOUS
  <2>2. x \in Int /\ y \in Int /\ y > x
    OBVIOUS
  <2>3. ASSUME NEW f \in B PROVE f \in A \ {y}
    <3>1. f \in set /\ f > y /\ f \in Int
      BY <2>1 DEF Newer
    <3>2. f > x /\ f # y
      BY <2>2, <3>1
    <3>. QED  BY <3>1, <3>2 DEF Newer
  <2>. QED  BY <2>2, <2>3 DEF Newer
<1>. HIDE DEF A, B
<1>2. IsFiniteSet(A) /\ Cardinality(A) \in Nat
  BY <1>1, FS_Subset, FS_CardinalityType
<1>3. IsFiniteSet(A \ {y}) /\ Cardinality(A \ {y}) = Cardinality(A) - 1
  BY <1>1, <1>2, FS_RemoveElement
<1>4. IsFiniteSet(B) /\ Cardinality(B) <= Cardinality(A \ {y})
  BY <1>1, <1>3, FS_Subset
<1>5. Cardinality(B) \in Nat
  BY <1>4, FS_CardinalityType
<1>. QED  BY <1>2, <1>3, <1>4, <1>5 DEF A, B

\* How many are newer tells the members of a set apart, and counts them.
LEMMA RankCounts ==
  ASSUME NEW set \in SUBSET Int, IsFiniteSet(set)
  PROVE  [e \in set |-> Cardinality(Newer(set, e))] \in Bijection(set, 0 .. Cardinality(set) - 1)
<1>. DEFINE c == Cardinality(set)
            rank == [e \in set |-> Cardinality(Newer(set, e))]
<1>1. c \in Nat
  BY FS_CardinalityType
<1>2. ASSUME NEW e \in set PROVE Cardinality(Newer(set, e)) \in 0 .. c - 1
  <2>1. IsFiniteSet(set \ {e}) /\ Cardinality(set \ {e}) = c - 1
    BY FS_RemoveElement
  <2>2. Newer(set, e) \subseteq set \ {e}
    BY DEF Newer
  <2>3. IsFiniteSet(Newer(set, e)) /\ Cardinality(Newer(set, e)) <= Cardinality(set \ {e})
    BY <2>1, <2>2, FS_Subset
  <2>4. Cardinality(Newer(set, e)) \in Nat
    BY <2>3, FS_CardinalityType
  <2>. QED  BY <1>1, <2>1, <2>3, <2>4
<1>3. ASSUME NEW x \in set, NEW y \in set, x # y
      PROVE  Cardinality(Newer(set, x)) # Cardinality(Newer(set, y))
  BY <1>3, OlderHasMore
<1>4. rank \in [set -> 0 .. c - 1]
  BY <1>2
<1>5. rank \in Injection(set, 0 .. c - 1)
  BY <1>3, <1>4 DEF Injection, IsInjective
<1>6. IsFiniteSet(0 .. c - 1) /\ Cardinality(0 .. c - 1) = c
  <2>1. Cardinality(0 .. c - 1) = IF 0 > c - 1 THEN 0 ELSE c - 1 - 0 + 1
    BY <1>1, FS_Interval
  <2>. QED  BY <1>1, <2>1, FS_Interval
<1>. HIDE DEF rank
<1>7. rank \in Surjection(set, 0 .. c - 1)
  BY <1>5, <1>6, FS_Injection
<1>. QED  BY <1>5, <1>7 DEF Bijection, rank

\* Of a set that has as many, the newest n are n.
LEMMA NewestAreSoMany ==
  ASSUME NEW set \in SUBSET Int, IsFiniteSet(set), NEW n \in Nat, n <= Cardinality(set)
  PROVE  Cardinality(Map!Newest(set, n)) = n
<1>. DEFINE c == Cardinality(set)
            rank == [e \in set |-> Cardinality(Newer(set, e))]
            newest == Map!Newest(set, n)
            few == [e \in newest |-> rank[e]]
<1>1. c \in Nat /\ rank \in Bijection(set, 0 .. c - 1)
  BY RankCounts, FS_CardinalityType
<1>2. newest = {e \in set : rank[e] < n}
  BY NewestIsNewest
<1>. HIDE DEF rank, newest
<1>3. /\ rank \in [set -> 0 .. c - 1]
      /\ \A x, y \in set : rank[x] = rank[y] => x = y
      /\ \A k \in 0 .. c - 1 : \E x \in set : rank[x] = k
  BY <1>1 DEF Bijection, Injection, IsInjective, Surjection
<1>a. \A x \in newest : few[x] = rank[x] /\ x \in set /\ rank[x] \in 0 .. n - 1
  <2>1. ASSUME NEW x \in newest PROVE x \in set /\ rank[x] \in 0 .. n - 1
    <3>1. x \in set /\ rank[x] < n /\ rank[x] \in 0 .. c - 1
      BY <1>2, <1>3
    <3>. QED  BY <1>1, <3>1
  <2>. QED  BY <2>1
<1>4. few \in [newest -> 0 .. n - 1]
  BY <1>a
<1>5. few \in Injection(newest, 0 .. n - 1)
  BY <1>a, <1>3, <1>4 DEF Injection, IsInjective
<1>6. ASSUME NEW k \in 0 .. n - 1 PROVE \E x \in newest : few[x] = k
  <2>1. k \in 0 .. c - 1
    BY <1>1
  <2>2. PICK x \in set : rank[x] = k
    BY <1>3, <2>1
  <2>3. x \in newest
    BY <1>2, <2>2
  <2>. QED  BY <1>a, <2>2, <2>3
<1>7. few \in Bijection(newest, 0 .. n - 1)
  BY <1>4, <1>5, <1>6 DEF Bijection, Surjection
<1>8. IsFiniteSet(newest)
  BY <1>2, FS_Subset
<1>9. Cardinality(0 .. n - 1) = Cardinality(newest)
  <2>1. ExistsBijection(newest, 0 .. n - 1)
    BY <1>7 DEF ExistsBijection
  <2>. QED  BY <1>8, <2>1, FS_Bijection
<1>10. Cardinality(0 .. n - 1) = n
  <2>1. Cardinality(0 .. n - 1) = IF 0 > n - 1 THEN 0 ELSE n - 1 - 0 + 1
    BY FS_Interval
  <2>. QED  BY <2>1
<1>. QED  BY <1>9, <1>10 DEF newest

\* What is in a set, or has n newer members in it, is one of the newest n, or
\* the newest n are newer.
LEMMA NewestOrNewer ==
  ASSUME NEW set \in SUBSET Int, IsFiniteSet(set), NEW n \in Nat, NEW e \in Int,
         e \in set \/ Cardinality(Newer(set, e)) >= n
  PROVE  e \in Map!Newest(set, n) \/ Cardinality(Newer(Map!Newest(set, n), e)) = n
<1>. DEFINE newest == Map!Newest(set, n)
<1>1. newest = {x \in set : Cardinality(Newer(set, x)) < n}
  BY NewestIsNewest
<1>2. SUFFICES ASSUME e \notin newest PROVE Cardinality(Newer(newest, e)) = n
  OBVIOUS
<1>. HIDE DEF newest
<1>3. \A T \in SUBSET set : IsFiniteSet(T) /\ Cardinality(T) \in Nat
  BY FS_Subset, FS_CardinalityType
<1>4. Newer(set, e) \in SUBSET set
  BY DEF Newer
<1>5. Cardinality(Newer(set, e)) >= n
  BY <1>1, <1>2, <1>3, <1>4
<1>6. ASSUME NEW x \in newest PROVE x > e
  <2>1. SUFFICES ASSUME x <= e PROVE FALSE
    BY <1>1
  <2>2. Newer(set, e) \subseteq Newer(set, x) /\ Newer(set, x) \in SUBSET set
    <3>1. x \in Int
      BY <1>1
    <3>2. ASSUME NEW f \in set, f > e PROVE f > x
      <4>1. f \in Int
        OBVIOUS
      <4>. QED  BY <2>1, <3>1, <3>2, <4>1
    <3>. QED  BY <3>2 DEF Newer
  <2>3. Cardinality(Newer(set, e)) <= Cardinality(Newer(set, x))
    BY <1>3, <2>2, FS_Subset
  <2>. QED  BY <1>1, <1>3, <1>4, <1>5, <2>2, <2>3
<1>7. Newer(newest, e) = newest
  BY <1>6 DEF Newer
<1>8. n <= Cardinality(set)
  <2>1. Cardinality(Newer(set, e)) <= Cardinality(set)
    BY <1>4, FS_Subset
  <2>. QED  BY <1>3, <1>4, <1>5, <2>1
<1>. QED  BY <1>7, <1>8, NewestAreSoMany DEF newest

-----------------------------------------------------------------------------
(* The attack map.                                                         *)

\* The events of a list, and those that took a place in it and were dropped.
Filled(list) == list \union (view.srv \cap Unplaced)

\* What is pushed, drawn or not, is in the order of its times; what was listed
\* is in the list that comes next, or that was filled by newer ones.
MapPushed ==
  /\ view.live \in Seq(Nat) /\ Len(view.live) <= LiveCap
  /\ \A i \in 1 .. Len(view.live) : view.live[i] \in view.srv
  /\ \A i, j \in 1 .. Len(view.live) : i < j => view.live[i] > view.live[j]
  /\ view.frames \subseteq view.srv /\ view.last \in view.srv \union {0}
  /\ \A f \in view.frames :
       f > view.last /\ \A i \in 1 .. Len(view.live) : f > view.live[i]
  /\ view.last # 0 => \A i \in 1 .. Len(view.live) : view.last > view.live[i]

MapListed ==
  /\ view.seeded \subseteq view.srv \ Unplaced
  /\ view.fetch.at = "read" =>
       /\ view.fetch.list \subseteq view.srv \ Unplaced
       /\ \A e \in view.seeded :
            \/ e \in view.fetch.list
            \/ Cardinality(Newer(Filled(view.fetch.list), e)) >= SeedCap

MapInv ==
  /\ view.page = "attack-map"
  /\ {"page", "srv", "seeded", "fetch", "live", "last", "frames", "inOrder"} \subseteq DOMAIN view
  /\ {"at", "list"} \subseteq DOMAIN view.fetch
  /\ view.inOrder =>
       /\ view.srv \subseteq Nat \ {0} /\ IsFiniteSet(view.srv)
       /\ MapPushed /\ MapListed

\* Everything the page may show.
Known == Map!ToSet(view.live) \union view.seeded

\* Nothing leaves the feed for anything but newer ones.
MapKeeps ==
  view.inOrder => \A e \in Map!Feed :
    \/ e \in Map!Feed'
    \/ Map!Cardinality({f \in Map!Feed' : f > e}) = FeedCap
    \/ Map!PushedOut(e, Map!Feed', view'.srv)

\* What becomes of an event that is known.
MapRemembers ==
  \A e \in Known :
    \/ e \in Known'
    \/ Cardinality(Newer(Known', e)) >= FeedCap
    \/ Cardinality(Newer(Filled(Known)', e)) >= SeedCap

\* More events, more newer ones.
LEMMA MoreAreNewer ==
  ASSUME NEW big, IsFiniteSet(big), NEW small \in SUBSET big, NEW e
  PROVE  /\ Cardinality(Newer(small, e)) \in Nat /\ Cardinality(Newer(big, e)) \in Nat
         /\ Cardinality(Newer(small, e)) <= Cardinality(Newer(big, e))
<1>1. Newer(small, e) \subseteq Newer(big, e) /\ Newer(big, e) \subseteq big
  BY DEF Newer
<1>2. IsFiniteSet(Newer(big, e))
  BY <1>1, FS_Subset
<1>. QED  BY <1>1, <1>2, FS_Subset, FS_CardinalityType

LEMMA MapMounts ==
  ASSUME view' \in Map!Mounted
  PROVE  MapInv'
<1>1. PICK s \in {{}, {1} \cap Hits}, o \in BOOLEAN :
        view' = [page |-> "attack-map", srv |-> s, seeded |-> {}, fetch |-> Map!Asked,
                 live |-> <<>>, last |-> 0, frames |-> {}, token |-> 1, effectFor |-> 0,
                 sockets |-> [k \in Sockets |-> "none"], connected |-> FALSE, inOrder |-> o]
  BY DEF Map!Mounted
<1>2. {"at", "list"} \subseteq DOMAIN Map!Asked /\ Map!Asked.at = "asked"
  BY DEF Map!Asked
<1>3. IsFiniteSet(s) /\ s \subseteq Nat \ {0}
  <2>1. IsFiniteSet({}) /\ IsFiniteSet({1} \cap Hits)
    BY FS_EmptySet, FS_Singleton, FS_Intersection
  <2>. QED  BY <2>1
<1>4. MapPushed'
  BY <1>1, ConsoleAssumption DEF MapPushed
<1>5. MapListed'
  BY <1>1, <1>2 DEF MapListed
<1>. QED  BY <1>1, <1>2, <1>3, <1>4, <1>5 DEF MapInv

\* What there is in the list of the pushed ones.
LEMMA MapLive ==
  ASSUME NEW s \in Seq(Nat)
  PROVE  Map!ToSet(s) = {s[i] : i \in 1 .. Len(s)}
BY DEF Map!ToSet

\* What is known is on the server.
LEMMA MapKnown ==
  ASSUME MapInv, view.inOrder
  PROVE  Known \in SUBSET Int /\ IsFiniteSet(Known)
<1>1. Known \subseteq view.srv
  BY MapLive DEF MapInv, MapPushed, MapListed, Known
<1>. QED  BY <1>1, FS_Subset DEF MapInv

\* The feed keeps to its promise if what is known does.
LEMMA MapFeed ==
  ASSUME MapInv, MapInv', view'.inOrder = view.inOrder,
         view.inOrder => MapRemembers
  PROVE  MapKeeps
<1>1. SUFFICES ASSUME view.inOrder, NEW e \in Map!Feed
               PROVE  \/ e \in Map!Feed'
                      \/ Map!Cardinality({f \in Map!Feed' : f > e}) = FeedCap
                      \/ Map!PushedOut(e, Map!Feed', view'.srv)
  BY DEF MapKeeps
<1>2. Map!Feed = Map!Newest(Known, FeedCap) /\ Map!Feed' = Map!Newest(Known', FeedCap)
  BY DEF Map!Feed, Known
<1>3. Known \in SUBSET Int /\ Known' \in SUBSET Int /\ IsFiniteSet(Known')
  <2>1. Known' \in SUBSET Int /\ IsFiniteSet(Known')
    <3>1. Known' \subseteq view'.srv
      BY <1>1, MapLive DEF MapInv, MapPushed, MapListed, Known
    <3>. QED  BY <1>1, <3>1, FS_Subset DEF MapInv
  <2>. QED  BY <1>1, <2>1, MapKnown
<1>4. e \in Known
  BY <1>1, <1>2, NewestIsNewest
<1>5. PICK known, srv : known = Known' /\ srv = view'.srv
  OBVIOUS
<1>. DEFINE feed == Map!Newest(known, FeedCap)
<1>6. known \in SUBSET Int /\ IsFiniteSet(known) /\ e \in Int /\ FeedCap \in Nat
  BY <1>3, <1>4, <1>5, ConsoleAssumption
<1>7. \A S : Map!Cardinality(S) = Cardinality(S)
  BY DEF Map!Cardinality, Cardinality
<1>8. CASE e \in known \/ Cardinality(Newer(known, e)) >= FeedCap
  <2>1. e \in feed \/ Cardinality(Newer(feed, e)) = FeedCap
    BY <1>6, <1>8, NewestOrNewer
  <2>. QED  BY <1>2, <1>5, <1>7, <2>1 DEF Newer
<1>9. CASE Cardinality(Newer(known, e)) < FeedCap
           /\ Cardinality(Newer(known \union (srv \cap Unplaced), e)) >= SeedCap
  <2>1. ASSUME NEW f \in Newer(known, e) PROVE f \in feed
    <3>1. f \in known /\ Newer(known, f) \in SUBSET Newer(known, e)
      <4>1. f \in known /\ f > e /\ f \in Int
        BY <1>6, <2>1 DEF Newer
      <4>2. ASSUME NEW g \in known, g > f PROVE g > e
        <5>1. g \in Int
          BY <1>6
        <5>. QED  BY <1>6, <4>1, <4>2, <5>1
      <4>. QED  BY <4>1, <4>2 DEF Newer
    <3>2. IsFiniteSet(Newer(known, e)) /\ Cardinality(Newer(known, e)) \in Nat
      <4>1. Newer(known, e) \subseteq known
        BY DEF Newer
      <4>. QED  BY <1>6, <4>1, FS_Subset, FS_CardinalityType
    <3>3. /\ Cardinality(Newer(known, f)) <= Cardinality(Newer(known, e))
          /\ Cardinality(Newer(known, f)) \in Nat
      BY <3>1, <3>2, FS_Subset, FS_CardinalityType
    <3>4. Cardinality(Newer(known, f)) < FeedCap
      BY <1>6, <1>9, <3>2, <3>3
    <3>. QED  BY <3>1, <3>4, NewestIsNewest
  <2>2. feed \subseteq known
    BY NewestIsNewest
  <2>3. Newer(known \union (srv \cap Unplaced), e) = Newer(feed \union (srv \cap Unplaced), e)
    BY <2>1, <2>2 DEF Newer
  <2>4. Cardinality(Newer(feed \union (srv \cap Unplaced), e)) >= SeedCap
    BY <1>9, <2>3
  <2>. QED  BY <1>2, <1>5, <1>7, <2>4 DEF Map!PushedOut, Newer
<1>10. \/ e \in known \/ Cardinality(Newer(known, e)) >= FeedCap
       \/ Cardinality(Newer(known \union (srv \cap Unplaced), e)) >= SeedCap
  BY <1>1, <1>4, <1>5 DEF MapRemembers, Filled
<1>11. Cardinality(Newer(known, e)) \in Nat
  BY <1>6, MoreAreNewer
<1>. QED  BY <1>6, <1>8, <1>9, <1>10, <1>11

\* A step that leaves the feed and what comes to it alone, or forgets it.
LEMMA MapLook ==
  ASSUME MapInv, DOMAIN view' = DOMAIN view, view'.page = view.page, view'.srv = view.srv,
         view'.seeded = view.seeded, view'.live = view.live, view'.last = view.last,
         view'.inOrder = view.inOrder, view'.frames \subseteq view.frames,
         {"at", "list"} \subseteq DOMAIN view'.fetch,
         view'.fetch.at = "read" => view'.fetch = view.fetch
  PROVE  MapInv' /\ MapKeeps
<1>1. view.inOrder => MapPushed' /\ MapListed'
  BY DEF MapInv, MapPushed, MapListed, Filled
<1>2. MapInv'
  BY <1>1 DEF MapInv
<1>3. Known' = Known
  BY DEF Known
<1>4. MapRemembers
  BY <1>3 DEF MapRemembers
<1>. QED  BY <1>2, <1>4, MapFeed

\* As many are newer than what is listed no more as there are in the list.
LEMMA MapArrives ==
  ASSUME MapInv, Map!SeedArrives
  PROVE  MapInv' /\ MapKeeps
<1>0. /\ view.page = "attack-map"
      /\ {"page", "srv", "seeded", "fetch", "live", "last", "frames", "inOrder"} \subseteq DOMAIN view
      /\ {"at", "list"} \subseteq DOMAIN view.fetch
  BY DEF MapInv
<1>1. /\ DOMAIN view' = DOMAIN view /\ view'.page = view.page /\ view'.srv = view.srv
      /\ view'.seeded = view.fetch.list /\ view'.live = view.live /\ view'.last = view.last
      /\ view'.inOrder = view.inOrder /\ view'.frames = view.frames
      /\ view'.fetch = [Map!Asked EXCEPT !.at = "none"] /\ view.fetch.at = "read"
  BY <1>0 DEF Map!SeedArrives, Map!Change, Map!Here
<1>2. {"at", "list"} \subseteq DOMAIN view'.fetch /\ view'.fetch.at = "none"
  BY <1>1 DEF Map!Asked
<1>3. view.inOrder => MapPushed' /\ MapListed'
  BY <1>1, <1>2 DEF MapInv, MapPushed, MapListed
<1>4. MapInv'
  BY <1>0, <1>1, <1>2, <1>3 DEF MapInv
<1>5. ASSUME view.inOrder, NEW e \in Known
      PROVE  e \in Known' \/ Cardinality(Newer(Filled(Known)', e)) >= SeedCap
  <2>1. e \in Known' \/ Cardinality(Newer(Filled(view.fetch.list), e)) >= SeedCap
    BY <1>1, <1>5 DEF MapInv, MapListed, Known
  <2>2. PICK filled, list : filled = Filled(Known)' /\ list = Filled(view.fetch.list)
    OBVIOUS
  <2>3. list \in SUBSET filled /\ IsFiniteSet(filled)
    <3>1. filled \subseteq view.srv /\ view.fetch.list \subseteq Known'
      BY <1>1, <1>4, <1>5, <2>2, MapLive DEF MapInv, MapPushed, MapListed, Known, Filled
    <3>2. list \subseteq filled
      BY <1>1, <2>2, <3>1 DEF Filled
    <3>. QED  BY <1>5, <3>1, <3>2, FS_Subset DEF MapInv
  <2>4. /\ Cardinality(Newer(list, e)) <= Cardinality(Newer(filled, e))
        /\ Cardinality(Newer(list, e)) \in Nat /\ Cardinality(Newer(filled, e)) \in Nat
    BY <2>3, MoreAreNewer
  <2>. QED  BY <2>1, <2>2, <2>4, ConsoleAssumption
<1>6. view.inOrder => MapRemembers
  BY <1>5 DEF MapRemembers
<1>. QED  BY <1>1, <1>4, <1>6, MapFeed

\* A list of descending numbers has as many members as it is long.
LEMMA DescendingCounts ==
  ASSUME NEW s \in Seq(Nat), \A i, j \in 1 .. Len(s) : i < j => s[i] > s[j]
  PROVE  IsFiniteSet(Map!ToSet(s)) /\ Cardinality(Map!ToSet(s)) = Len(s)
<1>. DEFINE n == Len(s)
            T == Map!ToSet(s)
            f == [i \in 1 .. n |-> s[i]]
<1>1. n \in Nat /\ T = {s[i] : i \in 1 .. n}
  BY MapLive
<1>. HIDE DEF T
<1>2. \A i, j \in 1 .. n : s[i] = s[j] => i = j
  <2>1. ASSUME NEW i \in 1 .. n, NEW j \in 1 .. n, i < j PROVE s[i] # s[j]
    <3>1. s[i] \in Nat /\ s[j] \in Nat /\ s[i] > s[j]
      BY <2>1
    <3>. QED  BY <3>1
  <2>. QED  BY <2>1
<1>3. f \in [1 .. n -> T] /\ \A t \in T : \E i \in 1 .. n : f[i] = t
  BY <1>1
<1>4. f \in Bijection(1 .. n, T)
  BY <1>2, <1>3 DEF Bijection, Injection, Surjection, IsInjective
<1>5. ExistsBijection(1 .. n, T)
  BY <1>4 DEF ExistsBijection
<1>6. IsFiniteSet(1 .. n)
  BY <1>1, FS_Interval
<1>. QED  BY <1>1, <1>5, <1>6, FS_CountingElements, FS_Bijection DEF T

\* Putting one before the first k.
LEMMA PutBefore ==
  ASSUME NEW s \in Seq(Nat), NEW k \in 0 .. Len(s), NEW x \in Nat,
         NEW t, t = <<x>> \o SubSeq(s, 1, k)
  PROVE  /\ t \in Seq(Nat) /\ Len(t) = k + 1 /\ t[1] = x
         /\ \A i \in 2 .. k + 1 : t[i] = s[i - 1]
<1>1. SubSeq(s, 1, k) \in Seq(Nat) /\ Len(SubSeq(s, 1, k)) = k
      /\ \A i \in 1 .. k : SubSeq(s, 1, k)[i] = s[i]
  OBVIOUS
<1>. QED  BY <1>1

\* An event that is drawn is newer than what was; the oldest leaves a full list.
LEMMA MapDrawn ==
  ASSUME MapInv, Map!Drawn
  PROVE  MapInv' /\ MapKeeps
<1>0. /\ view.page = "attack-map"
      /\ {"page", "srv", "seeded", "fetch", "live", "last", "frames", "inOrder"} \subseteq DOMAIN view
      /\ {"at", "list"} \subseteq DOMAIN view.fetch
  BY DEF MapInv
<1>1. /\ DOMAIN view' = DOMAIN view /\ view'.page = view.page /\ view'.srv = view.srv
      /\ view'.seeded = view.seeded /\ view'.fetch = view.fetch /\ view'.last = 0
      /\ view'.inOrder = view.inOrder /\ view'.frames = view.frames /\ view.last # 0
      /\ view'.live = IF view.last \in Unplaced \/ Map!Contains(view.live, view.last) THEN view.live
                      ELSE IF Len(view.live) < LiveCap THEN <<view.last>> \o view.live
                      ELSE <<view.last>> \o SubSeq(view.live, 1, LiveCap - 1)
  BY <1>0 DEF Map!Drawn, Map!Change, Map!Here
<1>2. SUFFICES ASSUME view.inOrder
               PROVE  MapPushed' /\ MapRemembers
  <2>1. view.inOrder => MapListed'
    BY <1>1 DEF MapInv, MapListed, Filled
  <2>2. MapInv'
    BY <1>0, <1>1, <1>2, <2>1 DEF MapInv
  <2>. QED  BY <1>1, <1>2, <2>2, MapFeed
<1>. DEFINE x == view.last
            s == view.live
<1>3. /\ view.srv \subseteq Nat \ {0} /\ IsFiniteSet(view.srv) /\ MapPushed
      /\ view.seeded \subseteq view.srv
  BY <1>2 DEF MapInv, MapListed
<1>4. /\ s \in Seq(Nat) /\ Len(s) <= LiveCap /\ x \in view.srv /\ x \in Nat /\ Len(s) \in Nat
      /\ \A i \in 1 .. Len(s) : s[i] \in view.srv /\ x > s[i]
      /\ \A i, j \in 1 .. Len(s) : i < j => s[i] > s[j]
      /\ \A f \in view.frames : f \in view.srv /\ f > x /\ \A i \in 1 .. Len(s) : f > s[i]
  BY <1>1, <1>3 DEF MapPushed
<1>5. \A f \in view.frames : f > 0
  BY <1>3, <1>4
<1>6. CASE view.last \in Unplaced \/ Map!Contains(view.live, view.last)
  <2>1. view'.live = view.live
    BY <1>1, <1>6
  <2>2. MapPushed'
    BY <1>1, <1>3, <1>4, <1>5, <2>1 DEF MapPushed
  <2>3. Known' = Known
    BY <1>1, <2>1 DEF Known
  <2>. QED  BY <2>2, <2>3 DEF MapRemembers
<1>7. CASE ~(view.last \in Unplaced \/ Map!Contains(view.live, view.last))
  <2>1. PICK k, t :
          /\ k \in 0 .. Len(s) /\ t = <<x>> \o SubSeq(s, 1, k) /\ t = view'.live
          /\ k = Len(s) \/ (k = LiveCap - 1 /\ Len(s) = LiveCap)
          /\ k + 1 <= LiveCap
    <3>1. CASE Len(s) < LiveCap
      <4>1. SubSeq(s, 1, Len(s)) = s
        BY <1>4
      <4>2. Len(s) \in 0 .. Len(s) /\ Len(s) + 1 <= LiveCap
        BY <1>4, <3>1, ConsoleAssumption
      <4>3. view'.live = <<x>> \o SubSeq(s, 1, Len(s))
        BY <1>1, <1>7, <3>1, <4>1
      <4>. QED  BY <4>2, <4>3
    <3>2. CASE ~(Len(s) < LiveCap)
      <4>1. Len(s) = LiveCap /\ LiveCap - 1 \in 0 .. Len(s)
        BY <1>4, <3>2, ConsoleAssumption
      <4>2. (LiveCap - 1) + 1 <= LiveCap
        BY ConsoleAssumption
      <4>3. view'.live = <<x>> \o SubSeq(s, 1, LiveCap - 1)
        BY <1>1, <1>7, <3>2
      <4>. QED  BY <4>1, <4>2, <4>3
    <3>. QED  BY <3>1, <3>2
  <2>. HIDE DEF s, x
  <2>2. /\ t \in Seq(Nat) /\ Len(t) = k + 1 /\ t[1] = x
        /\ \A i \in 2 .. k + 1 : t[i] = s[i - 1]
    BY <1>4, <2>1, PutBefore
  <2>3. ASSUME NEW i \in 1 .. Len(t)
        PROVE  /\ t[i] \in view.srv /\ \A f \in view.frames : f > t[i]
               /\ i # 1 => (i - 1 \in 1 .. Len(s) /\ t[i] = s[i - 1])
    <3>1. CASE i = 1
      BY <1>4, <2>2, <3>1
    <3>2. CASE i # 1
      <4>1. i \in 2 .. k + 1 /\ i - 1 \in 1 .. Len(s)
        BY <1>4, <2>1, <2>2, <3>2
      <4>2. t[i] = s[i - 1]
        BY <2>2, <4>1
      <4>. QED  BY <1>4, <4>1, <4>2
    <3>. QED  BY <3>1, <3>2
  <2>4. ASSUME NEW i \in 1 .. Len(t), NEW j \in 1 .. Len(t), i < j PROVE t[i] > t[j]
    <3>1. j - 1 \in 1 .. Len(s) /\ t[j] = s[j - 1]
      BY <2>3, <2>4
    <3>2. CASE i = 1
      BY <1>4, <2>2, <3>1, <3>2
    <3>3. CASE i # 1
      <4>1. i - 1 \in 1 .. Len(s) /\ t[i] = s[i - 1] /\ i - 1 < j - 1
        BY <2>3, <2>4, <3>3
      <4>. QED  BY <1>4, <3>1, <4>1
    <3>. QED  BY <3>2, <3>3
  <2>5. MapPushed'
    <3>1. Len(t) <= LiveCap
      BY <2>1, <2>2
    <3>2. view'.live = t
      BY <2>1
    <3>. QED  BY <1>1, <1>3, <1>4, <1>5, <2>2, <2>3, <2>4, <3>1, <3>2 DEF MapPushed
  <2>6. ASSUME NEW e \in Known
        PROVE  e \in Known' \/ Cardinality(Newer(Known', e)) >= FeedCap
    <3>1. PICK known : known = Known' /\ known = Map!ToSet(t) \union view.seeded
      BY <1>1, <2>1 DEF Known
    <3>2. Map!ToSet(t) = {t[i] : i \in 1 .. Len(t)}
      BY <2>2, MapLive
    <3>3. CASE e \in view.seeded
      BY <3>1, <3>3
    <3>4. ASSUME NEW i \in 1 .. Len(s), e = s[i], i <= k PROVE e \in known
      <4>1. i + 1 \in 2 .. k + 1 /\ i + 1 \in 1 .. Len(t) /\ t[i + 1] = s[(i + 1) - 1]
        BY <1>4, <2>1, <2>2, <3>4
      <4>2. (i + 1) - 1 = i
        OBVIOUS
      <4>. QED  BY <3>1, <3>2, <3>4, <4>1, <4>2
    <3>5. ASSUME NEW i \in 1 .. Len(s), e = s[i], ~(i <= k)
          PROVE  Cardinality(Newer(known, e)) >= FeedCap
      <4>1. i = LiveCap /\ k = LiveCap - 1 /\ Len(t) = LiveCap
        BY <1>4, <2>1, <2>2, <3>5, ConsoleAssumption
      <4>2. ASSUME NEW j \in 1 .. Len(t) PROVE t[j] > e
        <5>1. CASE j = 1
          BY <1>4, <2>2, <3>5, <5>1
        <5>2. CASE j # 1
          <6>1. j - 1 \in 1 .. Len(s) /\ t[j] = s[j - 1] /\ j - 1 < i
            BY <2>3, <4>1, <5>2, ConsoleAssumption
          <6>. QED  BY <1>4, <3>5, <6>1
        <5>. QED  BY <5>1, <5>2
      <4>3. Map!ToSet(t) \subseteq Newer(known, e)
        BY <3>1, <3>2, <4>2 DEF Newer
      <4>4. Cardinality(Map!ToSet(t)) = LiveCap
        BY <2>2, <2>4, <4>1, DescendingCounts
      <4>5. IsFiniteSet(Newer(known, e))
        <5>1. known \subseteq view.srv
          BY <1>3, <2>3, <3>1, <3>2
        <5>2. Newer(known, e) \subseteq view.srv
          BY <5>1 DEF Newer
        <5>. QED  BY <1>3, <5>2, FS_Subset
      <4>6. /\ Cardinality(Map!ToSet(t)) <= Cardinality(Newer(known, e))
            /\ Cardinality(Newer(known, e)) \in Nat
        BY <4>3, <4>5, FS_Subset, FS_CardinalityType
      <4>. QED  BY <4>4, <4>6, ConsoleAssumption
    <3>6. CASE e \in Map!ToSet(s)
      <4>1. PICK i \in 1 .. Len(s) : e = s[i]
        BY <1>4, <3>6, MapLive
      <4>. QED  BY <3>1, <3>4, <3>5, <4>1
    <3>. QED  BY <3>3, <3>6 DEF Known, s
  <2>. QED  BY <2>5, <2>6 DEF MapRemembers
<1>. QED  BY <1>6, <1>7

\* Every step of the page.
LEMMA MapStep ==
  ASSUME MapInv, Map!Step
  PROVE  MapInv' /\ MapKeeps
<1>. USE DEF Map!Change, Map!Here
<1>0. /\ view.page = "attack-map"
      /\ {"page", "srv", "seeded", "fetch", "live", "last", "frames", "inOrder"} \subseteq DOMAIN view
      /\ {"at", "list"} \subseteq DOMAIN view.fetch
  BY DEF MapInv
<1>a. {"at", "list"} \subseteq DOMAIN Map!Asked /\ Map!Asked.at = "asked"
  BY DEF Map!Asked
<1>1. CASE Map!SeedStarts \/ Map!SeedFails
  <2>1. /\ DOMAIN view' = DOMAIN view /\ view'.page = view.page /\ view'.srv = view.srv
        /\ view'.seeded = view.seeded /\ view'.live = view.live /\ view'.last = view.last
        /\ view'.inOrder = view.inOrder /\ view'.frames = view.frames
        /\ view'.fetch \in {Map!Asked, [Map!Asked EXCEPT !.at = "none"]}
    BY <1>0, <1>1 DEF Map!SeedStarts, Map!SeedFails
  <2>2. {"at", "list"} \subseteq DOMAIN view'.fetch /\ view'.fetch.at \in {"asked", "none"}
    BY <1>a, <2>1
  <2>. QED  BY <2>1, <2>2, MapLook
<1>2. CASE Map!SeedIsRead
  <2>1. /\ DOMAIN view' = DOMAIN view /\ view'.page = view.page /\ view'.srv = view.srv
        /\ view'.seeded = view.seeded /\ view'.live = view.live /\ view'.last = view.last
        /\ view'.inOrder = view.inOrder /\ view'.frames = view.frames
        /\ view'.fetch = [at |-> "read", list |-> Map!Newest(view.srv, SeedCap) \ Unplaced]
    BY <1>0, <1>2 DEF Map!SeedIsRead
  <2>2. {"at", "list"} \subseteq DOMAIN view'.fetch
        /\ view'.fetch.list = Map!Newest(view.srv, SeedCap) \ Unplaced
    BY <2>1
  <2>3. view.inOrder => MapListed'
    <3>1. SUFFICES ASSUME view.inOrder PROVE MapListed'
      OBVIOUS
    <3>2. Map!Newest(view.srv, SeedCap) \subseteq view.srv
      BY NewestIsNewest
    <3>3. ASSUME NEW e \in view.seeded
          PROVE  \/ e \in Map!Newest(view.srv, SeedCap) \ Unplaced
                 \/ Cardinality(Newer(Filled(Map!Newest(view.srv, SeedCap) \ Unplaced), e)) >= SeedCap
      <4>. DEFINE newest == Map!Newest(view.srv, SeedCap)
                  filled == Filled(newest \ Unplaced)
      <4>1. /\ view.srv \in SUBSET Int /\ IsFiniteSet(view.srv)
            /\ e \in view.srv \ Unplaced /\ SeedCap \in Nat
        BY <3>1, ConsoleAssumption DEF MapInv, MapListed
      <4>2. e \in newest \/ Cardinality(Newer(newest, e)) = SeedCap
        BY <4>1, NewestOrNewer
      <4>3. newest \in SUBSET filled /\ filled \subseteq view.srv
        BY <3>2 DEF Filled
      <4>4. IsFiniteSet(filled)
        BY <4>1, <4>3, FS_Subset
      <4>5. /\ Cardinality(Newer(newest, e)) <= Cardinality(Newer(filled, e))
            /\ Cardinality(Newer(filled, e)) \in Nat
        <5>. HIDE DEF newest, filled
        <5>. QED  BY <4>3, <4>4, MoreAreNewer
      <4>6. e \in newest \ Unplaced \/ Cardinality(Newer(filled, e)) >= SeedCap
        <5>. HIDE DEF newest, filled
        <5>. QED  BY <4>1, <4>2, <4>5
      <4>. QED  BY <4>6
    <3>4. view'.fetch.list \subseteq view.srv \ Unplaced
      BY <2>2, <3>2
    <3>5. \A e \in view.seeded : \/ e \in view'.fetch.list
                                \/ Cardinality(Newer(Filled(view.fetch.list)', e)) >= SeedCap
      BY <2>1, <2>2, <3>3 DEF Filled
    <3>. QED  BY <2>1, <3>1, <3>4, <3>5 DEF MapInv, MapListed
  <2>4. view.inOrder => MapPushed'
    BY <2>1 DEF MapInv, MapPushed
  <2>5. MapInv'
    BY <1>0, <2>1, <2>2, <2>3, <2>4 DEF MapInv
  <2>6. Known' = Known
    BY <2>1 DEF Known
  <2>. QED  BY <2>1, <2>5, <2>6, MapFeed DEF MapRemembers
<1>3. CASE Map!TokenChanges \/ Map!Effect
  <2>1. /\ DOMAIN view' = DOMAIN view /\ view'.page = view.page /\ view'.srv = view.srv
        /\ view'.seeded = view.seeded /\ view'.live = view.live /\ view'.last = view.last
        /\ view'.inOrder = view.inOrder /\ view'.frames \subseteq view.frames
        /\ view'.fetch = view.fetch
    BY <1>0, <1>3 DEF Map!TokenChanges, Map!Effect
  <2>. QED  BY <1>0, <2>1, MapLook
<1>4. ASSUME NEW k \in Sockets, Map!Opened(k) \/ Map!Ended(k) PROVE MapInv' /\ MapKeeps
  <2>1. /\ DOMAIN view' = DOMAIN view /\ view'.page = view.page /\ view'.srv = view.srv
        /\ view'.seeded = view.seeded /\ view'.live = view.live /\ view'.last = view.last
        /\ view'.inOrder = view.inOrder /\ view'.frames \subseteq view.frames
        /\ view'.fetch = view.fetch
    BY <1>0, <1>4 DEF Map!Opened, Map!Ended
  <2>. QED  BY <1>0, <2>1, MapLook
<1>5. ASSUME NEW e \in Hits, Map!Hit(e) PROVE MapInv' /\ MapKeeps
  <2>1. /\ DOMAIN view' = DOMAIN view /\ view'.page = view.page
        /\ view'.srv = view.srv \union {e}
        /\ view'.seeded = view.seeded /\ view'.live = view.live /\ view'.last = view.last
        /\ view'.inOrder = view.inOrder /\ view'.frames \subseteq view.frames \union {e}
        /\ view'.fetch = view.fetch
    BY <1>0, <1>5 DEF Map!Hit
  <2>2. /\ e \in Nat \ {0}
        /\ view.inOrder => \A f \in view.srv : f < e
    BY <1>5, ConsoleAssumption DEF Map!Hit
  <2>3. view.inOrder => MapPushed'
    <3>1. SUFFICES ASSUME view.inOrder PROVE MapPushed'
      OBVIOUS
    <3>2. MapPushed /\ \A f \in view.srv : f < e /\ view.srv \subseteq Nat
      BY <2>2, <3>1 DEF MapInv
    <3>3. /\ view.last < e /\ \A i \in 1 .. Len(view.live) : view.live[i] < e
      BY <2>2, <3>2 DEF MapPushed
    <3>4. e > view.last /\ \A i \in 1 .. Len(view.live) : e > view.live[i]
      BY <3>3
    <3>. QED  BY <2>1, <3>2, <3>4 DEF MapPushed
  <2>4. view.inOrder => MapListed'
    <3>1. SUFFICES ASSUME view.inOrder PROVE MapListed'
      OBVIOUS
    <3>2. MapListed /\ IsFiniteSet(view'.srv)
      BY <2>1, <3>1, FS_AddElement DEF MapInv
    <3>3. ASSUME view.fetch.at = "read", NEW x \in view.seeded
          PROVE  \/ x \in view.fetch.list
                 \/ Cardinality(Newer(Filled(view.fetch.list)', x)) >= SeedCap
      <4>1. PICK old, new : old = Filled(view.fetch.list) /\ new = Filled(view.fetch.list)'
        OBVIOUS
      <4>2. old \in SUBSET new /\ new \subseteq view'.srv
        BY <2>1, <3>2, <3>3, <4>1 DEF MapListed, Filled
      <4>3. IsFiniteSet(new)
        BY <3>2, <4>2, FS_Subset
      <4>4. /\ Cardinality(Newer(old, x)) <= Cardinality(Newer(new, x))
            /\ Cardinality(Newer(old, x)) \in Nat /\ Cardinality(Newer(new, x)) \in Nat
        BY <4>2, <4>3, MoreAreNewer
      <4>5. x \in view.fetch.list \/ Cardinality(Newer(old, x)) >= SeedCap
        BY <3>2, <3>3, <4>1 DEF MapListed
      <4>6. x \in view.fetch.list \/ Cardinality(Newer(new, x)) >= SeedCap
        BY <4>4, <4>5, ConsoleAssumption
      <4>. QED  BY <4>1, <4>6
    <3>. QED  BY <2>1, <3>2, <3>3 DEF MapListed
  <2>5. MapInv'
    BY <1>0, <2>1, <2>2, <2>3, <2>4, FS_AddElement DEF MapInv
  <2>6. Known' = Known
    BY <2>1 DEF Known
  <2>. QED  BY <2>1, <2>5, <2>6, MapFeed DEF MapRemembers
<1>6. ASSUME NEW e \in Hits, Map!Message(e) PROVE MapInv' /\ MapKeeps
  <2>1. /\ DOMAIN view' = DOMAIN view /\ view'.page = view.page /\ view'.srv = view.srv
        /\ view'.seeded = view.seeded /\ view'.live = view.live /\ view'.last = e
        /\ view'.inOrder = view.inOrder /\ view'.frames = view.frames \ {e}
        /\ view'.fetch = view.fetch /\ e \in view.frames
        /\ view.inOrder => \A f \in view.frames : f >= e
    BY <1>0, <1>6 DEF Map!Message
  <2>2. view.inOrder => MapPushed'
    <3>1. SUFFICES ASSUME view.inOrder PROVE MapPushed'
      OBVIOUS
    <3>2. MapPushed /\ view.frames \subseteq Nat /\ e \in view.srv
      BY <2>1, <3>1 DEF MapInv, MapPushed
    <3>3. \A f \in view.frames \ {e} : f > e
      BY <2>1, <3>1, <3>2
    <3>. QED  BY <2>1, <3>2, <3>3 DEF MapPushed
  <2>3. view.inOrder => MapListed'
    BY <2>1 DEF MapInv, MapListed, Filled
  <2>4. MapInv'
    BY <1>0, <2>1, <2>2, <2>3 DEF MapInv
  <2>5. Known' = Known
    BY <2>1 DEF Known
  <2>. QED  BY <2>1, <2>4, <2>5, MapFeed DEF MapRemembers
<1>. QED
  BY <1>1, <1>2, <1>3, <1>4, <1>5, <1>6, MapArrives, MapDrawn DEF Map!Step

-----------------------------------------------------------------------------
(* The pages that only show something keep to themselves.                  *)

Plain ==
  {"none", "events", "audit-log", "frame", "system", "node-tabs", "analytics", "potstore"}

Stays == view'.page = view.page /\ "page" \in DOMAIN view'

LEMMA ExplorerStays ==
  ASSUME "page" \in DOMAIN view, Explorer!Step
  PROVE  Stays
<1>. USE DEF Stays, Explorer!Change, Explorer!Here
<1>1. CASE Explorer!Poll \/ Explorer!RefreshButton
  BY <1>1 DEF Explorer!Poll, Explorer!RefreshButton, Explorer!Refetch, Explorer!Lists
<1>2. CASE Explorer!SetRefreshInterval
  BY <1>2 DEF Explorer!SetRefreshInterval, Explorer!Refetch, Explorer!Lists
<1>3. CASE Explorer!SetType
  BY <1>3 DEF Explorer!SetType, Explorer!Refetch, Explorer!Lists
<1>4. CASE Explorer!SetLocal \/ Explorer!ClearFilters
  BY <1>4 DEF Explorer!SetLocal, Explorer!ClearFilters, Explorer!Refetch, Explorer!Lists
<1>5. CASE Explorer!Prev \/ Explorer!NextPage \/ Explorer!GoTo
  BY <1>5 DEF Explorer!Prev, Explorer!NextPage, Explorer!GoTo, Explorer!Refetch, Explorer!Lists
<1>. QED  BY <1>1, <1>2, <1>3, <1>4, <1>5 DEF Explorer!Step

LEMMA AuditStays ==
  ASSUME "page" \in DOMAIN view, Audit!Step
  PROVE  Stays
<1>. USE DEF Stays, Audit!Change, Audit!Here
<1>1. CASE Audit!Poll \/ Audit!ClearAll
  BY <1>1 DEF Audit!Poll, Audit!ClearAll
<1>2. CASE Audit!Prev \/ Audit!NextPage \/ Audit!GoTo
  BY <1>2 DEF Audit!Prev, Audit!NextPage, Audit!GoTo
<1>3. ASSUME NEW f, NEW on, Audit!SetFilter(f, on) PROVE Stays
  BY <1>3 DEF Audit!SetFilter
<1>. QED  BY <1>1, <1>2, <1>3 DEF Audit!Step

LEMMA AroundStays ==
  ASSUME "page" \in DOMAIN view, Around!Step
  PROVE  Stays
<1>. USE DEF Stays, Around!Change, Around!Here
<1>1. CASE Around!Follow \/ Around!Visit \/ Around!ManageUsers
  BY <1>1 DEF Around!Follow, Around!Visit, Around!ManageUsers, Around!Navigated, Around!Choose, Around!Key
<1>2. CASE Around!ToggleMenu \/ Around!ClickOutside
  BY <1>2 DEF Around!ToggleMenu, Around!ClickOutside, Around!Navigated, Around!Choose, Around!Key
<1>3. CASE Around!ToggleCollapsed \/ Around!ToggleTheme
  BY <1>3 DEF Around!ToggleCollapsed, Around!ToggleTheme, Around!Navigated, Around!Choose, Around!Key
<1>4. CASE Around!ToggleKey \/ Around!Hover
  BY <1>4 DEF Around!ToggleKey, Around!Hover, Around!Navigated, Around!Choose, Around!Key
<1>5. CASE Around!ArrowDown \/ Around!ArrowUp
  BY <1>5 DEF Around!ArrowDown, Around!ArrowUp, Around!Navigated, Around!Choose, Around!Key
<1>6. CASE Around!Enter \/ Around!Click \/ Around!Escape
  BY <1>6 DEF Around!Enter, Around!Click, Around!Escape, Around!Navigated, Around!Choose, Around!Key
<1>7. ASSUME NEW term, Around!Type(term) PROVE Stays
  BY <1>7 DEF Around!Type, Around!Navigated, Around!Choose, Around!Key
<1>. QED  BY <1>1, <1>2, <1>3, <1>4, <1>5, <1>6, <1>7 DEF Around!Step

LEMMA DiagnosticsStays ==
  ASSUME "page" \in DOMAIN view, Diagnostics!Step
  PROVE  Stays
<1>. USE DEF Stays, Diagnostics!Change, Diagnostics!Here
<1>1. CASE Diagnostics!Refetch \/ Diagnostics!Arrives \/ Diagnostics!Fails
  BY <1>1 DEF Diagnostics!Refetch, Diagnostics!Arrives, Diagnostics!Fails
<1>. QED  BY <1>1 DEF Diagnostics!Step

LEMMA TabbedStays ==
  ASSUME "page" \in DOMAIN view, Tabbed!Step
  PROVE  Stays \/ view' = Between
<1>. USE DEF Stays, Tabbed!Change, Tabbed!Here
<1>1. CASE Tabbed!TimerEnds \/ Tabbed!OpenInstall \/ Tabbed!SetPlatform
  BY <1>1 DEF Tabbed!TimerEnds, Tabbed!OpenInstall, Tabbed!SetPlatform, Tabbed!SetTab
<1>2. CASE Tabbed!OnlineChanges
  BY <1>2 DEF Tabbed!OnlineChanges, Tabbed!SetTab
<1>3. CASE Tabbed!AskUninstall \/ Tabbed!CancelUninstall
  BY <1>3 DEF Tabbed!AskUninstall, Tabbed!CancelUninstall, Tabbed!SetTab
<1>4. CASE Tabbed!Uninstall \/ Tabbed!Serve
  BY <1>4 DEF Tabbed!Uninstall, Tabbed!Serve, Tabbed!SetTab
<1>5. ASSUME NEW c, Tabbed!CopyText(c) PROVE Stays \/ view' = Between
  BY <1>5 DEF Tabbed!CopyText, Tabbed!SetTab
<1>6. ASSUME NEW t, Tabbed!SetTab(t) PROVE Stays \/ view' = Between
  BY <1>6 DEF Tabbed!SetTab
<1>7. CASE Tabbed!Navigates
  BY <1>7 DEF Tabbed!Navigates, Between
<1>. QED  BY <1>1, <1>2, <1>3, <1>4, <1>5, <1>6, <1>7 DEF Tabbed!Step

LEMMA AnalyticsStays ==
  ASSUME "page" \in DOMAIN view, Analytics!Step
  PROVE  Stays
<1>. USE DEF Stays, Analytics!Change, Analytics!Here
<1>1. CASE Analytics!Happens \/ Analytics!CountTotal
  BY <1>1 DEF Analytics!Happens, Analytics!CountTotal
<1>2. CASE Analytics!GroupByIP \/ Analytics!GroupTheRest
  BY <1>2 DEF Analytics!GroupByIP, Analytics!GroupTheRest
<1>3. CASE Analytics!Poll \/ Analytics!Arrives \/ Analytics!Fails
  BY <1>3 DEF Analytics!Poll, Analytics!Arrives, Analytics!Fails
<1>4. ASSUME NEW h, Analytics!SetHours(h) PROVE Stays
  BY <1>4 DEF Analytics!SetHours
<1>. QED  BY <1>1, <1>2, <1>3, <1>4 DEF Analytics!Step

LEMMA StoreStays ==
  ASSUME "page" \in DOMAIN view, Store!Step
  PROVE  Stays
<1>. USE DEF Stays, Store!Change, Store!Here
<1>1. CASE Store!Arrives \/ Store!OpenDeploy \/ Store!CloseDeploy
  BY <1>1 DEF Store!Arrives, Store!OpenDeploy, Store!CloseDeploy
<1>2. CASE Store!ChooseNode \/ Store!Deploy
  BY <1>2 DEF Store!ChooseNode, Store!Deploy
<1>3. CASE Store!SetFavOnly \/ Store!ClearAll
  BY <1>3 DEF Store!SetFavOnly, Store!ClearAll
<1>4. CASE Store!ToggleFacet
  BY <1>4 DEF Store!ToggleFacet
<1>5. ASSUME NEW j, Store!Serve(j) \/ Store!Settle(j) PROVE Stays
  BY <1>5 DEF Store!Serve, Store!Settle
<1>6. ASSUME NEW j, Store!Refused(j) PROVE Stays
  BY <1>6 DEF Store!Refused
<1>7. ASSUME NEW id, Store!ToggleFav(id) PROVE Stays
  BY <1>7 DEF Store!ToggleFav
<1>. QED  BY <1>1, <1>2, <1>3, <1>4, <1>5, <1>6, <1>7 DEF Store!Step

LEMMA PlainMounts ==
  ASSUME \/ view' \in Explorer!Mounted \/ view' \in Audit!Mounted \/ view' \in Around!Mounted
         \/ view' \in Diagnostics!Mounted \/ view' \in Tabbed!Mounted \/ view' \in Analytics!Mounted
         \/ view' \in Store!Mounted
  PROVE  "page" \in DOMAIN view' /\ view'.page \in Plain
BY DEF Plain, Explorer!Mounted, Audit!Mounted, Around!Mounted, Diagnostics!Mounted, Tabbed!Mounted, Analytics!Mounted, Store!Mounted

-----------------------------------------------------------------------------
(* The dashboard.                                                          *)

\* The invariant of the page that is open.
ConsoleInv ==
  /\ "page" \in DOMAIN view
  /\ view.page = "nodes" => FleetInv
  /\ view.page = "users" => StaffInv
  /\ view.page = "roles" => RightsInv
  /\ view.page = "node-deploy" => DeployInv
  /\ view.page = "telegram-bots" => BotsInv
  /\ view.page = "node" => DetailInv
  /\ view.page = "node-metrics" => MetricsInv
  /\ view.page = "dashboard" => FrontInv
  /\ view.page = "alerts" => AlarmInv
  /\ view.page = "attack-map" => MapInv

\* What a step of the page that is open does not do.
ConsoleKeeps ==
  /\ view.page = "nodes" => FleetAsks
  /\ view.page = "node-deploy" => DeployPredicts
  /\ view.page = "telegram-bots" => BotsKeep
  /\ view.page = "node-metrics" => MetricsNew
  /\ view.page = "alerts" => AlarmKeeps
  /\ view.page = "attack-map" => MapKeeps

LEMMA BetweenIsPlain == "page" \in DOMAIN Between /\ Between.page \in Plain
BY DEF Between, Plain

LEMMA ConsoleInit ==
  ASSUME Init
  PROVE  ConsoleInv
BY BetweenIsPlain DEF Init, ConsoleInv, Plain

LEMMA ConsolePlain ==
  ASSUME "page" \in DOMAIN view', view'.page \in Plain
  PROVE  ConsoleInv'
BY DEF ConsoleInv, Plain

LEMMA ConsoleMounts ==
  ASSUME Mount
  PROVE  ConsoleInv'
<1>1. CASE view' \in Fleet!Mounted
  <2>1. FleetInv'
    BY <1>1, FleetMounts
  <2>2. "page" \in DOMAIN view' /\ view'.page = "nodes"
    BY <2>1 DEF FleetInv
  <2>. QED  BY <2>1, <2>2 DEF ConsoleInv
<1>2. CASE view' \in Staff!Mounted
  <2>1. StaffInv'
    BY <1>2, StaffMounts
  <2>2. "page" \in DOMAIN view' /\ view'.page = "users"
    BY <2>1 DEF StaffInv, StaffShape
  <2>. QED  BY <2>1, <2>2 DEF ConsoleInv
<1>3. CASE view' \in Rights!Mounted
  <2>1. RightsInv'
    BY <1>3, RightsMounts
  <2>2. "page" \in DOMAIN view' /\ view'.page = "roles"
    BY <2>1 DEF RightsInv
  <2>. QED  BY <2>1, <2>2 DEF ConsoleInv
<1>4. CASE view' \in Deploying!Mounted
  <2>1. DeployInv'
    BY <1>4, DeployMounts
  <2>2. "page" \in DOMAIN view' /\ view'.page = "node-deploy"
    BY <2>1 DEF DeployInv
  <2>. QED  BY <2>1, <2>2 DEF ConsoleInv
<1>5. CASE view' \in Notifiers!Mounted
  <2>1. BotsInv'
    BY <1>5, BotsMounts
  <2>2. "page" \in DOMAIN view' /\ view'.page = "telegram-bots"
    BY <2>1 DEF BotsInv
  <2>. QED  BY <2>1, <2>2 DEF ConsoleInv
<1>6. CASE view' \in Detail!Mounted
  <2>1. DetailInv'
    BY <1>6, DetailMounts
  <2>2. "page" \in DOMAIN view' /\ view'.page = "node"
    BY <2>1 DEF DetailInv
  <2>. QED  BY <2>1, <2>2 DEF ConsoleInv
<1>7. CASE view' \in Metrics!Mounted
  <2>1. MetricsInv'
    BY <1>7, MetricsMounts
  <2>2. "page" \in DOMAIN view' /\ view'.page = "node-metrics"
    BY <2>1 DEF MetricsInv, MetricsFields
  <2>. QED  BY <2>1, <2>2 DEF ConsoleInv
<1>8. CASE view' \in Front!Mounted
  <2>1. FrontInv'
    BY <1>8, FrontMounts
  <2>2. "page" \in DOMAIN view' /\ view'.page = "dashboard"
    BY <2>1 DEF FrontInv, FrontFields
  <2>. QED  BY <2>1, <2>2 DEF ConsoleInv
<1>9. CASE view' \in Alarm!Mounted
  <2>1. AlarmInv'
    BY <1>9, AlarmMounts
  <2>2. "page" \in DOMAIN view' /\ view'.page = "alerts"
    BY <2>1 DEF AlarmInv
  <2>. QED  BY <2>1, <2>2 DEF ConsoleInv
<1>10. CASE view' \in Map!Mounted
  <2>1. MapInv'
    BY <1>10, MapMounts
  <2>2. "page" \in DOMAIN view' /\ view'.page = "attack-map"
    BY <2>1 DEF MapInv
  <2>. QED  BY <2>1, <2>2 DEF ConsoleInv
<1>11. CASE \/ view' \in Explorer!Mounted \/ view' \in Audit!Mounted \/ view' \in Around!Mounted
            \/ view' \in Diagnostics!Mounted \/ view' \in Tabbed!Mounted
            \/ view' \in Analytics!Mounted \/ view' \in Store!Mounted
  BY <1>11, PlainMounts, ConsolePlain
<1>. QED
  BY <1>1, <1>2, <1>3, <1>4, <1>5, <1>6, <1>7, <1>8, <1>9, <1>10, <1>11 DEF Mount

\* A step of a page keeps its invariant, and the others are not open.
LEMMA ConsolePages ==
  ASSUME ConsoleInv,
         \/ Fleet!Step \/ Staff!Step \/ Rights!Step \/ Deploying!Step \/ Notifiers!Step
         \/ Detail!Step \/ Metrics!Step \/ Front!Step \/ Alarm!Step \/ Map!Step
  PROVE  ConsoleInv' /\ ConsoleKeeps
<1>1. CASE Fleet!Step
  <2>1. view.page = "nodes"
    BY <1>1 DEF Fleet!Step, Fleet!Here
  <2>2. FleetInv' /\ FleetAsks
    BY <1>1, <2>1, FleetStep DEF ConsoleInv
  <2>3. "page" \in DOMAIN view' /\ view'.page = "nodes"
    BY <2>2 DEF FleetInv
  <2>. QED  BY <2>1, <2>2, <2>3 DEF ConsoleInv, ConsoleKeeps
<1>2. CASE Staff!Step
  <2>1. view.page = "users"
    BY <1>2 DEF Staff!Step, Staff!Here
  <2>2. StaffInv'
    BY <1>2, <2>1, StaffStep DEF ConsoleInv
  <2>3. "page" \in DOMAIN view' /\ view'.page = "users"
    BY <2>2 DEF StaffInv, StaffShape
  <2>. QED  BY <2>1, <2>2, <2>3 DEF ConsoleInv, ConsoleKeeps
<1>3. CASE Rights!Step
  <2>1. view.page = "roles"
    BY <1>3 DEF Rights!Step, Rights!Here
  <2>2. RightsInv'
    BY <1>3, <2>1, RightsStep DEF ConsoleInv
  <2>3. "page" \in DOMAIN view' /\ view'.page = "roles"
    BY <2>2 DEF RightsInv
  <2>. QED  BY <2>1, <2>2, <2>3 DEF ConsoleInv, ConsoleKeeps
<1>4. CASE Deploying!Step
  <2>1. view.page = "node-deploy"
    BY <1>4 DEF Deploying!Step, Deploying!Here
  <2>2. DeployInv' /\ DeployPredicts
    BY <1>4, <2>1, DeployStep DEF ConsoleInv
  <2>3. "page" \in DOMAIN view' /\ view'.page = "node-deploy"
    BY <2>2 DEF DeployInv
  <2>. QED  BY <2>1, <2>2, <2>3 DEF ConsoleInv, ConsoleKeeps
<1>5. CASE Notifiers!Step
  <2>1. view.page = "telegram-bots"
    BY <1>5 DEF Notifiers!Step, Notifiers!Here
  <2>2. BotsInv' /\ BotsKeep
    BY <1>5, <2>1, BotsStep DEF ConsoleInv
  <2>3. "page" \in DOMAIN view' /\ view'.page = "telegram-bots"
    BY <2>2 DEF BotsInv
  <2>. QED  BY <2>1, <2>2, <2>3 DEF ConsoleInv, ConsoleKeeps
<1>6. CASE Detail!Step
  <2>1. view.page = "node"
    BY <1>6 DEF Detail!Step, Detail!Here
  <2>2. DetailInv'
    BY <1>6, <2>1, DetailStep DEF ConsoleInv
  <2>3. "page" \in DOMAIN view' /\ view'.page = "node"
    BY <2>2 DEF DetailInv
  <2>. QED  BY <2>1, <2>2, <2>3 DEF ConsoleInv, ConsoleKeeps
<1>7. CASE Metrics!Step
  <2>1. view.page = "node-metrics"
    BY <1>7 DEF Metrics!Step, Metrics!Here
  <2>2. MetricsInv' /\ MetricsNew
    BY <1>7, <2>1, MetricsStep DEF ConsoleInv
  <2>3. "page" \in DOMAIN view' /\ view'.page = "node-metrics"
    BY <2>2 DEF MetricsInv, MetricsFields
  <2>. QED  BY <2>1, <2>2, <2>3 DEF ConsoleInv, ConsoleKeeps
<1>8. CASE Front!Step
  <2>1. view.page = "dashboard"
    BY <1>8 DEF Front!Step, Front!Here
  <2>2. FrontInv'
    BY <1>8, <2>1, FrontStep DEF ConsoleInv
  <2>3. "page" \in DOMAIN view' /\ view'.page = "dashboard"
    BY <2>2 DEF FrontInv, FrontFields
  <2>. QED  BY <2>1, <2>2, <2>3 DEF ConsoleInv, ConsoleKeeps
<1>9. CASE Alarm!Step
  <2>1. view.page = "alerts"
    BY <1>9 DEF Alarm!Step, Alarm!Here
  <2>2. AlarmInv' /\ AlarmKeeps
    BY <1>9, <2>1, AlarmStep DEF ConsoleInv
  <2>3. "page" \in DOMAIN view' /\ view'.page = "alerts"
    BY <2>2 DEF AlarmInv
  <2>. QED  BY <2>1, <2>2, <2>3 DEF ConsoleInv, ConsoleKeeps
<1>10. CASE Map!Step
  <2>1. view.page = "attack-map"
    BY <1>10 DEF Map!Step, Map!Here
  <2>2. MapInv' /\ MapKeeps
    BY <1>10, <2>1, MapStep DEF ConsoleInv
  <2>3. "page" \in DOMAIN view' /\ view'.page = "attack-map"
    BY <2>2 DEF MapInv
  <2>. QED  BY <2>1, <2>2, <2>3 DEF ConsoleInv, ConsoleKeeps
<1>. QED  BY <1>1, <1>2, <1>3, <1>4, <1>5, <1>6, <1>7, <1>8, <1>9, <1>10

\* The other pages leave the name of the page alone, or the dashboard's tab.
LEMMA ConsoleElsewhere ==
  ASSUME ConsoleInv,
         \/ Explorer!Step \/ Audit!Step \/ Around!Step \/ Diagnostics!Step \/ Tabbed!Step
         \/ Analytics!Step \/ Store!Step
  PROVE  ConsoleInv' /\ ConsoleKeeps
<1>1. "page" \in DOMAIN view
  BY DEF ConsoleInv
<1>2. view.page \in Plain
  BY DEF Plain, Explorer!Step, Explorer!Here, Audit!Step, Audit!Here, Around!Step, Around!Here,
         Diagnostics!Step, Diagnostics!Here, Tabbed!Step, Tabbed!Here, Analytics!Step,
         Analytics!Here, Store!Step, Store!Here
<1>3. Stays \/ view' = Between
  BY <1>1, ExplorerStays, AuditStays, AroundStays, DiagnosticsStays, TabbedStays, AnalyticsStays,
     StoreStays
<1>4. ConsoleInv'
  BY <1>2, <1>3, ConsolePlain, BetweenIsPlain DEF Stays
<1>5. ConsoleKeeps
  BY <1>2 DEF ConsoleKeeps, Plain
<1>. QED  BY <1>4, <1>5

\* Every step of the dashboard, and none.
LEMMA ConsoleStep ==
  ASSUME ConsoleInv, Next
  PROVE  ConsoleInv' /\ (view'.page = view.page => ConsoleKeeps)
<1>1. CASE Leave
  <2>1. view' = Between
    BY <1>1 DEF Leave
  <2>2. ConsoleInv' /\ view'.page \in Plain
    BY <2>1, ConsolePlain, BetweenIsPlain
  <2>. QED  BY <2>2 DEF ConsoleKeeps, Plain
<1>2. CASE Mount
  <2>1. view.page \in Plain
    BY <1>2, BetweenIsPlain DEF Mount
  <2>2. ConsoleKeeps
    BY <2>1 DEF ConsoleKeeps, Plain
  <2>. QED  BY <1>2, <2>2, ConsoleMounts
<1>3. CASE Step
  BY <1>3, ConsolePages, ConsoleElsewhere DEF Step
<1>. QED  BY <1>1, <1>2, <1>3 DEF Next

LEMMA ConsoleStutter ==
  ASSUME ConsoleInv, UNCHANGED view
  PROVE  ConsoleInv'
<1>1. view.page = "nodes" => (FleetInv => FleetInv')
  BY DEF FleetInv
<1>2. StaffInv => StaffInv'
  <2>1. StaffShape => StaffShape'
    BY DEF StaffShape, StaffJob
  <2>2. StaffCareful => StaffCareful'
    BY DEF StaffCareful, StaffJobSafe, StaffDialogSafe, Leaves
  <2>. QED  BY <2>1, <2>2 DEF StaffInv
<1>3. RightsInv => RightsInv'
  BY DEF RightsInv, RoleRequest, Rights!Exists, Rights!There
<1>4. DeployInv => DeployInv'
  BY DEF DeployInv, DeployJob, DeployRow
<1>5. BotsInv => BotsInv'
  BY DEF BotsInv
<1>6. DetailInv => DetailInv'
  BY DEF DetailInv
<1>7. MetricsInv => MetricsInv'
  BY DEF MetricsInv
<1>8. FrontInv => FrontInv'
  BY DEF FrontInv
<1>9. AlarmInv => AlarmInv'
  BY DEF AlarmInv
<1>10. MapInv => MapInv'
  BY DEF MapInv, MapPushed, MapListed, Filled
<1>. QED
  BY <1>1, <1>2, <1>3, <1>4, <1>5, <1>6, <1>7, <1>8, <1>9, <1>10 DEF ConsoleInv

LEMMA ConsoleInvariant == Spec => []ConsoleInv
<1>1. Init => ConsoleInv
  BY ConsoleInit
<1>2. ConsoleInv /\ [Next]_vars => ConsoleInv'
  BY ConsoleStep, ConsoleStutter DEF vars
<1>. QED  BY <1>1, <1>2, PTL DEF Spec

-----------------------------------------------------------------------------
\* No legal sequence of clicks, answers and refusals makes a later selection
\* delete what was selected earlier, deletes the user himself, a careful one's
\* last administrator or a role somebody has, or gives two deployments one name
\* (NodesPage.tsx, UsersPage.tsx, RolesTab.tsx, NodeDetailPage.tsx).
THEOREM NothingIsLostByClicks == Spec => []WhatMustStayStays
<1>1. ConsoleInv => WhatMustStayStays
  <2>1. ConsoleInv => Fleet!NothingSelectedUnseen
    BY DEF ConsoleInv, FleetInv, Fleet!NothingSelectedUnseen, Fleet!Here
  <2>2. ConsoleInv => Staff!NeverMyself /\ Staff!AdminStays
    BY DEF ConsoleInv, StaffInv, StaffShape, StaffJob, StaffCareful, Staff!NeverMyself,
           Staff!AdminStays, Staff!Here
  <2>3. ConsoleInv => Rights!RoleInUseStays
    BY DEF ConsoleInv, RightsInv, Rights!RoleInUseStays, Rights!Here
  <2>4. ConsoleInv => Deploying!NamesAreUnique
    BY DEF ConsoleInv, DeployInv, Deploying!NamesAreUnique, Deploying!Here
  <2>. QED  BY <2>1, <2>2, <2>3, <2>4 DEF WhatMustStayStays
<1>. QED  BY <1>1, ConsoleInvariant, PTL

\* What shows that it waits, waits for something under way, and for one thing:
\* a row of users, the test of a bot, the buttons of a honeypot, the deployment
\* dialog, the refresh of the metrics and the layout of the map (UsersPage.tsx,
\* TelegramBotsPage.tsx, NodeDetailPage.tsx, AssetTopologyGraph.tsx).
THEOREM WaitingIsAnswered == Spec => []NothingWaitsInVain
<1>1. ConsoleInv => NothingWaitsInVain
  <2>1. ConsoleInv => Staff!NoRowStaysBusy
    BY DEF ConsoleInv, StaffInv, StaffCareful, Staff!NoRowStaysBusy, Staff!Here
  <2>2. ConsoleInv => Notifiers!NoTestSpinsForever
    BY DEF ConsoleInv, BotsInv, Notifiers!NoTestSpinsForever, Notifiers!Here
  <2>3. ConsoleInv => Detail!OneRequestPerPot
    BY DEF ConsoleInv, DetailInv, Detail!OneRequestPerPot, Detail!Here
  <2>4. ConsoleInv => Deploying!DialogIsAnswered
    BY DEF ConsoleInv, DeployInv, Deploying!DialogIsAnswered, Deploying!Here
  <2>5. ConsoleInv => Metrics!RefreshEnds
    BY DEF ConsoleInv, MetricsInv, Metrics!RefreshEnds, Metrics!Here
  <2>6. ConsoleInv => Front!OneLayoutAtATime
    BY DEF ConsoleInv, FrontInv, Due, Front!OneLayoutAtATime, Front!Here
  <2>. QED  BY <2>1, <2>2, <2>3, <2>4, <2>5, <2>6 DEF NothingWaitsInVain
<1>. QED  BY <1>1, ConsoleInvariant, PTL

\* A dialog that asks for a bulk deletion asks about nodes on the screen
\* (NodesPage.tsx).
THEOREM BulkDeletionIsSeen == Spec => BulkIsSeen
<1>1. ConsoleInv /\ [Next]_vars =>
        [Fleet!Here /\ view.dialog.kind # "bulk" /\ view'.page = "nodes"
           /\ view'.dialog.kind = "bulk" => view'.dialog.ids \subseteq Fleet!Visible]_view
  BY ConsoleStep DEF ConsoleKeeps, FleetAsks, Fleet!Here, vars
<1>. QED  BY <1>1, ConsoleInvariant, PTL DEF Spec, BulkIsSeen, Fleet!BulkIsSeen

\* No answer takes back what was shown as done: a confirmed acknowledgement or
\* deletion, the bots while one is edited, an event on the feed, the predicted
\* name, and the metrics after a refresh (AlertsPage.tsx, TelegramBotsPage.tsx,
\* AttackMapPage.tsx, NodeDetailPage.tsx).
THEOREM NoAnswerGoesBack == Spec => NothingGoesBack
<1>1. ConsoleInv /\ [Next]_vars =>
        [Alarm!Here /\ view'.page = "alerts" /\ view'.list # view.list =>
           \A t \in view.told :
             view'.list[t.of] \in IF t.kind = "delete" THEN {"none"}
                                  ELSE {"none", "acknowledged"}]_view
  BY ConsoleStep DEF ConsoleKeeps, AlarmKeeps, Confirmed, Alarm!Here, vars
<1>2. ConsoleInv /\ [Next]_vars =>
        [Notifiers!Here /\ view'.page = "telegram-bots" /\ view'.list # view.list =>
           view.fetch.at = "read" /\ view'.list = view.fetch.list]_view
  BY ConsoleStep DEF ConsoleKeeps, BotsKeep, Notifiers!Here, vars
<1>3. ConsoleInv /\ [Next]_vars =>
        [Map!Here /\ view'.page = "attack-map" /\ view.inOrder =>
           \A e \in Map!Feed : \/ e \in Map!Feed'
                              \/ Map!Cardinality({f \in Map!Feed' : f > e}) = FeedCap
                              \/ Map!PushedOut(e, Map!Feed', view'.srv)]_view
  BY ConsoleStep DEF ConsoleKeeps, MapKeeps, Map!Here, vars
<1>4. ConsoleInv /\ [Next]_vars =>
        [Deploying!Here /\ ~view.named /\ view.list = view.deps /\ view'.page = view.page =>
           \A j \in view'.jobs \ view.jobs :
             j.at = "named" /\ j.by = "dialog" => j.n = Deploying!Predicted(j.type)]_view
  BY ConsoleStep DEF ConsoleKeeps, DeployPredicts, Deploying!Here, vars
<1>5. ConsoleInv /\ [Next]_vars =>
        [Metrics!Here /\ view.refresh.at = "reading" /\ view.refresh.same
           /\ view'.page = view.page /\ view'.refresh.at = "none" /\ view'.open
           => view'.shown[view.refresh.hours] >= view.refresh.since]_view
  BY ConsoleStep DEF ConsoleKeeps, MetricsNew, Metrics!Here, vars
<1>6. Spec => Alarm!ConfirmedStays
  BY <1>1, ConsoleInvariant, PTL DEF Spec, Alarm!ConfirmedStays
<1>7. Spec => Notifiers!CancelChangesNothing
  BY <1>2, ConsoleInvariant, PTL DEF Spec, Notifiers!CancelChangesNothing
<1>8. Spec => Map!NoHitVanishes
  BY <1>3, ConsoleInvariant, PTL DEF Spec, Map!NoHitVanishes
<1>9. Spec => Deploying!PredictionIsKept
  BY <1>4, ConsoleInvariant, PTL DEF Spec, Deploying!PredictionIsKept
<1>10. Spec => Metrics!RefreshIsNew
  BY <1>5, ConsoleInvariant, PTL DEF Spec, Metrics!RefreshIsNew
<1>. QED  BY <1>6, <1>7, <1>8, <1>9, <1>10 DEF NothingGoesBack
=============================================================================
