------------------------------- MODULE Frame -------------------------------
(***************************************************************************)
(* What is around the pages: the routes of App.tsx, the navigation of      *)
(* Layout.tsx with the entry it marks, the account menu, and the command   *)
(* palette (CommandPalette.tsx) with the key that opens it.                *)
(***************************************************************************)
EXTENDS Integers, Sequences, FiniteSets

CONSTANTS Terms,    \* what is typed into the palette: sets of the routes matched
          NodePath  \* the path of some node's page

VARIABLE view

Here == view.page = "frame"

Fixed ==
  {"/", "/nodes", "/events", "/attack-map", "/analytics", "/alerts",
   "/audit-log", "/potstore", "/system", "/topology", "/users", "/telegram-bots"}

Routes == Fixed \union {NodePath}

Nav ==
  <<"/", "/nodes", "/potstore", "/events", "/attack-map", "/analytics",
    "/alerts", "/audit-log", "/system", "/topology">>

NavItems ==
  Nav \o (IF "notifications" \in view.may THEN <<"/telegram-bots">> ELSE <<>>)
      \o (IF "users" \in view.may THEN <<"/users">> ELSE <<>>)

\* JavaScript's startsWith.
StartsWith(path, to) == Len(to) <= Len(path) /\ SubSeq(path, 1, Len(to)) = to

\* A variant that treats the dashboard like the other entries.
IsActive_Prefix(to) == StartsWith(view.path, to)

IsActive(to) == IF to = "/" THEN view.path = to ELSE StartsWith(view.path, to)

Active == {i \in DOMAIN NavItems : IsActive(NavItems[i])}

ClosedPalette == [open |-> FALSE, term |-> "all", idx |-> 0]

Mounted ==
  {[page |-> "frame", path |-> "/", may |-> may, palette |-> ClosedPalette,
    menu |-> FALSE, collapsed |-> FALSE, theme |-> "light"]
     : may \in SUBSET {"users", "notifications"}}

Change(next) == Here /\ view' = next

\* The router sends a path it does not know to the dashboard.
Navigated(v, to) == [v EXCEPT !.path = IF to \in Routes THEN to ELSE "/"]

-----------------------------------------------------------------------------
Follow ==
  /\ ~view.palette.open
  /\ \E i \in DOMAIN NavItems : Change(Navigated(view, NavItems[i]))

\* A link on a page, the address bar, the way back.
Visit == \E to \in Routes \union {"/nowhere"} : Change(Navigated(view, to))

ToggleMenu == ~view.palette.open /\ Change([view EXCEPT !.menu = ~@])

ClickOutside == view.menu /\ Change([view EXCEPT !.menu = FALSE])

ManageUsers ==
  /\ view.menu /\ "users" \in view.may
  /\ Change(Navigated([view EXCEPT !.menu = FALSE], "/users"))

ToggleCollapsed == ~view.palette.open /\ Change([view EXCEPT !.collapsed = ~@])

ToggleTheme ==
  /\ ~view.palette.open
  /\ Change([view EXCEPT !.theme = IF @ = "dark" THEN "light" ELSE "dark"])

-----------------------------------------------------------------------------
\* The palette.  Opening it mounts it anew.

\* The entries listed, as places in the navigation, whose order they keep.
Matches ==
  {i \in DOMAIN NavItems :
     view.palette.term # "all" => NavItems[i] \in Terms[view.palette.term]}

Listed == Cardinality(Matches)

Match(n) == CHOOSE i \in Matches : Cardinality({j \in Matches : j <= i}) = n

Key == Here /\ view.palette.open

ToggleKey ==
  Change([view EXCEPT !.palette = IF @.open THEN ClosedPalette
                                  ELSE [ClosedPalette EXCEPT !.open = TRUE]])

\* A variant without the effect that goes back to the first match.
Type_KeepsIdx(term) ==
  /\ Key /\ view.palette.term # term
  /\ Change([view EXCEPT !.palette.term = term])

Type(term) ==
  /\ Key /\ view.palette.term # term
  /\ Change([view EXCEPT !.palette.term = term, !.palette.idx = 0])

\* With no match this goes to -1.
ArrowDown ==
  /\ Key
  /\ Change([view EXCEPT !.palette.idx = IF @ + 1 <= Listed - 1 THEN @ + 1 ELSE Listed - 1])

ArrowUp == Key /\ Change([view EXCEPT !.palette.idx = IF @ - 1 >= 0 THEN @ - 1 ELSE 0])

Hover == Key /\ \E n \in 1 .. Listed : Change([view EXCEPT !.palette.idx = n - 1])

Chosen == view.palette.idx + 1

Choose(i) == Change(Navigated([view EXCEPT !.palette = ClosedPalette], NavItems[i]))

\* Enter on nothing does nothing.
Enter == Key /\ Chosen \in 1 .. Listed /\ Choose(Match(Chosen))

Click == Key /\ \E i \in Matches : Choose(i)

Escape == Key /\ Change([view EXCEPT !.palette = ClosedPalette])

Step ==
  /\ Here
  /\ \/ Follow \/ Visit \/ ToggleMenu \/ ClickOutside \/ ManageUsers
     \/ ToggleCollapsed \/ ToggleTheme
     \/ ToggleKey \/ ArrowDown \/ ArrowUp \/ Hover \/ Enter \/ Click \/ Escape
     \/ \E term \in {"all"} \union DOMAIN Terms : Type(term)

-----------------------------------------------------------------------------
TypeOK ==
  /\ view.path \in Routes
  /\ view.palette.idx \in -1 .. Len(NavItems) - 1
  /\ {view.menu, view.collapsed, view.palette.open} \subseteq BOOLEAN

\* Enter opens something whenever something is listed: whatever was typed and
\* whichever keys were pressed before, also while nothing matched, one of the
\* matches is the marked one (CommandPalette.tsx:37,47,52).
EnterOpensAMatch ==
  Here /\ view.palette.open /\ Matches # {} => Chosen \in 1 .. Listed

\* The navigation marks where the user is: one entry on every page that has
\* one, the pages of single nodes included, and none on the pages his role
\* does not offer (Layout.tsx:268).
OneEntryIsMarked ==
  Here => Cardinality(Active) =
            IF \/ view.path = "/users" /\ "users" \notin view.may
               \/ view.path = "/telegram-bots" /\ "notifications" \notin view.may
            THEN 0 ELSE 1
=============================================================================
