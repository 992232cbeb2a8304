------------------------------ MODULE NodeTabs ------------------------------
(***************************************************************************)
(* The page of one node (NodeDetailPage.tsx): its tabs, the commands that  *)
(* can be copied from it, and the removal of the node.  The clipboard is the   *)
(* browser's.                                                              *)
(***************************************************************************)
EXTENDS Naturals

CONSTANT MaxTimers    \* bound: timers that run at once

VARIABLE view

Here == view.page = "node-tabs"

Tabs == {"deployments", "metrics", "install", "uninstall", "danger"}

Mounted ==
  {[page |-> "node-tabs", tab |-> "deployments", plat |-> "linux", online |-> o, known |-> k,
    copied |-> << >>, clipboard |-> << >>, timers |-> 0,
    confirm |-> FALSE, removal |-> "none"]
     : o \in BOOLEAN, k \in BOOLEAN}

Change(next) == Here /\ view' = next

-----------------------------------------------------------------------------
\* The commands on the screen, by what they do and the platform they are for.
\* The banner over the tabs is there while the agent is not connected.

Platforms == {"linux", "linux-user", "windows"}

OfPlatform(plat) == IF plat = "windows" THEN {"windows"} ELSE Platforms \ {"windows"}

Commands ==
  (IF ~view.online /\ view.known
     THEN {"offline-restart", "offline-status"} \X Platforms ELSE {})
    \union
  (IF view.tab = "install"
     THEN {<<"install", view.plat>>}
            \union (IF view.known THEN {"reconnect"} \X OfPlatform(view.plat) ELSE {})
     ELSE {})
    \union
  (IF view.tab = "uninstall" THEN {"uninstall"} \X {"linux", "windows"} ELSE {})

\* A variant whose mark is a switch that each copy turns.
CopyText_Toggles(c) ==
  /\ Here /\ c \in Commands /\ view.timers < MaxTimers
  /\ Change([view EXCEPT !.clipboard = c, !.timers = @ + 1,
                         !.copied = IF @ = << >> THEN c ELSE @])

\* Each copy starts a timer of its own, and the first to end takes the mark.
CopyText(c) ==
  /\ Here /\ c \in Commands /\ view.timers < MaxTimers
  /\ Change([view EXCEPT !.clipboard = c, !.copied = c, !.timers = @ + 1])

TimerEnds ==
  /\ Here /\ view.timers > 0
  /\ Change([view EXCEPT !.timers = @ - 1, !.copied = << >>])

SetTab(t) == Here /\ Change([view EXCEPT !.tab = t])

\* "Agent Setup" in the banner.
OpenInstall == ~view.online /\ SetTab("install")

SetPlatform ==
  /\ Here /\ view.tab = "install"
  /\ Change([view EXCEPT !.plat = IF @ = "linux" THEN "windows" ELSE "linux"])

\* What the next list says of the node.
OnlineChanges ==
  Here /\ Change([view EXCEPT !.online = ~@, !.known = @ \/ ~view.online])

-----------------------------------------------------------------------------
\* The removal.  The question stays open when the tab is left.

AskUninstall ==
  /\ Here /\ view.tab = "danger" /\ ~view.confirm
  /\ Change([view EXCEPT !.confirm = TRUE])

CancelUninstall ==
  /\ Here /\ view.tab = "danger" /\ view.confirm
  /\ Change([view EXCEPT !.confirm = FALSE])

Uninstall ==
  /\ Here /\ view.tab = "danger" /\ view.confirm /\ view.removal = "none"
  /\ Change([view EXCEPT !.removal = "sent"])

\* The server deletes the node, or refuses.
Serve ==
  /\ Here /\ view.removal = "sent"
  /\ \E good \in BOOLEAN :
       Change([view EXCEPT !.removal = IF good THEN "gone" ELSE "none"])

\* The page goes back to the list of nodes.
Navigates == Here /\ view.removal = "gone" /\ view' = [page |-> "none"]

Step ==
  /\ Here
  /\ \/ \E c \in Commands : CopyText(c)
     \/ TimerEnds \/ OpenInstall \/ SetPlatform
     \/ \E t \in Tabs : SetTab(t)
     \/ OnlineChanges
     \/ AskUninstall \/ CancelUninstall \/ Uninstall \/ Serve \/ Navigates

TypeOK ==
  /\ view.tab \in Tabs /\ view.plat \in {"linux", "windows"}
  /\ view.timers \in 0 .. MaxTimers

\* "Copied" stands at a command that is in the clipboard, and is taken away
\* (NodeDetailPage.tsx:459).
CopiedIsTrue ==
  Here /\ view.copied # << >> => view.copied = view.clipboard /\ view.timers > 0

=============================================================================
