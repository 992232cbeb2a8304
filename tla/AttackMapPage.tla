--------------------------- MODULE AttackMapPage ---------------------------
(***************************************************************************)
(* The live attack map (AttackMapPage.tsx) with its socket                 *)
(* (hooks/useWebSocket.ts): a list that is polled and events that are      *)
(* pushed, merged into one feed.  The effect of the hook runs whenever the *)
(* access token has changed: it closes the socket it had and opens one     *)
(* with the new token; the handlers of the old one stay and set the same   *)
(* "live" flag.                                                            *)
(*                                                                         *)
(* An event is the number of its event_time; those without coordinates are *)
(* dropped by the page, after the server has counted them.  The flashes    *)
(* drawn on the map are left out.                                          *)
(***************************************************************************)
EXTENDS Integers, FiniteSets, SequencesExt

CONSTANTS Hits,       \* events, numbered by their time
          Unplaced,   \* those without coordinates
          SeedCap, LiveCap, FeedCap,  \* 400, 80 and 50 in the code
          Sockets,    \* bound: sockets that exist at once, closing ones included
          MaxTokens   \* bound: access tokens the page sees

VARIABLE view

Here == view.page = "attack-map"

Newest(set, n) == {e \in set : Cardinality({f \in set : f > e}) < n}

Asked == [at |-> "asked", list |-> {}]

\* With inOrder events come in the order of their times, and an old socket is
\* gone before a new one opens.
Mounted ==
  {[page |-> "attack-map", srv |-> s, seeded |-> {}, fetch |-> Asked,
    live |-> <<>>, last |-> 0, frames |-> {}, token |-> 1, effectFor |-> 0,
    sockets |-> [k \in Sockets |-> "none"], connected |-> FALSE, inOrder |-> o]
     : s \in {{}, {1} \cap Hits}, o \in BOOLEAN}

Change(next) == Here /\ view' = next

-----------------------------------------------------------------------------
\* The list, asked for when the page opens and every 30 seconds.

SeedStarts ==
  /\ Here /\ view.fetch.at = "none"
  /\ Change([view EXCEPT !.fetch = Asked])

SeedIsRead ==
  /\ Here /\ view.fetch.at = "asked"
  /\ Change([view EXCEPT !.fetch = [at |-> "read",
                                     list |-> Newest(view.srv, SeedCap) \ Unplaced]])

\* A variant that starts the feed afresh from the list.
SeedArrives_ForgetsLive ==
  /\ Here /\ view.fetch.at = "read"
  /\ Change([view EXCEPT !.fetch = [Asked EXCEPT !.at = "none"],
                         !.seeded = view.fetch.list, !.live = <<>>])

\* A variant that takes only the first list.
SeedArrives_Once ==
  /\ Here /\ view.fetch.at = "read"
  /\ Change([view EXCEPT !.fetch = [Asked EXCEPT !.at = "none"],
                         !.seeded = IF @ = {} THEN view.fetch.list ELSE @])

SeedArrives ==
  /\ Here /\ view.fetch.at = "read"
  /\ Change([view EXCEPT !.fetch = [Asked EXCEPT !.at = "none"],
                         !.seeded = view.fetch.list])

SeedFails ==
  /\ Here /\ view.fetch.at # "none"
  /\ Change([view EXCEPT !.fetch = [Asked EXCEPT !.at = "none"]])

-----------------------------------------------------------------------------
\* The socket.

At(places) == {k \in Sockets : view.sockets[k] \in places}

\* A variant of the cleanup that closes only a socket that is open.
Cleanup_OpenOnly ==
  [k \in Sockets |-> IF view.sockets[k] = "open" THEN "closing" ELSE view.sockets[k]]

Cleanup ==
  [k \in Sockets |-> IF view.sockets[k] = "none" THEN "none" ELSE "closing"]

\* What was on its way to a socket that closes is not heard.
Effect ==
  /\ view.effectFor # view.token
  /\ \E k \in At({"none"}) :
       Change([view EXCEPT !.effectFor = view.token, !.frames = {},
                           !.sockets = [Cleanup EXCEPT ![k] = "connecting"]])

Opened(k) ==
  /\ view.sockets[k] = "connecting"
  /\ view.inOrder => At({"closing"}) = {}
  /\ Change([view EXCEPT !.sockets[k] = "open", !.connected = TRUE])

\* A variant that ends without telling the page.
Ended_Silently(k) ==
  /\ view.sockets[k] # "none"
  /\ Change([view EXCEPT !.sockets[k] = "none",
                         !.frames = IF view.sockets[k] = "open" THEN {} ELSE @])

\* onclose: refused, lost, or closed by the cleanup.  Nothing reconnects.
Ended(k) ==
  /\ view.sockets[k] # "none"
  /\ Change([view EXCEPT !.sockets[k] = "none", !.connected = FALSE,
                         !.frames = IF view.sockets[k] = "open" THEN {} ELSE @])

\* A request of the page has refreshed the session.
TokenChanges ==
  /\ Here /\ view.token < MaxTokens
  /\ Change([view EXCEPT !.token = @ + 1])

-----------------------------------------------------------------------------
\* Events: the server stores one and pushes it to whoever is connected.

Hit(e) ==
  /\ Here
  /\ e \in Hits \ view.srv
  /\ view.inOrder => \A f \in view.srv : f < e
  /\ Change([view EXCEPT !.srv = @ \union {e},
                         !.frames = IF At({"open"}) = {} THEN @ ELSE @ \union {e}])

\* onmessage: a message that comes before the page was drawn with the one
\* before it takes its place.
Message(e) ==
  /\ e \in view.frames
  /\ view.inOrder => \A f \in view.frames : f >= e
  /\ Change([view EXCEPT !.frames = @ \ {e}, !.last = e])

Drawn ==
  /\ Here /\ view.last # 0
  /\ Change([view EXCEPT !.last = 0,
       !.live = IF view.last \in Unplaced \/ Contains(@, view.last) THEN @
                ELSE IF Len(@) < LiveCap THEN <<view.last>> \o @
                ELSE <<view.last>> \o SubSeq(@, 1, LiveCap - 1)])

Feed == Newest(ToSet(view.live) \union view.seeded, FeedCap)

Step ==
  /\ Here
  /\ \/ SeedStarts \/ SeedIsRead \/ SeedArrives \/ SeedFails
     \/ Effect \/ TokenChanges \/ Drawn
     \/ \E k \in Sockets : Opened(k)
     \/ \E k \in Sockets : Ended(k)
     \/ \E e \in Hits : Hit(e)
     \/ \E e \in Hits : Message(e)

-----------------------------------------------------------------------------
TypeOK ==
  /\ view.sockets \in [Sockets -> {"none", "connecting", "open", "closing"}]
  /\ {view.srv, view.seeded, view.fetch.list, view.frames} \subseteq SUBSET Hits
  /\ Len(view.live) <= LiveCap /\ IsInjective(view.live)
  /\ view.last \in Hits \union {0}

\* However often the token changes, one socket at most brings events to the
\* page, also when the token changes before its socket has opened
\* (useWebSocket.ts:19,32).
OneFeed == Here => Cardinality(At({"open"})) <= 1

\* Where old sockets are gone before a new one opens, the page says "Live"
\* exactly when a socket is open or one that was is closing.  (When an old
\* one's onclose comes late, it says "Offline" over an open socket,
\* useWebSocket.ts:31.)
LiveIsTrue ==
  Here /\ view.inOrder =>
    /\ At({"open"}) # {} => view.connected
    /\ view.connected => At({"open", "closing"}) # {}

\* The list is full of newer events: of those shown, and of those it held that
\* have no coordinates.
PushedOut(e, shown, stored) ==
  Cardinality({f \in shown \union (stored \cap Unplaced) : f > e}) >= SeedCap

\* An event that is shown stays until enough newer ones are shown, or until newer
\* ones, placed or not, fill the list: a list that was read before it was pushed
\* does not take it away, nor do the caps of the list and of the pushed events,
\* as long as events come in the order of their times
\* (AttackMapPage.tsx:106,121,135-141).
NoHitVanishes ==
  [][Here /\ view'.page = "attack-map" /\ view.inOrder =>
       \A e \in Feed : \/ e \in Feed'
                      \/ Cardinality({f \in Feed' : f > e}) = FeedCap
                      \/ PushedOut(e, Feed', view'.srv)]_view

\* Every event with coordinates is shown sometime, unless enough newer ones are,
\* or fill the list: also one that was pushed while no socket was open, or whose
\* message another one replaced before it was drawn (AttackMapPage.tsx:109,
\* useWebSocket.ts:28).
EveryHitIsSeen ==
  \A e \in Hits \ Unplaced :
    Here /\ e \in view.srv
      ~> (\/ ~Here \/ e \in Feed
          \/ Cardinality({f \in Feed : f > e}) = FeedCap
          \/ PushedOut(e, Feed, view.srv))
=============================================================================
