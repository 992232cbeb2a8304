------------------------------ MODULE BotsPage ------------------------------
(***************************************************************************)
(* The Telegram bots of the dashboard (TelegramBotsPage.tsx): their cards  *)
(* with the switch and the test, the editor, which works on a copy of what *)
(* the list said when it was opened and writes all of it back, and the     *)
(* server's bots (core/internal/api/handlers/telegram.go).  One user       *)
(* administers them.  Names, tokens and messages are left out.             *)
(*                                                                         *)
(* A bot's configuration is the set of what is switched on or picked in    *)
(* it: sections, types, nodes, statuses and tags alike.                    *)
(***************************************************************************)
EXTENDS Naturals, FiniteSets

CONSTANTS Bots, NoBot,
          Options,   \* what can be switched on or picked
          MaxCalls   \* bound: tests under way at once; other requests are alone

VARIABLE view

Here == view.page = "telegram-bots"

\* A bot that is not there, and the bots there may be.
Gone == [there |-> FALSE, enabled |-> FALSE, config |-> {}]

Bot == {Gone} \union [there : {TRUE}, enabled : BOOLEAN, config : SUBSET Options]

None == [b \in Bots |-> Gone]

Asked == [at |-> "asked", list |-> None]

NoModal == [of |-> "none", bot |-> NoBot, enabled |-> FALSE, config |-> {}, moved |-> FALSE]

\* A patient user waits for answers and for the list; wanted is what he last
\* moved a bot's switch to, on its card or in the editor (moved).
Mounted ==
  {[page |-> "telegram-bots", srv |-> s, list |-> None, fetch |-> Asked,
    modal |-> NoModal, confirm |-> NoBot, testing |-> NoBot, jobs |-> {},
    wanted |-> [b \in Bots |-> TRUE], patient |-> k]
     : s \in [Bots -> {Gone, [there |-> TRUE, enabled |-> TRUE, config |-> {}]}],
       k \in BOOLEAN}

Change(next) == Here /\ view' = next

There(list) == {b \in Bots : list[b].there}

Quiet == view.jobs = {} /\ view.fetch.at = "none"

Acts == Here /\ (view.patient => Quiet)

Free == view.modal = NoModal /\ view.confirm = NoBot

-----------------------------------------------------------------------------
PollStarts ==
  /\ Here /\ view.fetch.at = "none"
  /\ Change([view EXCEPT !.fetch = Asked])

PollIsRead ==
  /\ Here /\ view.fetch.at = "asked"
  /\ Change([view EXCEPT !.fetch = [at |-> "read", list |-> view.srv]])

PollArrives ==
  /\ Here /\ view.fetch.at = "read"
  /\ Change([view EXCEPT !.fetch = [Asked EXCEPT !.at = "none"],
                         !.list = view.fetch.list])

-----------------------------------------------------------------------------
\* The editor.

AddBot ==
  /\ Acts /\ Free
  /\ Change([view EXCEPT !.modal = [of |-> "new", bot |-> NoBot, enabled |-> TRUE,
                                    config |-> {}, moved |-> TRUE]])

Edit(b) ==
  /\ Acts /\ Free /\ b \in There(view.list)
  /\ Change([view EXCEPT !.modal = [of |-> "bot", bot |-> b,
                                    enabled |-> view.list[b].enabled,
                                    config |-> view.list[b].config, moved |-> FALSE]])

Toggled(set, o) == IF o \in set THEN set \ {o} ELSE set \union {o}

\* A variant that edits the object of the list itself.
SetOption_Aliased(o) ==
  /\ Here /\ view.modal # NoModal
  /\ LET config == Toggled(view.modal.config, o) IN
       Change([view EXCEPT !.modal.config = config,
                           !.list = [b \in Bots |->
                             IF view.modal.bot = b THEN [@[b] EXCEPT !.config = config]
                             ELSE @[b]]])

SetOption(o) ==
  /\ Here /\ view.modal # NoModal
  /\ Change([view EXCEPT !.modal.config = Toggled(@, o)])

SetEnabled ==
  /\ Here /\ view.modal # NoModal
  /\ Change([view EXCEPT !.modal.enabled = ~@, !.modal.moved = view.patient])

CloseModal ==
  /\ view.modal # NoModal
  /\ Change([view EXCEPT !.modal = NoModal])

-----------------------------------------------------------------------------
\* Requests.

Job(kind, b, enabled, config) ==
  [kind |-> kind, bot |-> b, enabled |-> enabled, config |-> config, at |-> "sent"]

Calls == view.jobs = {}

Tests ==
  Cardinality(view.jobs) < MaxCalls /\ \A j \in view.jobs : j.kind = "test"

Pending(kinds) == \E j \in view.jobs : j.kind \in kinds

\* The server gives a new bot an identifier nothing refers to.
Fresh == Bots \ (There(view.srv) \union There(view.list) \union {j.bot : j \in view.jobs})

Save ==
  /\ Acts /\ Calls /\ view.modal # NoModal /\ ~Pending({"create", "update"})
  /\ \E b \in IF view.modal.of = "new" THEN Fresh ELSE {view.modal.bot} :
       Change([view EXCEPT
         !.jobs = @ \union {Job(IF view.modal.of = "new" THEN "create" ELSE "update", b,
                                view.modal.enabled, view.modal.config)},
         !.wanted[b] = IF view.patient /\ view.modal.moved THEN view.modal.enabled ELSE @])

Toggle(b) ==
  /\ Acts /\ Calls /\ Free /\ b \in There(view.list)
  /\ LET on == ~view.list[b].enabled IN
       Change([view EXCEPT !.jobs = @ \union {Job("toggle", b, on, {})},
                           !.wanted[b] = IF view.patient THEN on ELSE @])

Test(b) ==
  /\ Acts /\ Tests /\ Free /\ b \in There(view.list) /\ view.testing # b
  /\ Change([view EXCEPT !.jobs = @ \union {Job("test", b, FALSE, {})},
                         !.testing = b])

AskDelete(b) ==
  /\ Acts /\ Free /\ b \in There(view.list)
  /\ Change([view EXCEPT !.confirm = b])

CancelDelete ==
  /\ view.confirm # NoBot
  /\ Change([view EXCEPT !.confirm = NoBot])

Delete ==
  /\ Acts /\ Calls /\ view.confirm # NoBot /\ ~Pending({"delete"})
  /\ Change([view EXCEPT !.jobs = @ \union {Job("delete", view.confirm, FALSE, {})}])

After(bot, j) ==
  CASE j.kind = "create" -> [there |-> TRUE, enabled |-> j.enabled, config |-> j.config]
    [] j.kind = "update" -> [bot EXCEPT !.enabled = j.enabled, !.config = j.config]
    [] j.kind = "toggle" -> [bot EXCEPT !.enabled = j.enabled]
    [] j.kind = "delete" -> Gone
    [] j.kind = "test" -> bot

\* A bot that is gone can be deleted and switched again, to no effect; testing
\* and updating it is refused.
Serve(j) ==
  /\ j.at = "sent"
  /\ LET bot == view.srv[j.bot]
         known == j.kind = "create" \/ bot.there IN
       /\ known \/ j.kind \in {"delete", "toggle"}
       /\ Change([view EXCEPT
            !.jobs = (@ \ {j}) \union {[j EXCEPT !.at = "served"]},
            !.srv[j.bot] = IF known THEN After(bot, j) ELSE @])

\* A variant of the failure that leaves the test's mark.
Refused_KeepsMark(j) ==
  /\ j.at = "sent"
  /\ Change([view EXCEPT !.jobs = @ \ {j},
                         !.wanted[j.bot] = IF view.patient THEN view.srv[j.bot].enabled ELSE @])

\* Only a test has something to undo; a toast tells of it and of successes.
Refused(j) ==
  /\ j.at = "sent"
  /\ Change([view EXCEPT !.jobs = @ \ {j},
                         !.wanted[j.bot] = IF view.patient THEN view.srv[j.bot].enabled ELSE @,
                         !.testing = IF j.kind = "test" THEN NoBot ELSE @])

\* A variant that does not ask for the list after a switch.
Settle_NoRefresh(j) ==
  /\ j.at = "served"
  /\ Change([view EXCEPT
       !.jobs = @ \ {j},
       !.fetch = IF j.kind \in {"test", "toggle"} THEN @ ELSE Asked,
       !.testing = IF j.kind = "test" THEN NoBot ELSE @,
       !.modal = IF j.kind \in {"create", "update"} THEN NoModal ELSE @,
       !.confirm = IF j.kind = "delete" THEN NoBot ELSE @])

\* A success closes the dialog that is open, whoever it is open for.
Settle(j) ==
  /\ j.at = "served"
  /\ Change([view EXCEPT
       !.jobs = @ \ {j},
       !.fetch = IF j.kind = "test" THEN @ ELSE Asked,
       !.testing = IF j.kind = "test" THEN NoBot ELSE @,
       !.modal = IF j.kind \in {"create", "update"} THEN NoModal ELSE @,
       !.confirm = IF j.kind = "delete" THEN NoBot ELSE @])

Step ==
  /\ Here
  /\ \/ PollStarts \/ PollIsRead \/ PollArrives
     \/ AddBot \/ SetEnabled \/ CloseModal \/ Save \/ CancelDelete \/ Delete
     \/ \E b \in Bots : Edit(b)
     \/ \E o \in Options : SetOption(o)
     \/ \E b \in Bots : Toggle(b)
     \/ \E b \in Bots : Test(b)
     \/ \E b \in Bots : AskDelete(b)
     \/ \E j \in view.jobs : Serve(j)
     \/ \E j \in view.jobs : Refused(j)
     \/ \E j \in view.jobs : Settle(j)

-----------------------------------------------------------------------------
TypeOK ==
  /\ {view.srv, view.list, view.fetch.list} \subseteq [Bots -> Bot]
  /\ view.fetch.at \in {"none", "asked", "read"}
  /\ view.modal.bot \in Bots \union {NoBot}
  /\ {view.confirm, view.testing} \subseteq Bots \union {NoBot}

\* What is edited and not saved changes nothing: the cards show what a list
\* said, and change only when another arrives, whatever is done in the editor
\* (TelegramBotsPage.tsx:121-122).
CancelChangesNothing ==
  [][Here /\ view'.page = "telegram-bots" /\ view'.list # view.list =>
       view.fetch.at = "read" /\ view'.list = view.fetch.list]_view

\* "Sending..." is shown only while a test of that bot is under way: however
\* tests overlap, and whether they succeed, no bot is left without its button
\* (TelegramBotsPage.tsx:342-345,400).
NoTestSpinsForever ==
  Here /\ view.testing # NoBot =>
    \E j \in view.jobs : j.kind = "test" /\ j.bot = view.testing

\* Saving an edit does not undo a switch: to a user who waits for the list
\* before he opens the editor, which writes its copy of the switch back, every
\* bot ends as he last asked for it (TelegramBotsPage.tsx:119,138,339).
SwitchStays ==
  Here /\ view.patient /\ view.jobs = {} =>
    \A b \in There(view.srv) : view.srv[b].enabled = view.wanted[b]
=============================================================================
