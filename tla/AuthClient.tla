----------------------------- MODULE AuthClient -----------------------------
(***************************************************************************)
(* Who the dashboard thinks is signed in: the persisted store of           *)
(* stores/auth.ts, the axios interceptors of api/client.ts that answer a   *)
(* 401 with one shared refresh and one retry, the login, register and      *)
(* protected routes, and what the query cache shows about the user.        *)
(*                                                                         *)
(* One browser tab.  The handlers of a settled promise run before the next *)
(* answer of the network is handled, so settling a refresh and resuming    *)
(* every request that waits for it is one step.                            *)
(***************************************************************************)
EXTENDS Naturals

CONSTANTS Users, NoUser,
          Calls,       \* requests the pages may have under way
          Me,          \* the one of them whose answer the header shows
          Promises,    \* promises a call of refresh() may return
          MaxTokens    \* bound: access tokens the server signs

ASSUME AuthAssumption ==
  /\ NoUser \notin Users
  /\ Me \in Calls
  /\ MaxTokens \in Nat
  /\ 0 \notin Promises

VARIABLES store,       \* access, refresh, who, role: what localStorage keeps
          calls,       \* per request: where it is and what it was sent with
          promises,    \* per promise: its state and the refresh token it sent
          refreshing,  \* the promise of client.ts, or 0
          page,        \* login or app
          loggingIn,   \* whose login is under way
          shown,       \* whose /auth/me the query cache has
          owner,       \* server: whom an access token was signed for
          issued,      \* server: how many it has signed
          fresh,       \* server: the oldest that has not expired
          patient      \* whether this user waits for refreshes and reloads
                       \* the page before signing in

vars == <<store, calls, promises, refreshing, page, loggingIn, shown, owner,
          issued, fresh, patient>>

Token == 0 .. MaxTokens   \* 0 for none
Someone == Users \union {NoUser}

Cleared == [access |-> 0, refresh |-> NoUser, who |-> NoUser, role |-> NoUser]

Quiet == [at |-> "idle", tok |-> 0, first |-> 0, retried |-> FALSE, on |-> 0]

Sent(c, tok) == [calls[c] EXCEPT !.at = "sent", !.tok = tok, !.on = 0]

Waiting(p) == {c \in Calls : calls[c].at = "waiting" /\ calls[c].on = p}

Pending == {p \in Promises : promises[p].at = "pending"}

Rejected == {p \in Promises : promises[p].at = "rejected"}

NoPromise == [at |-> "unused", rt |-> NoUser]

Unused ==
  {p \in Promises : promises[p].at = "unused" /\ p # refreshing /\ Waiting(p) = {}}

Init ==
  /\ store = Cleared
  /\ calls = [c \in Calls |-> Quiet]
  /\ promises = [p \in Promises |-> NoPromise]
  /\ refreshing = 0
  /\ page = "login"
  /\ loggingIn = NoUser
  /\ shown = NoUser
  /\ owner = [t \in 1 .. MaxTokens |-> NoUser]
  /\ issued = 0
  /\ fresh = 1
  /\ patient \in BOOLEAN

-----------------------------------------------------------------------------
\* The server.

\* Both handlers sign a pair; the refresh token is not kept anywhere, so the
\* server cannot take it back.
Issue(u) ==
  /\ issued < MaxTokens
  /\ issued' = issued + 1
  /\ owner' = [owner EXCEPT ![issued + 1] = u]

Expire ==
  /\ fresh <= issued
  /\ fresh' = fresh + 1
  /\ UNCHANGED <<store, calls, promises, refreshing, page, loggingIn, shown,
                 owner, issued, patient>>

Live(tok) == tok # 0 /\ tok >= fresh

-----------------------------------------------------------------------------
\* Requests.

\* The request interceptor reads the token when the request leaves.
Send(c) ==
  /\ page = "app" /\ store.access # 0
  /\ calls[c].at = "idle"
  /\ calls' = [calls EXCEPT ![c] = [Sent(c, store.access) EXCEPT !.first = store.access]]
  /\ UNCHANGED <<store, promises, refreshing, page, loggingIn, shown, owner,
                 issued, fresh, patient>>

Answer(c) ==
  /\ calls[c].at = "sent"
  /\ Live(calls[c].tok)
  /\ calls' = [calls EXCEPT ![c] = Quiet]
  /\ shown' = IF c = Me THEN owner[calls[c].tok] ELSE shown
  /\ UNCHANGED <<store, promises, refreshing, page, loggingIn, owner, issued,
                 fresh, patient>>

\* Any other error, and the 401 of a retry, is the caller's.
Fail(c) ==
  /\ calls[c].at = "sent"
  /\ calls' = [calls EXCEPT ![c] = Quiet]
  /\ UNCHANGED <<store, promises, refreshing, page, loggingIn, shown, owner,
                 issued, fresh, patient>>

Unauthorized(c) == calls[c].at = "sent" /\ ~Live(calls[c].tok)

Wait(c, p) ==
  calls' = [calls EXCEPT ![c].at = "waiting", ![c].on = p, ![c].retried = TRUE]

\* A variant that asks for a refresh whether or not one is under way.
BeginRefresh_Always(c) ==
  /\ Unauthorized(c) /\ ~calls[c].retried
  /\ store.refresh # NoUser
  /\ \E p \in Unused :
       /\ promises' = [promises EXCEPT ![p] = [at |-> "pending", rt |-> store.refresh]]
       /\ refreshing' = p
       /\ Wait(c, p)
  /\ UNCHANGED <<store, page, loggingIn, shown, owner, issued, fresh, patient>>

BeginRefresh(c) ==
  /\ Unauthorized(c) /\ ~calls[c].retried
  /\ refreshing = 0
  /\ store.refresh # NoUser
  /\ \E p \in Unused :
       /\ promises' = [promises EXCEPT ![p] = [at |-> "pending", rt |-> store.refresh]]
       /\ refreshing' = p
       /\ Wait(c, p)
  /\ UNCHANGED <<store, page, loggingIn, shown, owner, issued, fresh, patient>>

JoinRefresh(c) ==
  /\ Unauthorized(c) /\ ~calls[c].retried
  /\ refreshing \in Pending
  /\ Wait(c, refreshing)
  /\ UNCHANGED <<store, promises, refreshing, page, loggingIn, shown, owner,
                 issued, fresh, patient>>

\* Awaiting a promise that was rejected, now or by an earlier request.
GiveUp(c) ==
  /\ Unauthorized(c) /\ ~calls[c].retried
  /\ \/ /\ refreshing = 0 /\ store.refresh = NoUser
        /\ \E p \in Unused :
             /\ promises' = [promises EXCEPT ![p].at = "rejected"]
             /\ refreshing' = p
     \/ /\ refreshing # 0 /\ refreshing \notin Pending
        /\ UNCHANGED <<promises, refreshing>>
  /\ store' = Cleared
  /\ calls' = [calls EXCEPT ![c] = Quiet]
  /\ UNCHANGED <<page, loggingIn, shown, owner, issued, fresh, patient>>

\* A variant that signs out when the retry is refused as well.
RetryRefused_SignsOut(c) ==
  /\ Unauthorized(c) /\ calls[c].retried
  /\ calls' = [calls EXCEPT ![c] = Quiet]
  /\ store' = Cleared
  /\ UNCHANGED <<promises, refreshing, page, loggingIn, shown, owner, issued,
                 fresh, patient>>

RetryRefused(c) ==
  /\ Unauthorized(c) /\ calls[c].retried
  /\ calls' = [calls EXCEPT ![c] = Quiet]
  /\ UNCHANGED <<store, promises, refreshing, page, loggingIn, shown, owner,
                 issued, fresh, patient>>

-----------------------------------------------------------------------------
\* The end of a refresh.

\* A variant whose requests go out again with the token they had.
Resumed_OldToken(p, tok) ==
  [c \in Calls |-> IF c \in Waiting(p) THEN Sent(c, calls[c].tok) ELSE calls[c]]

Resumed(p, tok) ==
  [c \in Calls |-> IF c \in Waiting(p) THEN Sent(c, tok) ELSE calls[c]]

\* A variant that leaves the requests of a failed refresh waiting.
Dropped_OnlyFirst(p) ==
  [calls EXCEPT ![CHOOSE c \in Waiting(p) : TRUE] = Quiet]

Dropped(p) == [c \in Calls |-> IF c \in Waiting(p) THEN Quiet ELSE calls[c]]

\* The answer overwrites the tokens and the role, whatever happened since.
Refreshed(p) ==
  /\ p \in Pending
  /\ Issue(promises[p].rt)
  /\ store' = [store EXCEPT !.access = issued + 1, !.refresh = promises[p].rt,
                            !.role = promises[p].rt]
  /\ calls' = Resumed(p, issued + 1)
  /\ promises' = [promises EXCEPT ![p] = NoPromise]
  /\ refreshing' = 0
  /\ UNCHANGED <<page, loggingIn, shown, fresh, patient>>

RefreshFails(p) ==
  /\ p \in Pending
  /\ store' = Cleared
  /\ calls' = Dropped(p)
  /\ promises' = [promises EXCEPT ![p].at = "rejected"]
  /\ UNCHANGED <<refreshing, page, loggingIn, shown, owner, issued, fresh, patient>>

-----------------------------------------------------------------------------
\* Pages.

Redirect ==
  /\ page = "app" /\ store.access = 0
  /\ page' = "login"
  /\ UNCHANGED <<store, calls, promises, refreshing, loggingIn, shown, owner,
                 issued, fresh, patient>>

SignOut ==
  /\ page = "app" /\ store.access # 0
  /\ patient => Pending = {}
  /\ store' = Cleared
  /\ page' = "login"
  /\ UNCHANGED <<calls, promises, refreshing, loggingIn, shown, owner, issued,
                 fresh, patient>>

JustLoaded ==
  /\ refreshing = 0 /\ shown = NoUser
  /\ \A c \in Calls : calls[c].at = "idle"

Submit(u) ==
  /\ page = "login" /\ loggingIn = NoUser
  /\ patient => JustLoaded
  /\ loggingIn' = u
  /\ UNCHANGED <<store, calls, promises, refreshing, page, shown, owner, issued,
                 fresh, patient>>

\* A variant that stores the tokens and the role and not whose they are.
LoggedIn_TokensOnly ==
  /\ loggingIn # NoUser
  /\ Issue(loggingIn)
  /\ store' = [store EXCEPT !.access = issued + 1, !.refresh = loggingIn,
                            !.role = loggingIn]
  /\ page' = "app"
  /\ loggingIn' = NoUser
  /\ UNCHANGED <<calls, promises, refreshing, shown, fresh, patient>>

\* A variant that swaps the two tokens of the answer.
LoggedIn_Swapped ==
  /\ loggingIn # NoUser
  /\ Issue(loggingIn)
  /\ store' = [access |-> loggingIn, refresh |-> issued + 1,
               who |-> loggingIn, role |-> loggingIn]
  /\ page' = "app"
  /\ loggingIn' = NoUser
  /\ UNCHANGED <<calls, promises, refreshing, shown, fresh, patient>>

LoggedIn ==
  /\ loggingIn # NoUser
  /\ Issue(loggingIn)
  /\ store' = [access |-> issued + 1, refresh |-> loggingIn,
               who |-> loggingIn, role |-> loggingIn]
  /\ page' = "app"
  /\ loggingIn' = NoUser
  /\ UNCHANGED <<calls, promises, refreshing, shown, fresh, patient>>

LoginFails ==
  /\ loggingIn # NoUser
  /\ loggingIn' = NoUser
  /\ UNCHANGED <<store, calls, promises, refreshing, page, shown, owner, issued,
                 fresh, patient>>

\* "Refresh data", F5 or an address typed: only localStorage is left.
Reload(where) ==
  /\ calls' = [c \in Calls |-> Quiet]
  /\ promises' = [p \in Promises |-> NoPromise]
  /\ refreshing' = 0
  /\ loggingIn' = NoUser
  /\ shown' = NoUser
  /\ page' = where
  /\ UNCHANGED <<store, owner, issued, fresh, patient>>

-----------------------------------------------------------------------------
Next ==
  \/ Expire \/ Redirect \/ SignOut \/ LoggedIn \/ LoginFails
  \/ \E u \in Users : Submit(u)
  \/ \E where \in {"login", "app"} : Reload(where)
  \/ \E c \in Calls : Send(c)
  \/ \E c \in Calls : Answer(c)
  \/ \E c \in Calls : Fail(c)
  \/ \E c \in Calls : BeginRefresh(c)
  \/ \E c \in Calls : JoinRefresh(c)
  \/ \E c \in Calls : GiveUp(c)
  \/ \E c \in Calls : RetryRefused(c)
  \/ \E p \in Promises : Refreshed(p)
  \/ \E p \in Promises : RefreshFails(p)

\* The network answers, if only with an error, and promises are settled.
Fairness ==
  /\ \A c \in Calls :
       /\ WF_vars(Answer(c) \/ Fail(c) \/ BeginRefresh(c) \/ JoinRefresh(c)
                      \/ GiveUp(c) \/ RetryRefused(c))
  /\ \A p \in Promises : WF_vars(Refreshed(p) \/ RefreshFails(p))

Spec == Init /\ [][Next]_vars /\ Fairness

-----------------------------------------------------------------------------
TypeOK ==
  /\ store \in [access : Token, refresh : Someone, who : Someone, role : Someone]
  /\ calls \in [Calls -> [at : {"idle", "sent", "waiting"}, tok : Token,
                          first : Token, retried : BOOLEAN, on : Promises \union {0}]]
  /\ promises \in [Promises -> [at : {"unused", "pending", "rejected"}, rt : Someone]]
  /\ refreshing \in Promises \union {0}
  /\ page \in {"login", "app"}
  /\ {loggingIn, shown} \subseteq Someone
  /\ owner \in [1 .. MaxTokens -> Someone]
  /\ issued \in Token
  /\ fresh \in 1 .. MaxTokens + 1
  /\ patient \in BOOLEAN

\* However many requests are refused together, the page has one refresh under
\* way, and every request that waits then is waiting for that one (client.ts:15).
OneRefresh ==
  \A p \in Pending :
    /\ Pending = {p}
    /\ \A c \in Calls : calls[c].at = "waiting" => calls[c].on = p

\* A request goes out a second time only with a token signed after the one it
\* was refused with (client.ts:26).
RetryIsNewer ==
  \A c \in Calls :
    calls[c].at = "sent" /\ calls[c].retried => calls[c].tok > calls[c].first

\* For a user who signs out between refreshes and signs in on a page just
\* loaded, the tokens, the name, the role and the header are one user's.
Coherent ==
  patient =>
    IF store.access = 0 THEN store = Cleared
    ELSE /\ {store.refresh, store.who, store.role} = {owner[store.access]}
         /\ shown \in {NoUser, store.who}

\* The tab has one refresh and shows one person.
OneSession == TypeOK /\ OneRefresh /\ Coherent

\* Nobody is sent to the login page but who signs out, or whose page has seen
\* a refresh fail since it was loaded: a retry that is refused is not enough.
SignedInUntilRefreshFails ==
  [][store.access # 0 /\ store'.access = 0 =>
       \/ page = "app" /\ page' = "login"
       \/ Rejected' # {}]_vars

\* Every request of a page is answered or fails, also when it meets a refresh
\* of somebody else's that never succeeds.
EveryCallSettles ==
  \A c \in Calls : calls[c].at # "idle" ~> calls[c].at = "idle"
=============================================================================
