-------------------------- MODULE AuthClient_proofs --------------------------
(***************************************************************************)
(* Machine-checked facts about AuthClient, for any users, any number of    *)
(* requests under way and any number of tokens.                            *)
(***************************************************************************)
EXTENDS AuthClient, TLAPS

-----------------------------------------------------------------------------
(* Types.                                                                  *)

CallType == [at : {"idle", "sent", "waiting"}, tok : Token, first : Token,
             retried : BOOLEAN, on : Promises \union {0}]
PromiseType == [at : {"unused", "pending", "rejected"}, rt : Someone]
StoreType == [access : Token, refresh : Someone, who : Someone, role : Someone]

\* What a step makes of a request is a request.
LEMMA CallTypes ==
  ASSUME calls \in [Calls -> CallType], NEW c \in Calls
  PROVE  /\ Quiet \in CallType
         /\ \A tok \in Token : /\ Sent(c, tok) \in CallType
                             /\ [Sent(c, tok) EXCEPT !.first = tok] \in CallType
         /\ \A p \in Promises :
              [calls EXCEPT ![c].at = "waiting", ![c].on = p, ![c].retried = TRUE]
                \in [Calls -> CallType]
<1>. calls[c] \in CallType  OBVIOUS
<1>1. Quiet \in CallType
  BY AuthAssumption DEF Quiet, CallType, Token
<1>2. ASSUME NEW tok \in Token
      PROVE  Sent(c, tok) \in CallType /\ [Sent(c, tok) EXCEPT !.first = tok] \in CallType
  BY DEF Sent, CallType
<1>3. ASSUME NEW p \in Promises
      PROVE  [calls EXCEPT ![c].at = "waiting", ![c].on = p, ![c].retried = TRUE]
                \in [Calls -> CallType]
  BY DEF CallType
<1>. QED  BY <1>1, <1>2, <1>3

\* What goes out: the token is the one given, the rest is as it was.
LEMMA SentCall ==
  ASSUME calls \in [Calls -> CallType], NEW c \in Calls, NEW tok \in Token
  PROVE  /\ Sent(c, tok).at = "sent" /\ Sent(c, tok).tok = tok
         /\ Sent(c, tok).first = calls[c].first
         /\ Sent(c, tok).retried = calls[c].retried
         /\ [Sent(c, tok) EXCEPT !.first = tok].at = "sent"
         /\ [Sent(c, tok) EXCEPT !.first = tok].tok = tok
         /\ [Sent(c, tok) EXCEPT !.first = tok].first = tok
         /\ [Sent(c, tok) EXCEPT !.first = tok].retried = calls[c].retried
<1>1. calls[c] \in CallType  OBVIOUS
<1>2. Sent(c, tok) \in CallType  BY CallTypes
<1>. QED  BY <1>1, <1>2 DEF Sent, CallType

\* Every variable of the session keeps its type.
LEMMA SessionTyped == Spec => []TypeOK
<1>1. Init => TypeOK
  BY AuthAssumption
  DEF Init, TypeOK, Cleared, Quiet, NoPromise, Token, Someone
<1>2. ASSUME TypeOK, [Next]_vars PROVE TypeOK'
  <2>. USE <1>2, AuthAssumption
       DEF TypeOK, Token, Someone, Cleared, NoPromise
  <2>0. calls \in [Calls -> CallType]
    BY DEF CallType
  <2>1. CASE Expire
    BY <2>1 DEF Expire
  <2>2. CASE Redirect
    BY <2>2 DEF Redirect
  <2>3. CASE SignOut
    BY <2>3 DEF SignOut
  <2>4. CASE LoggedIn
    BY <2>4 DEF LoggedIn, Issue
  <2>5. CASE LoginFails
    BY <2>5 DEF LoginFails
  <2>6. ASSUME NEW u \in Users, Submit(u) PROVE TypeOK'
    BY <2>6 DEF Submit
  <2>7. ASSUME NEW where \in {"login", "app"}, Reload(where) PROVE TypeOK'
    BY <2>7 DEF Reload, Quiet
  <2>8. ASSUME NEW c \in Calls, Send(c) PROVE TypeOK'
    <3>1. [Sent(c, store.access) EXCEPT !.first = store.access] \in CallType
      BY <2>0, CallTypes
    <3>2. calls' \in [Calls -> CallType]
      BY <2>0, <3>1, <2>8 DEF Send
    <3>. QED  BY <2>8, <3>2 DEF Send, CallType
  <2>9. ASSUME NEW c \in Calls, Answer(c) PROVE TypeOK'
    BY <2>9 DEF Answer, Live, Quiet
  <2>10. ASSUME NEW c \in Calls, Fail(c) PROVE TypeOK'
    BY <2>10 DEF Fail, Quiet
  <2>11. ASSUME NEW c \in Calls, BeginRefresh(c) PROVE TypeOK'
    <3>0. PICK p \in Promises : Wait(c, p)
      BY <2>11 DEF BeginRefresh, Unused
    <3>1. calls' \in [Calls -> CallType]
      BY <2>0, <3>0, CallTypes DEF Wait
    <3>. QED  BY <2>11, <3>1 DEF BeginRefresh, Unused, CallType
  <2>12. ASSUME NEW c \in Calls, JoinRefresh(c) PROVE TypeOK'
    <3>1. calls' \in [Calls -> CallType]
      BY <2>0, <2>12, CallTypes DEF JoinRefresh, Pending, Wait
    <3>. QED  BY <2>12, <3>1 DEF JoinRefresh, CallType
  <2>13. ASSUME NEW c \in Calls, GiveUp(c) PROVE TypeOK'
    <3>1. calls' \in [Calls -> CallType]
      BY <2>0, <2>13, CallTypes DEF GiveUp
    <3>2. promises' \in [Promises -> PromiseType] /\ refreshing' \in Promises \union {0}
      <4>1. CASE UNCHANGED <<promises, refreshing>>
        BY <4>1 DEF PromiseType
      <4>2. ASSUME NEW p \in Promises, refreshing' = p,
                   promises' = [promises EXCEPT ![p].at = "rejected"]
            PROVE  promises' \in [Promises -> PromiseType]
        BY <4>2 DEF PromiseType
      <4>. QED  BY <2>13, <4>1, <4>2 DEF GiveUp, Unused, PromiseType
    <3>. QED  BY <2>13, <3>1, <3>2 DEF GiveUp, CallType, PromiseType
  <2>14. ASSUME NEW c \in Calls, RetryRefused(c) PROVE TypeOK'
    BY <2>14 DEF RetryRefused, Quiet
  <2>15. ASSUME NEW p \in Promises, Refreshed(p) PROVE TypeOK'
    <3>1. issued + 1 \in Token
      BY <2>15 DEF Refreshed, Issue
    <3>2. calls' \in [Calls -> CallType]
      BY <2>0, <2>15, <3>1, CallTypes DEF Refreshed, Resumed
    <3>. QED  BY <2>15, <3>1, <3>2 DEF Refreshed, Issue, Pending, CallType
  <2>16. ASSUME NEW p \in Promises, RefreshFails(p) PROVE TypeOK'
    <3>1. calls' \in [Calls -> CallType]
      BY <2>0, <2>16, CallTypes DEF RefreshFails, Dropped
    <3>. QED  BY <2>16, <3>1 DEF RefreshFails, Pending, CallType
  <2>17. CASE UNCHANGED vars
    BY <2>17 DEF vars
  <2>. QED
    BY <2>1, <2>2, <2>3, <2>4, <2>5, <2>6, <2>7, <2>8, <2>9, <2>10, <2>11,
       <2>12, <2>13, <2>14, <2>15, <2>16, <2>17 DEF Next
<1>. QED  BY <1>1, <1>2, PTL DEF Spec
-----------------------------------------------------------------------------
(* One refresh.                                                            *)

\* The promise of client.ts is the only one that can be pending, it has been
\* started if there is one, and nobody waits for another.
Shared ==
  /\ \A p \in Pending : refreshing = p
  /\ \A c \in Calls : calls[c].at = "waiting" => calls[c].on \in Pending
  /\ refreshing # 0 => refreshing \in Pending \union Rejected

\* Settling a promise and resuming all that wait for it is one step, so the
\* promise is never cleared under a request that waits.
LEMMA SharedRefresh == Spec => []Shared
<1>1. Init => Shared
  BY DEF Init, Shared, Pending, NoPromise, Quiet
<1>2. ASSUME TypeOK, Shared, [Next]_vars PROVE Shared'
  <2>. USE <1>2, AuthAssumption DEF Shared, Pending, Rejected
  <2>0. /\ calls \in [Calls -> CallType] /\ promises \in [Promises -> PromiseType]
        /\ refreshing \in Promises \union {0}
    BY DEF TypeOK, CallType, PromiseType
  <2>1. CASE UNCHANGED <<calls, promises, refreshing>>
    BY <2>1
  <2>2. ASSUME NEW where \in {"login", "app"}, Reload(where) PROVE Shared'
    BY <2>2 DEF Reload, Quiet, NoPromise
  <2>3. ASSUME NEW c \in Calls, Send(c) \/ Answer(c) \/ Fail(c) \/ RetryRefused(c)
        PROVE  Shared'
    <3>1. UNCHANGED <<promises, refreshing>> /\ calls' \in [Calls -> CallType]
          /\ \A d \in Calls \ {c} : calls'[d] = calls[d]
      <4>1. [Sent(c, store.access) EXCEPT !.first = store.access] \in CallType /\ Quiet \in CallType
        BY <2>0, CallTypes DEF TypeOK
      <4>. QED  BY <2>0, <2>3, <4>1 DEF Send, Answer, Fail, RetryRefused
    <3>2. calls'[c].at # "waiting"
      <4>1. CASE Send(c)
        <5>. [Sent(c, store.access) EXCEPT !.first = store.access].at = "sent"
          BY <2>0, SentCall DEF TypeOK
        <5>. QED  BY <2>0, <4>1 DEF Send
      <4>2. CASE ~Send(c)
        BY <2>0, <2>3, <4>2 DEF Answer, Fail, RetryRefused, Quiet
      <4>. QED  BY <4>1, <4>2
    <3>. QED  BY <3>1, <3>2
  <2>4. ASSUME NEW c \in Calls, BeginRefresh(c) PROVE Shared'
    <3>1. PICK p \in Unused :
            /\ promises' = [promises EXCEPT ![p] = [at |-> "pending", rt |-> store.refresh]]
            /\ refreshing' = p
            /\ Wait(c, p)
      BY <2>4 DEF BeginRefresh
    <3>2. Pending = {} /\ p \in Promises
      BY <2>0, <2>4 DEF BeginRefresh, Unused
    <3>. QED  BY <2>0, <3>1, <3>2 DEF Wait, CallType, PromiseType
  <2>5. ASSUME NEW c \in Calls, JoinRefresh(c) PROVE Shared'
    BY <2>0, <2>5 DEF JoinRefresh, Wait, CallType
  <2>6. ASSUME NEW c \in Calls, GiveUp(c) PROVE Shared'
    <3>1. Pending = {}
      BY <2>0, <2>6 DEF GiveUp
    <3>2. \A d \in Calls : calls'[d].at # "waiting"
      BY <2>0, <2>6, <3>1 DEF GiveUp, Quiet
    <3>. QED  BY <2>0, <2>6, <3>1, <3>2 DEF GiveUp, Unused, PromiseType
  <2>7. ASSUME NEW p \in Promises, Refreshed(p) PROVE Shared'
    <3>1. Pending' = {} /\ refreshing' = 0
      BY <2>0, <2>7 DEF Refreshed, NoPromise
    <3>2. \A c \in Calls : calls'[c].at # "waiting"
      <4>1. \A c \in Calls : Sent(c, issued + 1).at = "sent"
        BY <2>0, <2>7, SentCall DEF Refreshed, Issue, TypeOK, Token
      <4>. QED  BY <2>0, <2>7, <4>1 DEF Refreshed, Resumed, Waiting
    <3>. QED  BY <3>1, <3>2
  <2>8. ASSUME NEW p \in Promises, RefreshFails(p) PROVE Shared'
    <3>1. \A c \in Calls : calls'[c].at # "waiting"
      BY <2>0, <2>8 DEF RefreshFails, Dropped, Waiting, Quiet
    <3>. QED  BY <2>0, <2>8, <3>1 DEF RefreshFails, PromiseType
  <2>. QED
    BY <2>1, <2>2, <2>3, <2>4, <2>5, <2>6, <2>7, <2>8
    DEF Next, vars, Expire, Redirect, SignOut, LoggedIn, LoginFails, Submit
<1>. QED  BY <1>1, <1>2, SessionTyped, PTL DEF Spec
\* TypeOK, and with Shared: the page never has two refreshes under way.
LEMMA OneAtATime == TypeOK /\ Shared => OneRefresh
  BY AuthAssumption DEF TypeOK, Shared, OneRefresh, Pending

-----------------------------------------------------------------------------
(* Retries.                                                                *)

\* The tokens of the store and of the requests were signed, a request that is
\* not under way remembers nothing, one that went out once has the token it was
\* first sent with, and one that went out again a newer one.
DatedCall(call, n) ==
  /\ call.at = "idle" => ~call.retried
  /\ call.at = "waiting" => call.retried
  /\ call.first <= n
  /\ call.at = "sent" =>
       /\ call.tok \in 1 .. n
       /\ IF call.retried THEN call.tok > call.first ELSE call.tok = call.first

Dated ==
  /\ store.access <= issued
  /\ \A c \in Calls : DatedCall(calls[c], issued)

\* A refresh signs a token newer than all there are, and only then do the
\* requests that wait for it go out again.
LEMMA TokensDated == Spec => []Dated
<1>1. Init => Dated
  BY AuthAssumption DEF Init, Dated, DatedCall, Quiet, Cleared
<1>2. ASSUME TypeOK, Shared, Dated, [Next]_vars PROVE Dated'
  <2>. USE <1>2, AuthAssumption DEF Dated
  <2>0. /\ calls \in [Calls -> CallType] /\ issued \in Nat
        /\ store.access \in Nat /\ store.access \in Token
        /\ \A c \in Calls : calls[c] \in CallType /\ calls[c].first \in Nat
                            /\ calls[c].tok \in Nat /\ calls[c].retried \in BOOLEAN
    BY DEF TypeOK, CallType, Token
  <2>a. \A n \in Nat : DatedCall(Quiet, n)
    BY DEF DatedCall, Quiet
  <2>1. CASE UNCHANGED <<store, calls, issued>>
    BY <2>1
  <2>2. CASE SignOut
    BY <2>0, <2>2 DEF SignOut, Cleared
  <2>3. CASE LoggedIn
    BY <2>0, <2>3 DEF LoggedIn, Issue, DatedCall
  <2>4. ASSUME NEW where \in {"login", "app"}, Reload(where) PROVE Dated'
    BY <2>0, <2>a, <2>4 DEF Reload
  <2>5. ASSUME NEW c \in Calls, Send(c) PROVE Dated'
    <3>. DEFINE r == [Sent(c, store.access) EXCEPT !.first = store.access]
    <3>1. r.at = "sent" /\ r.tok = store.access /\ r.first = store.access /\ ~r.retried
      BY <2>0, <2>5, SentCall DEF Send, DatedCall
    <3>2. DatedCall(r, issued)
      BY <2>0, <2>5, <3>1 DEF Send, DatedCall
    <3>3. calls' = [calls EXCEPT ![c] = r]
      BY <2>5 DEF Send
    <3>. HIDE DEF r
    <3>. QED  BY <2>0, <2>5, <3>2, <3>3 DEF Send
  <2>6. ASSUME NEW c \in Calls, Answer(c) \/ Fail(c) \/ RetryRefused(c) \/ GiveUp(c)
        PROVE  Dated'
    <3>1. issued' = issued /\ store'.access \in {store.access, 0}
      BY <2>6 DEF Answer, Fail, RetryRefused, GiveUp, Cleared
    <3>2. calls' = [calls EXCEPT ![c] = Quiet]
      BY <2>6 DEF Answer, Fail, RetryRefused, GiveUp
    <3>. QED  BY <2>0, <2>a, <3>1, <3>2
  <2>7. ASSUME NEW c \in Calls, BeginRefresh(c) \/ JoinRefresh(c) PROVE Dated'
    <3>1. PICK p \in Promises : Wait(c, p)
      BY <2>7 DEF BeginRefresh, JoinRefresh, Unused, Pending
    <3>2. UNCHANGED <<store, issued>>
      BY <2>7 DEF BeginRefresh, JoinRefresh
    <3>3. calls'[c].at = "waiting" /\ calls'[c].first = calls[c].first /\ calls'[c].retried
      BY <2>0, <3>1 DEF Wait, CallType
    <3>. QED  BY <2>0, <3>1, <3>2, <3>3 DEF Wait, DatedCall
  <2>8. ASSUME NEW p \in Promises, Refreshed(p) PROVE Dated'
    <3>1. issued' = issued + 1 /\ store'.access = issued + 1 /\ issued + 1 \in Token
      BY <2>0, <2>8 DEF Refreshed, Issue, Token, TypeOK
    <3>2. ASSUME NEW c \in Calls, c \in Waiting(p) PROVE DatedCall(calls'[c], issued + 1)
      <4>1. calls'[c] = Sent(c, issued + 1) /\ calls[c].at = "waiting"
        BY <2>8, <3>2 DEF Refreshed, Resumed, Waiting
      <4>2. calls[c].retried
        BY <4>1 DEF DatedCall
      <4>. QED  BY <2>0, <3>1, <4>1, <4>2, SentCall DEF DatedCall
    <3>3. ASSUME NEW c \in Calls, c \notin Waiting(p) PROVE DatedCall(calls'[c], issued + 1)
      BY <2>0, <2>8, <3>3 DEF Refreshed, Resumed, DatedCall
    <3>. QED  BY <2>0, <3>1, <3>2, <3>3
  <2>9. ASSUME NEW p \in Promises, RefreshFails(p) PROVE Dated'
    BY <2>0, <2>a, <2>9 DEF RefreshFails, Dropped, Cleared
  <2>. QED
    BY <2>1, <2>2, <2>3, <2>4, <2>5, <2>6, <2>7, <2>8, <2>9
    DEF Next, vars, Expire, Redirect, LoginFails, Submit
<1>. QED  BY <1>1, <1>2, SessionTyped, SharedRefresh, PTL DEF Spec
-----------------------------------------------------------------------------
(* Who is signed in.                                                       *)

\* While a patient user signs in nothing of an earlier session is left, a
\* refresh under way is for the tokens of the store, and every request that is
\* out was sent in the name of the store.
Alone ==
  /\ loggingIn # NoUser => page = "login" /\ (patient => JustLoaded)
  /\ patient => \A p \in Pending : store.access # 0 /\ promises[p].rt = store.refresh
  /\ patient /\ store.access # 0 =>
       \A c \in Calls : calls[c].at = "sent" => owner[calls[c].tok] = store.who
  /\ Coherent

\* Signing out waits for the refresh and signing in for a page just loaded, so
\* no answer of one session reaches the next.
LEMMA AloneInvariant == Spec => []Alone
<1>1. Init => Alone
  BY DEF Init, Alone, Coherent, Pending, NoPromise, Quiet, Cleared
<1>2. ASSUME TypeOK, Shared, Dated, Alone, [Next]_vars PROVE Alone'
  <2>. USE <1>2, AuthAssumption DEF Alone, Coherent
  <2>0. /\ calls \in [Calls -> CallType] /\ promises \in [Promises -> PromiseType]
        /\ issued \in Nat /\ store \in StoreType /\ store.access \in Nat
        /\ owner \in [1 .. MaxTokens -> Someone]
        /\ refreshing \in Promises \union {0}
    BY DEF TypeOK, CallType, PromiseType, StoreType, Token
  <2>a. loggingIn # NoUser /\ patient =>
          Pending = {} /\ shown = NoUser /\ \A c \in Calls : calls[c].at = "idle"
    BY DEF JustLoaded, Shared, Pending
  <2>b. Cleared.access = 0
    BY DEF Cleared
  <2>1. CASE UNCHANGED vars \/ Expire
    BY <2>1 DEF Expire, vars, Pending, JustLoaded
  <2>2. CASE Redirect
    BY <2>2 DEF Redirect, Pending, JustLoaded
  <2>3. CASE SignOut
    BY <2>2, <2>3, <2>b DEF SignOut, Pending, JustLoaded
  <2>4. CASE LoggedIn
    <3>1. issued + 1 \in 1 .. MaxTokens /\ owner'[issued + 1] = loggingIn
      BY <2>0, <2>4 DEF LoggedIn, Issue, TypeOK, Token
    <3>. QED  BY <2>0, <2>4, <2>a, <3>1 DEF LoggedIn, Pending
  <2>5. CASE LoginFails
    BY <2>5 DEF LoginFails, Pending
  <2>6. ASSUME NEW u \in Users, Submit(u) PROVE Alone'
    BY <2>6 DEF Submit, Pending, JustLoaded
  <2>7. ASSUME NEW where \in {"login", "app"}, Reload(where) PROVE Alone'
    BY <2>7 DEF Reload, Pending, NoPromise, Quiet
  <2>8. ASSUME NEW c \in Calls, Send(c) PROVE Alone'
    <3>. DEFINE r == [Sent(c, store.access) EXCEPT !.first = store.access]
    <3>1. r.tok = store.access
      BY <2>0, SentCall DEF TypeOK
    <3>2. calls' = [calls EXCEPT ![c] = r] /\ store.access # 0 /\ loggingIn = NoUser
      BY <2>8 DEF Send
    <3>3. UNCHANGED <<store, promises, refreshing, page, loggingIn, shown, owner, patient>>
      BY <2>8 DEF Send
    <3>4. patient => owner[store.access] = store.who
      BY <3>2
    <3>. HIDE DEF r
    <3>. QED  BY <2>0, <3>1, <3>2, <3>3, <3>4 DEF Pending
  <2>9. ASSUME NEW c \in Calls, Answer(c) PROVE Alone'
    BY <2>0, <2>9, <2>a DEF Answer, Pending, Quiet
  <2>10. ASSUME NEW c \in Calls, Fail(c) \/ RetryRefused(c) PROVE Alone'
    <3>1. /\ calls' = [calls EXCEPT ![c] = Quiet] /\ calls[c].at = "sent"
          /\ UNCHANGED <<store, promises, refreshing, page, loggingIn, shown, owner, patient>>
      BY <2>10 DEF Fail, RetryRefused, Unauthorized
    <3>2. \A d \in Calls : calls'[d].at = "sent" => calls'[d] = calls[d]
      BY <2>0, <3>1 DEF Quiet
    <3>. QED  BY <2>a, <3>1, <3>2 DEF Pending
  <2>11. ASSUME NEW c \in Calls, BeginRefresh(c) PROVE Alone'
    <3>1. PICK p \in Promises :
            /\ promises' = [promises EXCEPT ![p] = [at |-> "pending", rt |-> store.refresh]]
            /\ Wait(c, p)
      BY <2>11 DEF BeginRefresh, Unused
    <3>2. /\ UNCHANGED <<store, page, loggingIn, shown, owner, patient>>
          /\ Pending = {} /\ store.refresh # NoUser /\ calls[c].at = "sent"
      BY <2>0, <2>11 DEF BeginRefresh, Unauthorized, Shared, Pending
    <3>3. Pending' = {p} /\ promises'[p].rt = store.refresh
      BY <2>0, <3>1, <3>2 DEF Pending
    <3>4. patient => store.access # 0 /\ loggingIn = NoUser
      BY <2>a, <3>2 DEF Cleared
    <3>5. \A d \in Calls : calls'[d].at = "sent" => calls'[d] = calls[d]
      BY <2>0, <3>1 DEF Wait, CallType
    <3>. QED  BY <3>2, <3>3, <3>4, <3>5
  <2>12. ASSUME NEW c \in Calls, JoinRefresh(c) PROVE Alone'
    <3>1. \A d \in Calls : calls'[d].at = "sent" => calls'[d] = calls[d]
      BY <2>0, <2>12 DEF JoinRefresh, Wait, CallType
    <3>. QED  BY <2>12, <2>a, <3>1 DEF JoinRefresh, Unauthorized, Pending
  <2>13. ASSUME NEW c \in Calls, GiveUp(c) PROVE Alone'
    <3>1. Pending = {} /\ Pending' = {}
      BY <2>0, <2>13 DEF GiveUp, Shared, Pending, Unused, PromiseType
    <3>. QED  BY <2>13, <2>a, <2>b, <3>1 DEF GiveUp, Unauthorized
  <2>14. ASSUME NEW p \in Promises, Refreshed(p) PROVE Alone'
    <3>1. p \in Pending /\ Pending' = {}
      BY <2>0, <2>14 DEF Refreshed, Shared, Pending, NoPromise
    <3>2. /\ issued + 1 \in 1 .. MaxTokens /\ issued + 1 \in Token
          /\ owner' = [owner EXCEPT ![issued + 1] = promises[p].rt]
          /\ store'.access = issued + 1 /\ store'.refresh = promises[p].rt
          /\ store'.role = promises[p].rt /\ store'.who = store.who
          /\ UNCHANGED <<page, loggingIn, shown, patient>>
      BY <2>0, <2>14 DEF Refreshed, Issue, TypeOK, Token, StoreType
    <3>3. patient => promises[p].rt = store.who /\ loggingIn = NoUser
      BY <2>a, <3>1
    <3>4. ASSUME patient, NEW c \in Calls, calls'[c].at = "sent"
          PROVE  owner'[calls'[c].tok] = store.who
      <4>1. CASE c \in Waiting(p)
        BY <2>0, <2>14, <3>2, <3>3, <3>4, <4>1, SentCall DEF Refreshed, Resumed
      <4>2. CASE c \notin Waiting(p)
        BY <2>0, <2>14, <3>1, <3>2, <3>4, <4>2 DEF Refreshed, Resumed, Dated, DatedCall
      <4>. QED  BY <4>1, <4>2
    <3>. QED  BY <2>0, <3>1, <3>2, <3>3, <3>4
  <2>15. ASSUME NEW p \in Promises, RefreshFails(p) PROVE Alone'
    <3>1. p \in Pending /\ Pending' = {}
      BY <2>0, <2>15 DEF RefreshFails, Shared, Pending, PromiseType
    <3>. QED  BY <2>15, <2>a, <2>b, <3>1 DEF RefreshFails
  <2>. QED
    BY <2>1, <2>2, <2>3, <2>4, <2>5, <2>6, <2>7, <2>8, <2>9, <2>10, <2>11,
       <2>12, <2>13, <2>14, <2>15 DEF Next
<1>. QED  BY <1>1, <1>2, SessionTyped, SharedRefresh, TokensDated, PTL DEF Spec

-----------------------------------------------------------------------------
\* The tab has at most one refresh under way and, for a patient user, shows one
\* person: client.ts and stores/auth.ts, for any number of requests.
THEOREM SessionIsOne == Spec => []OneSession
<1>1. TypeOK /\ Shared /\ Alone => OneSession
  BY OneAtATime DEF OneSession, Alone
<1>. QED  BY <1>1, SessionTyped, SharedRefresh, AloneInvariant, PTL

\* A request goes out again only with a token newer than the one refused
\* (client.ts:26), so a refused token is never tried twice.
THEOREM RetriesAreNewer == Spec => []RetryIsNewer
<1>1. TypeOK /\ Dated => RetryIsNewer
  BY DEF TypeOK, Token, Dated, DatedCall, RetryIsNewer
<1>. QED  BY <1>1, SessionTyped, TokensDated, PTL

\* Tokens disappear when the user signs out or a refresh has failed, and never
\* because of a request that is refused (client.ts:28-33).
THEOREM SignedInUntil == Spec => SignedInUntilRefreshFails
<1>. DEFINE Lost == store.access # 0 /\ store'.access = 0
            Excused == (page = "app" /\ page' = "login") \/ Rejected' # {}
<1>1. ASSUME TypeOK, Shared, [Next]_vars PROVE [Lost => Excused]_vars
  <2>. SUFFICES ASSUME Lost PROVE Excused  OBVIOUS
  <2>. USE <1>1, AuthAssumption DEF Cleared, Rejected
  <2>0. promises \in [Promises -> PromiseType] /\ store.access \in Nat /\ issued \in Nat
    BY DEF TypeOK, PromiseType, Token
  <2>1. CASE SignOut
    BY <2>1 DEF SignOut
  <2>2. ASSUME NEW c \in Calls, GiveUp(c) PROVE Excused
    <3>1. CASE refreshing # 0 /\ UNCHANGED <<promises, refreshing>>
      <4>1. refreshing \in Rejected
        BY <2>0, <2>2, <3>1 DEF GiveUp, Shared, Pending
      <4>. QED  BY <3>1, <4>1
    <3>2. ASSUME NEW p \in Promises, promises' = [promises EXCEPT ![p].at = "rejected"]
          PROVE  Excused
      BY <2>0, <3>2 DEF PromiseType
    <3>. QED  BY <2>0, <2>2, <3>1, <3>2 DEF GiveUp, Unused, Shared, Pending
  <2>3. ASSUME NEW p \in Promises, RefreshFails(p) PROVE Excused
    BY <2>0, <2>3 DEF RefreshFails, PromiseType
  <2>4. LoggedIn \/ (\E p \in Promises : Refreshed(p)) => store'.access = issued + 1
    <3>. store \in StoreType
      BY DEF TypeOK, StoreType
    <3>1. CASE LoggedIn
      BY <3>1 DEF LoggedIn
    <3>2. ASSUME NEW p \in Promises, Refreshed(p) PROVE store'.access = issued + 1
      BY <3>2 DEF Refreshed, StoreType
    <3>. QED  BY <3>1, <3>2
  <2>5. store' = store \/ SignOut \/ LoggedIn \/ (\E c \in Calls : GiveUp(c))
        \/ (\E p \in Promises : Refreshed(p) \/ RefreshFails(p))
    BY DEF Next, vars, Expire, Redirect, LoginFails, Submit, Reload, Send, Answer,
           Fail, BeginRefresh, JoinRefresh, RetryRefused
  <2>. QED  BY <2>0, <2>1, <2>2, <2>3, <2>4, <2>5
<1>. QED
  BY <1>1, SessionTyped, SharedRefresh, PTL DEF Spec, SignedInUntilRefreshFails
==============================================================================
