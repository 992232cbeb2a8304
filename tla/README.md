# HoneyBee-Enhanced: a verification development

HoneyBee manages honeypots on many machines. `honeybee-core` serves a REST API
and a dashboard, keeps a MySQL database and listens for nodes on TCP; on each
machine a `honeybee-node` agent connects to the core, receives tasks (install,
start, stop, ... a pot) and reports results, statuses and events. Operators work
with the dashboard, a React program with a cache of the server's answers, polls,
sockets and requests that answer in any order.

These TLA+ modules model the parts of it in which goroutines, processes, a
database and a browser have to agree, state what they promise, check it with TLC
on small instances and prove most of their safety properties with TLAPS.

## Inventory

### Core and node

| Component | State | Operations | Hard behaviour | Modules |
|---|---|---|---|---|
| Node session registry, `core/internal/nodeserver` | `Server.sessions`, one handler goroutine per connection | authenticate, publish, register, read loop, `removeSession` | handlers of one node overlap; the cleanup runs after the lock is released; half-open connections | `NodeLink` |
| Task queue, `store/tasks.go`, `api/handlers/deployments.go`, `commands.go` | rows of `tasks` | `queueAndSend`, `FlushPending`, `MarkTaskSent`, `ResetSentTasks...`, results | two writers per connection; crash between two statements; lost and duplicate deliveries | `NodeLink`, `DurableTask` |
| Agent link, `node/internal/agent` | connection, one goroutine per task | dial, authenticate, receive, heartbeat, result, redial | results dropped when the link is down; duplicates run concurrently | `NodeLink` |
| Honeypot manager, `node/internal/honeypot` | directories, manifest files, `manifest`, `procs`, `stopping` | Install, Start, Stop, Restart, Remove, monitor, `loadAll` | only the maps are locked; monitors run late; the agent dies in the middle | `PotManager` |
| Deployment records, `store/deployments.go`, `handlers/deployments.go`, `dispatcher.go` | rows with a status and a pot id | create, action, delete, cleanup, status messages, reconciliation | statuses written out of order; stale lists; reuse of pot ids | `Deployment` |

### Dashboard

| Component | State | Hard behaviour | Modules |
|---|---|---|---|
| Session of a tab, `api/client.ts`, `stores/auth.ts` | persisted tokens, one shared refresh promise, requests under way | many 401s at once, retries, sign-out during a refresh | `AuthClient` |
| Drawing editor, `TopologyPage.tsx` | drawing, selection, history, clipboard, drafts, a running import | identifiers kept across deletions and undo; an await in the middle; a bounded history | `TopologyEditor`, `Timeline` |
| Geometry, import and advice of the editor | positions, pins, wires | boundaries of shares, rules that join nodes | `TopologyShapes` |
| Node list, node page, deployment dialog, tabs, metrics | cached lists, selection, dialogs, optimistic badges, timers | polls against requests, answers out of order, other clients | `NodesPage`, `NodeDetailPage`, `NodeDeployPanel`, `NodeTabs`, `NodeMetricsPanel` |
| Users and roles | cached lists, dialogs, bulk deletion | the page is the only guard of the last administrator; roles are checked and written apart | `UsersPage`, `RolesTab` |
| Events, audit log, alerts | filters, pagers, lists | pages that outlive the list they were chosen for; lists older than an acknowledgement | `EventsPage`, `AuditLogPage`, `AlertsPage`, `Pager` |
| Front page with the map of the fleet | nodes and deployments polled apart, layout loop | two polls interleave, each arrival may start a layout while one runs | `DashboardPage`, `AssetGraph` |
| Analytics | overviews per period | eight queries at different moments, some of which fail | `AnalyticsPage` |
| Attack map and its socket, `useWebSocket.ts` | seed, live events, feed, sockets | messages that replace each other, tokens that change, caps | `AttackMapPage` |
| Pot store, Telegram bots, system check, frame with palette | favourites, dialogs, switches, thresholds | dialogs of a request that was closed, switches shown early, two sets of thresholds | `PotStorePage`, `BotsPage`, `SystemCheckPage`, `Frame` |

How they meet: an HTTP handler inserts a task row and, if the node has a session,
writes the frame on that session's connection; the handler goroutine of the
connection reads results, statuses and heartbeats and writes them to the
database; the agent turns each task into a goroutine that calls the honeypot
manager and sends what came of it. The dashboard reads the tables by polling and
by invalidating its cache after a request; every request goes through the
interceptors of the session; the router mounts one page at a time.

What makes each part correct: a node has at most one session that is served and
the registry points at it; a task that was created is answered, is answered only
if it ran, and stays answered; the status column follows the session; a pot runs
at most once, can be stopped when it runs, and is installed exactly when it is
recorded; a deployment row ends up with what the node has; a tab is one user's
and renews its tokens once; undo and redo walk one line; what a page shows
agrees with itself and with what the server last said, and no order of clicks
and answers does what nobody asked for.

## Plan and modules

In the order of importance, which is the order they were written in:

1. `NodeLink` implements `DurableTask`; proofs in `NodeLink_proofs`.
2. `PotManager`; proofs in `PotManager_proofs`.
3. `Deployment`: rows against the pots of a node, composed of what is visible of
   1 and 2; proofs in `Deployment_proofs`.
4. `AuthClient`; proofs in `AuthClient_proofs`.
5. `TopologyEditor` implements `Timeline`; proofs in `TopologyEditor_proofs`.
   `TopologyShapes` has what it computes; proofs in `TopologyShapes_proofs`.
6. `Console` composes the seventeen pages. They share the record `view`, the
   state of the page that is mounted; each page is a module with one action per
   handler, callback or arrival, and `view.page` is its name. `Pager` is used by
   two of them, `AssetGraph` by the front page. Proofs in `Console_proofs` (what
   clicks and answers do) and, upon it, `ConsoleScreens_proofs` (what is shown).

Each is checked through an `MC` module. What would come next is listed under
"Not modelled".

| Run | Module | Properties |
|---|---|---|
| `link` | `NodeLink` | `TypeOK`, `OneOpenSession`, `SessionHasHandler`, `QueueSpec`, `LinkRecovers` |
| `heals` | `NodeLink` | `HeartbeatHeals`, `StatusIsTrue` |
| `delivery` | `NodeLink` | `EveryTaskAnswered`, `NothingForgotten` |
| `pot_pots` | `PotManager` | `TypeOK`, `TrackedIsMonitored`, `OneTrackedProcess`, `ExitsAreJudged`, `InstalledHasFiles`, `RemovedStaysRemoved`, `InstallCanBeRepeated` |
| `pot_ends` | `PotManager` | `StoppedEnds`, `CommandsEnd` |
| `deploy_converges` | `Deployment` | `RowsConverge` |
| `deploy_prompt` | `Deployment` | `NeverStuck`, `RemovalWasRequested`, `RemovalEnds` |
| `session` | `AuthClient` | `OneSession`, `RetryIsNewer`, `SignedInUntilRefreshFails`, `EveryCallSettles` |
| `drawing` | `TopologyEditor` | `Sound`, `RemovedCanComeBack`, `OneLine` (the refinement of `Timeline`) |
| `shapes` | `TopologyShapes` | `DrawnRight`, `ImportIsOneNetwork`, `MovesAsExpected` |
| `console` | `Console` | `ScreensAreTrue`, `RowsAddUp`, `NothingWaitsInVain`, `WhatMustStayStays`, `BulkIsSeen`, `NothingGoesBack` |
| `watch` | `Console` | `StoreIsTrue`, `EveryHitIsSeen` |

Every action of every module is taken in one of them. The properties of `console`
are conjunctions of the pages' own, gathered by the kind of promise in
`MCConsole`; the parts are named, with a comment each, in the page's module.

## NodeLink

The link between the core and one node. Nodes share nothing but the tables' rows,
which are keyed by node, so one node is enough.

| Variable | In the code |
|---|---|
| `coreUp` | the core process and its node listener |
| `sess` | `Server.sessions[nodeID]` |
| `pc[c]`, `hand[c]` | the `handleConn` goroutine of connection `c`, and the envelope it has read and not yet dispatched |
| `flushPc[c]`, `flushQ[c]` | the `FlushPending` goroutine started by `handleConn`, and its result set |
| `api[t]`, `apiConn[t]` | the HTTP handler that queues `t` (`queueAndSendReturnID`, `SendNodeCommand`) and the session it holds |
| `nodeUp`, `task[t]` | `nodes.status = 'online'` and `tasks.status` |
| `coreOpen`, `nodeOpen`, `down`, `up` | the two ends of a TCP connection and the frames in flight |
| `npc`, `nconn`, `exec[t]` | the agent's connection state and the goroutines of task `t` |
| `stale` | history: the last to write `nodes.status` was a handler that a newer session had replaced, or a cleanup behind one |
| `ran`, `faults` | history and a bound |

One action is what the code does between two points where others can interfere:
one SQL statement, one critical section of `Server.mu`, one frame. The auth
result is the exception in the code too: it is written outside
`Session.writeMu`, as a length and a body, so it takes two actions
(`SendAuthLength`, `SendAuthBody`) and a frame that falls between them becomes
`JunkFrame`. Frames carry their kind and their task; log lines, metrics and
events are left out because nothing here depends on them. A statement that fails
is modelled where the code can meet it without the database failing: the
request's context is cancelled (`APIMarkFails`). Connections are reused once both
ends are done with them, so a small set stands for any number of reconnections.

`Overlap`, `LateWriter` and `Beats` are TRUE in the program. FALSE restricts the
timing of the environment: no dial while an older handler runs; no writer left on
a connection that is cleaned up; no heartbeats, which only write `nodeUp` and
would otherwise multiply the states. The registry, the refinement of the queue and
the status column are checked without restriction; that every task is answered is
not true of the program without one (see "Where code and words part"), and
`delivery` checks it where neither dials nor writers overlap.

The status column does lie at times, and `StatusIsTrue` says exactly when: only
while `stale` holds, that is after a write by a handler that is no longer the
registered one, and until the registered one writes again. Such a write is an
offline mark that comes after the lock was released (`server.go:316-322`), or the
registration or heartbeat of a handler whose session was replaced
(`store/nodes.go:143` asks for no session), which may leave a node that is gone
shown online until it connects again. That a stale offline mark is repaired by the
next heartbeat is `HeartbeatHeals`.

Task rows are never deleted here; in the code they go with their deployment row
(`ON DELETE CASCADE`), and a failed task marks that row. Both are in `Deployment`.

### Runs

| Run | Bounds | Shows |
|---|---|---|
| `link` | 2 connections, 1 task, 1 fault | the registry and the durable queue of the program as it is; after the fault one served session remains |
| `heals` | 3 connections, no tasks, 2 faults, heartbeats | the column tells the truth but for writes of replaced handlers, and a stale offline mark is overwritten |
| `delivery` | 1 connection, 1 task, 3 faults; no overlap, no late writer | no task is lost, and an open one is always with somebody |

Two connections are what every race of the registry needs: the handler that is
replaced and the one that replaces it; `heals` has a third, for a cleanup that ends
two sessions later. Where nothing may overlap, one is enough: a
connection is used again when both ends are done with it. Task rows are
independent of each other, so one task shows what can happen to any. One fault in
`link` is a crash of either side, a lost or a half-open connection; the safety
properties of that run are proved for any number (below).

A task written between the two halves of the auth result, or before it, makes the
agent drop the connection and dial again (`agent.go:113`, "unexpected first
frame"), from which `LinkRecovers` shows it recovers.

### Fairness

Handler, flush and request goroutines, and the agent's reader, are scheduled by
the Go runtime: weak fairness for each. The agent redials for ever
(`Agent.Run`), a core that died is started again (`docker-compose.yml`,
`restart: unless-stopped`), task goroutines end (each command is a bounded number
of calls), heartbeats have a ticker. No fairness is assumed for creating tasks,
for faults, or for a read deadline: a half-open connection may last for ever.

### Proofs

`NodeLink_proofs` proves, for any sets of connections and tasks, any number of
faults and every value of the timing constants:

- `TypeCorrect`: `TypeOK`, strengthened by `AgentConn` and `HeldConn` (an agent
  that is not down and a request that is about to write have a connection), without
  which the writes they do could not be typed.
- `OneSessionServed` and `RegistryIsCurrent`: the two registry invariants are
  inductive together. When a handler publishes its connection the only other
  published connection that can still be open is the registered one, and that one
  is closed in the same critical section.
- `StatusTellsTruth`: `StatusIsTrue`, with every overlap the program has.
  `StatusKept` says, of a column that is not stale, that it is online from the
  registration of the handler that owns the session, and that it is offline when
  nobody owns it, unless a cleanup has yet to write so. The property speaks of
  sessions that are served and of connections that are all free, and does not say
  who owes the next write; the proof needs that, with `TypeOK` and `Registry`.

Its second part proves `LinkImplementsQueue`: `NodeLink` implements
`DurableTask`, with pending and sent both read as "open". The invariant `Carried`
says where an answer can be: a result on the wire, in a handler's hand or in the
table belongs to a task that ran, and a task that runs, is queued, is selected by
a flush or is on its way down has a row. It is stated as the type of the queues
(`down[c]` is a sequence of `GoodDown` frames), so that one lemma about appending
and removing a frame serves every action; since rows and runs only accumulate
(`RowsStay`, `RunsStay`), what is good stays good. A step then creates a row,
starts a task, records a first answer, or is a stutter: a mark, a requeue, a
duplicate answer.

`NothingIsForgotten` proves `NothingForgotten`, where neither
dials nor writers overlap (`Overlap` and `LateWriter` FALSE): a task that waits
for an answer on a connection in use is with somebody. `Lone` says that at most
one connection is in use and that its handler owns the session from the moment it
has published it. What the property lists is
not inductive, because it does not say that a task that is not with anybody is
pending before its connection is served. `Settled` adds it, as four statements each
inductive after the one before: a connection has writers only while its handler is
published or cleans up (`Writing`), the node's end of it is open while the agent
holds it (`NodeEnd`), the agent waits for the auth result until the handler serves
(`Greeting`), and between the clean-up of one connection and the publication of the
next no row says "sent" (`Requeued`).
`ServedStep` then follows one task on one connection through each action.

Assumptions: `LinkAssumption` (the constants have their types, `NoConn` is not a
connection), and for `NothingIsForgotten` the two restrictions named.

## PotManager

| Variable | In the code |
|---|---|
| `files[p]`, `mfile[p]` | the install directory of pot `p` and its `pot_manifest.json` |
| `manifest`, `procs`, `stopping` | the three maps of `Manager` |
| `pc[w]`, `pot[w]`, `kind[w]`, `target[w]` | a task goroutine of the agent inside `handleTask` |
| `of`, `alive`, `mon`, `asked`, `crashed` | the processes: which pot, running or not, with a monitor goroutine that has not recorded the exit, taken by a Stop, ended by an error of their own |
| `report[g]` | what `ExitFn` told the core |
| `met[p]`, `astray` | history: what befell pot `p` since its last fresh install; the processes that shared their pot with one whose exit was late |
| `restarts` | a bound |

`Install` runs without a lock, so each of its system calls is a step; the
type-specific set-up is one step that succeeds or fails, because all of it does
the same thing with a failure (`RemoveAll`). `Start` is one critical section.
`Stop` is a critical section and a wait that ends with the process or with its
kill; `Restart` and `Remove` go on from there. A monitor records the exit some
time after the process ended. `AgentRestart` covers `restart_node`, a crash and
an update alike: memory is lost, `loadAll` reads what is on disk.
Failures that change nothing (a launch that fails, "not installed") are the
stuttering alternative of `Start`.

Everything the environment may do is in the model, always: commands of one pot
overlap (the agent starts a goroutine per task, and the core delivers a task again
after a reconnection), a command begins before the last exit is recorded, pots
outlive the agent or do not (they do on Windows and with the `nohup` installation,
systemd kills the process group), each step on the disk fails, and a manifest file
is torn by a full disk or by the death of the agent. Some of the promises in the
comments break under this. The properties say so by name: a history writes down
which pots and processes were affected, and a property excepts these and no others.

| Written down | When |
|---|---|
| `astray` (member `"late"` of `Watched`) | a process was started while the monitor of an earlier one of the pot had yet to record its exit: both |
| `"overlap"` in `met[p]` | an install ran beside another, or a removal beside any command of `p` |
| `"disk"` | the disk failed a write or a removal, or the agent died, and a manifest file was left |
| `"removed"` | the pot was reported removed; only this one is no mishap |

`Watched` says which of these a run writes down. It restricts nothing: a run
without them merely has fewer states to tell apart. A fresh install forgets what
befell the pot before.

| Run | Bounds | Shows |
|---|---|---|
| `pot_pots` | 1 pot, 2 processes, 2 goroutines, all commands, 1 restart of the agent, all four circumstances | what is left of each promise when everything may overlap and fail |
| `pot_ends` | 1 pot, 2 processes, 2 goroutines; install and remove | commands end, stopped pots end |

One pot is enough because pots share only the maps, which are keyed by pot. Two
processes of a pot are the old and the new one, two goroutines the command that is
overtaken and the one that overtakes it. Process slots are reused when process and
monitor are gone, so the number of launches is not bounded. Goroutines and process
slots are interchangeable, and `pot_pots`, which has no temporal property, uses
that as symmetry. An install starts the pot it finds installed, so the two
commands of `pot_ends` reach every step of the five.

Fairness: goroutines and monitors are scheduled. Nothing makes a pot end by
itself; a stopped one ends because `Stop` kills it after ten seconds.

### Proofs

`PotManager_proofs` proves the seven properties of `pot_pots` for any pots,
processes, goroutines, commands and number of restarts, with every overlap and
every failure there is. The only assumption of a theorem is that what its property
excepts is written down:

| Theorem | Property | Excepts |
|---|---|---|
| `ManagerTypeCorrect` | `TypeOK` | nothing |
| `TableIsMonitored` | `TrackedIsMonitored` | nothing |
| `OneCopyOfEachPot` | `OneTrackedProcess` | processes that are astray |
| `ExitsAreTold` | `ExitsAreJudged` | processes that are astray |
| `RecordedIsComplete` | `InstalledHasFiles` | pots with an overlap |
| `InstallIsRepeatable` | `InstallCanBeRepeated` | pots whose manifest the disk or a death left behind |
| `RemovedIsRemoved` | `RemovedStaysRemoved` | pots that met anything but their removal, and processes that are astray |

The typing needs `Engaged`: a goroutine that is not idle has a pot, and one inside
`Stop` has a command that says what follows. None of the others is inductive:

- `Served` (for the first two exceptions): of two monitored processes of one pot
  both are astray, the stop flag of a pot belongs to the one process a `Stop` has
  claimed (`Monitored`), and a `Stop` that waits has claimed a process of its own
  pot (`Awaited`). A monitor that records an exit then takes away what is its own.
- `Noted`: where two goroutines are at work on a pot and one of them removes it, or
  both install it, the overlap is written down. So in a pot without one, an install
  and a removal are alone (`AloneOnDisk`).
- `OnDisk` says what the directory of such a pot holds at each stage of an install
  or a removal (`Stage`), and that a whole manifest stands in a complete directory.
- `Kept`: a manifest file belongs to a record, or to a goroutine that is about to
  make or erase one. It needs nothing of `Noted` and holds under every overlap.
- `Cleared` says that a goroutine that removes a pot by itself has left nothing in
  the table after it took the process, and nothing running after it waited;
  `Forgotten`, that of a pot that was removed nothing is left that could come back,
  also at the next start of the agent.

## Deployment

| Variable | In the code |
|---|---|
| `row[p]`, `rowId[p]`, `lastId` | the row of `deployments` with pot id `p`: status, primary key |
| `order[t]` | the install that `CreateForNode` has yet to queue: it has inserted the row, and may fail or die before the task |
| `task[t]`, `mark[t]` | an open row of `tasks` with its `deploy_id`; the second statement of a request, which is still to come |
| `offline` | a session that ended and whose `MarkNodeDeploymentsOffline` is still to come |
| `link`, `sent`, `news` | the connection, the tasks handed over on it, the frames to the core |
| `work[w]` | a task goroutine inside `handleTask`: between the manager and each frame it sends it can be overtaken |
| `list` | `sendInstalledList` between its reading and its sending |
| `exits[p]` | monitor goroutines that have yet to call `ExitFn` |
| `inst[p]` | what the manager of the node really has |
| `met[p]` | history: what befell the row of `p` |
| `faults`, `tasks` | bounds |

This is the composition of the two modules above, each reduced to what the other
side can see. Of `NodeLink` remain: frames to the core in order, lost with the
connection; an open task handed over once per connection. Of `PotManager`
remains one step per operation, with its outcomes. A disconnection may come
between any two frames, so frames that the core still reads from a dead
connection are frames that were read before it died.

`Reporting` is TRUE in the program; FALSE leaves out the installed list, to see what
the statuses do without its help. Everything else the environment may do is always
there. As in `PotManager`, a history writes down what befell a row, `Watched` says
which of it a run writes down, and a property names the rows it excepts:

| In `met[p]` | When |
|---|---|
| `"asked"` | the operator asked for this row to go |
| `"unqueued"` | the request that made the row ended before it queued the install (`deployments.go:82`, `:103`): the statement failed, or the core died |
| `"overtaken"` | a start wrote "installing" after the task had begun (`deployments.go:137-142`) |
| `"taken"` | the row took its pot id while the removal of an older row was under way |
| `"split"` | the connection was lost between the status of a task and its result |

| Run | Bounds | Shows |
|---|---|---|
| `deploy_converges` | 1 pot, 1 goroutine, 2 tasks, 1 fault; install with start, start, stop, remove, configure | the installed list brings row and node together about what runs |
| `deploy_prompt` | 1 pot, 1 goroutine, 3 tasks, 1 fault, no lists; install, start, remove | which rows can stay pending or installing, go away unasked, or stay although asked to go: those named, and no others |

A row is keyed by its pot id and statements about one row do not touch another
(the list treats each row alike), so one pot is enough; `Cleanup` is the only
action with several rows. Two tasks collide as an install and a command that
overtakes it; three are needed for a removal between two records of the same pot
id. One goroutine at a time in the two runs: order between tasks is still
free, because tasks are taken up in any order, and statuses still overtake each
other through exits, lists and late writes. A restart of a pot is to a row what a
start is, so neither run has the command; what it does on the node is checked in
`pot_pots`.

A row that says "stopped" need not have a pot: an install that failed, followed by
a stop, leaves that.

Fairness is that of the link; in addition the agent reports its list again and
again (a ticker of five minutes). `deploy_converges` does not assume that tasks
are delivered; `deploy_prompt` does, which is what `EveryTaskAnswered` of `NodeLink`
grants.

### Proofs

`Deployment_proofs` proves `DeploymentTyped`, for any pots, goroutines, tasks and
faults and whatever is written down, and `RemovalsWereRequested`, the action
property `RemovalWasRequested`, where `"asked"` and `"taken"` are written down. A
row can go away by a status frame long after the request, so the invariant
`RemovalsAreDue` follows a removal on its way: wherever one is, in the queue, with
a goroutine of the agent or in a frame to the core, the row of its pot, if there is
one, was asked to go or was made while that removal was under way (`Due`). It
survives a step because what befell a row stays written down and rows only go
(`RowsOnlyGo`), and because a removal only moves (`RemovalsMove`, `DueStays`); a new
row is the exception, and it is due if any removal is on its way, which is what
`"taken"` records. The typing needs `WorkTyped`: a goroutine that is about to tell a
status has one.

## AuthClient

One browser tab: the persisted store, the interceptors of the REST client and the
pages as far as they sign in and out. The server is what the tab can see of it: it
signs tokens, which expire, and refuses those.

| Variable | In the code |
|---|---|
| `store` | `access`, `refresh`, the user and the role of `stores/auth.ts`, as `localStorage` keeps them |
| `calls[c]` | a request: where it is, the token it was sent with, whether it was sent again, the promise it awaits |
| `promises[p]`, `refreshing` | what calls of `refresh()` returned, and the module's variable of `client.ts` |
| `page`, `loggingIn`, `shown` | the route, the sign-in under way, the user of the cached `/auth/me` |
| `owner`, `issued`, `fresh` | the server: whose a token is, how many there are, the oldest that is valid |
| `patient` | whether this user signs out only between refreshes and signs in on a page just loaded |

The handlers of a settled promise run before the next answer of the network, so
settling a refresh and resuming all that waits for it is one step (`Refreshed`,
`RefreshFails`). A sign-out does not clear the promise, and a refresh stores its
tokens whatever happened since. `OneSession` therefore says "one user" of a
`patient` user only; one refresh at a time, newer retries and the end of every
request hold for all.

Run `session`: 2 users, 2 requests, 2 promises, 4 tokens. Two requests are what
meets in one refresh, two promises are the settled one somebody still holds and
the next, and four tokens let a session expire, be renewed, end and be followed by
another user's.

Fairness: the network answers, if only with an error, and promises are settled. It
is assumed neither for expiry nor for the user.

`AuthClient_proofs` proves `SessionIsOne`, `RetriesAreNewer` and `SignedInUntil`
for any users, requests and promises. Three invariants are added one after the
other: `Shared` (a promise that is pending is the module's variable, and who waits
waits for it), `Dated` (the tokens of the store and of the requests were signed, and a request
that went out again has a newer one than at first), `Alone` (for a patient user
whatever is under way is the same user's, and nothing is while he signs in). Assumption: `AuthAssumption`.

## TopologyEditor and TopologyShapes

`TopologyEditor` has the document and what is around it: `drawing`, `selected`,
`selectedIds`, `connectMode`, `connectFirst`, `ctxMenu`, `history`, `future`,
`clipboard` and `savedList` are the state of the component in the source's names;
`captured` is the drawing the closure of a running `importLive` holds. A node is
its identifier and one `Note`, which stands for all that is changed in place:
position, label, pin, address. One action per tool, menu entry, key and arrival.
`careful` says that the user ends a gesture (a wire, a menu, an import) before the
next; the source does not make him.

`Timeline` is what undo and redo promise: one line of versions with a cursor.
`OneLine` is the refinement, with history, drawing and future put together as the
line. An edit that is not recorded (typing, moving, the end of an import) replaces
the version under the cursor, which is a step of `Timeline` of its own. What was saved
before the visit is any set of drawings, but a careful user's are without wires
that end nowhere.

`TopologyShapes` has what the editor computes, as a drawing and the last step taken
on it: a drag with its pull on neighbours, align, distribute, layout, import,
template, and over each drawing the sides of wires, the advice and its score.
The steps of a distribution are rounded as the code rounds them. The pull is 60 % of
a drag one wire away and 22 % two wires away; a drawing that is tried has `Cards`
cards in places that are multiples of 50 (`ShapesAssumption`), so that these are
whole numbers.

| Run | Bounds | Shows |
|---|---|---|
| `drawing` | 3 identifiers, history of 2, 3 edits, wires of 2 types; symmetry over identifiers | any order of tools keeps wires between nodes, the history bounded and one line, and loses nothing but by loading a draft |
| `shapes` | 7 kinds, places 0, 600 and 1200, a live system of 2 hosts with 2 pots | drags respect pins and fade with distance, layouts do not overlap, advice follows the wires, an import is one network |

Three identifiers are a wire's two ends and the node that takes a place; a history
of two with three edits overflows. The kinds of `shapes` have one of every rule of
the advice; the places make every share whole; two hosts with two pots meet every
rule of the import, with and without an analyser. Neither module needs fairness.

### Proofs

`TopologyEditor_proofs` proves the three properties of `drawing` for any
identifiers, notes, types of wires, drafts, length of the history and number of
edits:

- `EditorIsSound`: `Sound`, the type, the bound of the history, what the open menu
  is about, and, for a careful user, that in every drawing he can get back to each
  wire joins two different nodes of it and no two wires the same two. What an undo brings back was on the screen once, so the
  property is about all that is kept (drawing, history, future, drafts, clipboard);
  `EditorInv` adds what a gesture under way refers to: the wire that was begun starts
  at a node of the drawing (`WireBegun`), and while an import waits the drawing is
  the one it captured (`ImportAlone`).
- `RemovedComesBack`: the action property, from the same invariant.
- `EditorKeepsOneLine`: the refinement of `Timeline`. Its line is history, drawing
  and reversed future put together; each lemma of the last part (`LineAmended`,
  `LineUndone`, `LineRedone`, `LineRecorded`) says what one way of changing the
  three does to the line, index by index, and a recorded change also drops the
  oldest version of a full history.

One lemma per operator on drawings (`WithoutDrawing`, `UnionDrawing`,
`RenamedDrawing`, ...) says that it makes a drawing and keeps wires between nodes.
Assumption: `EditorAssumption` (finitely many identifiers and types, one of which
is "link"; `NoId` and `NoDrawing` are neither; a history of at least one).

`TopologyShapes_proofs` proves the three properties of `shapes` for any number of
cards, of any kinds, in any places, and for a live system of any size:

- `DrawingsAreRight`: `DrawnRight`. The layout keeps cards apart and the layers in
  order, because what is below a card has been counted before it (`BelowGrows`,
  `LayoutSeparates`); wires enter by the sides that face each other; the advice is a
  union of parts, each of which asks only which two cards a wire joins
  (`AdviceByEnds`), so turning a wire changes nothing, and wiring a lone card to a
  firewall can only take findings away (`WiringAdvice`, `ScoreIsKept`); the starter
  templates are gone through one by one.
- `ImportsHangTogether`: `ImportIsOneNetwork`. Every imported card is reached from
  the Internet card along at most five wires, by kind of card (`HopReaches`,
  `ImportHangsTogether`).
- `HandMovesAsExpected`: the action property `MovesAsExpected`. What the
  drag takes as one and two wires away are the cards at these distances
  (`HopsAreDistances`); the picked cards are numbered in the order of their places
  (`RankGrows`), so each gap of a distribution is less than one off an equal share
  (`RoundedGap`, `SpreadEvenly`).

`ShapesInv` adds what the step before leaves behind: the drawing is one (finitely
many cards with places, wires between cards), its places are those of the layout
after a layout, an import or a template, and its cards and wires are those of a
template or of a live system. Assumption: `ShapesAssumption`.

## Console

`Mount` gives a page new state (`Mounted`, over what the server may have then) and
`Leave` forgets it; what `localStorage` keeps is in `stored`. Every page is a
module with the part of the server it talks to in its own record: `srv`, `real`,
`deps` are the server's, `list`, `badge`, `listed` what the cache has, `fetch` a
query under way (asked, then read at the server, then shown), `jobs` the requests
under way. Other clients and agents change the server's part in between.

| Module | Its state | Properties of its own |
|---|---|---|
| `NodesPage` | list, filter, selection, dialog, banner, requests | `BulkIsSeen`, `NothingSelectedUnseen` |
| `NodeDetailPage` | status badges, the pending mark | `OneRequestPerPot` |
| `NodeDeployPanel` | rows, dialog with predicted name, log panel | `NamesAreUnique`, `DialogIsAnswered`, `PredictionIsKept` |
| `NodeTabs` | tab, platform, clipboard and its timers, removal | `CopiedIsTrue` |
| `NodeMetricsPanel` | a query per period, refresh with its wait | `RefreshEnds`, `RefreshIsNew` |
| `UsersPage` | list, filter, selection, busy row, dialogs | `AdminStays`, `NeverMyself`, `NoRowStaysBusy`, `PostureAgrees` |
| `RolesTab` | roles, their holders, numbers shown, dialogs | `RoleInUseStays` |
| `EventsPage`, `AuditLogPage` | rows, page, filters | `EventsAreSeen`, `EntriesAreSeen`, `EventButtonsTell`, `AuditButtonsTell` |
| `AlertsPage` | alerts, what was confirmed | `ConfirmedStays` |
| `PotStorePage` | facets, favourites, dialog | `FacetCountsAreTrue`, `FavoritesAreKept`, `SuccessIsTrue` |
| `Frame` | path, palette, menu | `EnterOpensAMatch`, `OneEntryIsMarked` |
| `BotsPage` | cards, editor's copy, tests | `CancelChangesNothing`, `NoTestSpinsForever`, `SwitchStays` |
| `AttackMapPage` | seed, live events, sockets with handlers that outlive them | `OneFeed`, `LiveIsTrue`, `NoHitVanishes`, `EveryHitIsSeen` |
| `SystemCheckPage` | report, verdict, gauges | `BannerIsTrue`, `GaugesAgree`, `BreakdownAddsUp` |
| `DashboardPage` with `AssetGraph` | two polled lists, map, selection, layout frames | `NothingHangsInTheAir`, `HighlightHangsTogether`, `MapAgreesWithNumbers`, `OneLayoutAtATime` |
| `AnalyticsPage` | overviews, the one being composed | `PeriodIsTrue`, `NoEventIsLost` |

Some promises hold only for a user, or a world, that does not do everything the
page allows. A field of the record, chosen when the page is mounted, says which,
and both values are explored, so the other properties of the page are checked for
both:

| Field | TRUE, or the value named, means |
|---|---|
| `user` of `UsersPage` | "careful": alone, and waits for answers and the list; "another": a second administrator changes one user meanwhile |
| `patient` of `BotsPage`, `PotStorePage` | waits for answers and the list; leaves the node of the dialog alone while he waits; `SwitchStays` and `SuccessIsTrue` are about him only |
| `oneByOne` of `NodeDetailPage`, `RolesTab` | no request before the one before it was answered |
| `inOrder` of `AttackMapPage` | events come in the order of their times, an old socket is gone before the new one opens; `LiveIsTrue` is about this world only |
| `kept` of `EventsPage` | no events are deleted with their node |
| `named` of `NodeDeployPanel` | TRUE: a client gave a deployment the name of another type; the prediction is checked where it is FALSE |

Two simplifications are not fields: a panel of metrics that was left is not opened
again before its timer ends, and an overview of one period is composed at a time.

| Run | Bounds | Shows |
|---|---|---|
| `console` | sixteen pages; 2 nodes, pots, roles, bots and alerts, 3 people; 1 or 2 requests at once; see `MCConsole_console.cfg` | what a page shows agrees with itself and with the server; nobody waits in vain; nothing is destroyed or taken back by an order nobody thought of |
| `watch` | attack map and store; 3 events, one without coordinates; feed, live and seed cut at 2 | every event is shown sometime; the store's numbers and favourites are true across remounts |

Two of each thing are the one a dialog is about and the other one it could be
mistaken for; two requests are what overtakes. Page sizes of one and up to nine
entries produce every shape of the pagers (no gap, one, two). Four events, one of
which has no coordinates, overflow each cap of the map by one; an event without
coordinates takes a place in the list of the server and is dropped by the page,
so such events can push one off the feed that is not full. The front page is given five lists of nodes
and four of deployments, which have a node without pots, a pot whose node is not
listed, an analyser without a pot, and a node that only the database calls online;
a layout has 2 frames for its 180, enough for a list to arrive, or the window to be
resized, in its middle. The analytics have three events for every moment between
two queries, one of them without an address and one older than the shorter of the
two periods. Pages share no state but the favourites, so no larger
combination of them is explored.

Fairness is stated for the seed of the attack map only: it is asked for on a timer
(weak), and the server answers although a click can abandon a fetch for a newer one
(strong, because a user does not outrun the network for ever).

### Proofs

Five of the properties of `console` and the invariant of `watch` are proved for any
number of nodes, pots, people, roles, bots, alerts, events and entries, any caps,
and any bound on what is under way:

| Theorem | Property | Pages |
|---|---|---|
| `NothingIsLostByClicks` | `WhatMustStayStays` | list of nodes, users, roles, deployment dialog |
| `WaitingIsAnswered` | `NothingWaitsInVain` | users, bots, page of a node, deployment dialog, metrics, front page |
| `BulkDeletionIsSeen` | `BulkIsSeen` | list of nodes |
| `NoAnswerGoesBack` | `NothingGoesBack` | alerts, bots, attack map, deployment dialog, metrics |
| `ScreensKeepTheirTypes` | `TypeOK`, a part of the next | all |
| `ScreensTellTheTruth` | `ScreensAreTrue` | all but the store |
| `StoreTellsTheTruth` | `StoreIsTrue` | store |

The first four are in `Console_proofs`. Each of their pages has an invariant
(`FleetInv`, `StaffInv`, `RightsInv`, ...), a lemma that what it is mounted as
satisfies it, and one that its steps keep it and the action properties. `ConsoleInv` is the invariant of the page that is open, so
the proof of the whole is: a page's step keeps its own, mounting establishes it,
leaving and the pages it says nothing of only have to leave the name of the
page as it is (`...Stays`). None of the properties is inductive alone:

- A deletion happens long after it was confirmed, by a server that does not look
  again. `StaffInv` therefore says of every request and dialog of a careful user
  that an administrator is left when it is done, and of the list that it is what the
  server has whenever nothing is under way and nothing failed; `RightsInv`, of a request that was checked, that the check
  still holds, which it does because he sends one at a time.
- `DeployInv` says that rows differ in prefix or number, and that a dialog that
  waits has a request under way.
- `MetricsInv` says that what is read for a refresh is no older than its command,
  and that a period that is shown was loaded or is being read; the period shown
  first is a least element, which exists because the order of the naturals is
  well-founded.
- For the attack map the feed is the newest so many of what is known. The events of
  a set are in bijection with how many are newer (`RankCounts`), so the newest n are
  n (`NewestAreSoMany`), and an event that is not among them has n newer ones that
  are (`NewestOrNewer`). `MapInv` says that what was pushed is in the order of its
  times, drawn or on its way, and that what was listed is in the next list, or that
  list was filled by newer ones, with or without coordinates.

`ConsoleScreens_proofs` has the last three. `ScreensInv` gives every page the
invariant of what it shows, `ConsoleInv` beside it what it needs of requests under
way, and `stored` holds identifiers of the catalogue:

- Lists: a page that is kept in range has a row, because its first row is before
  the end of the list; for the events that is `ExplorerInv`, which says so of
  unfiltered lists only, for the audit log the page shown is itself cut to the last
  one. The palette's choice stays within what it lists, which an empty list and a
  list that shrinks have to restore (`FrameInv`); that one entry of the navigation
  is marked follows from which routes begin which (`RoutesAssumption`).
- Map of the fleet: `GraphInv` says that the map is the one built from the two
  lists the page has, whichever came last. Everything in it is within three edges
  of the user, by kind of thing, and the filters leave out a thing only with all
  that hangs from it; the numbers above it count sets in bijection with its cards.
- Bots: a switch of a patient user stays where he put it. Nothing about the card alone
  is inductive, so `SwitchCareful` says that he has one request at a time, that the
  server has what he wanted of every bot no request is about to switch, and that a
  list is the server's unless an answer is still to come.
- Attack map: of the sockets of one hook one at most is connecting or open, and
  where they close in order "Live" stands exactly over one that is open or about to
  say that it is closed (`SocketsInv`).
- Analytics: an overview in the cache is about the period it is kept under
  (`AnalyticsInv`), and the timeline has a bucket for the hour of an event exactly if
  the event is in that period (`BucketsAreOfEvents`). Only the timeline is restricted
  to a period; the other numbers of an overview are about every event there is.
- Diagnostics: the verdict is composed of the very checks the cards show, so banner
  and cards agree by cases of the check (`DiagnosticsInv`).
- Store: the favourites shown are those stored, and a request that is answered with
  success has been carried out (`StoreInv`). A facet's number is a cardinality of
  the same set.
- Types: those of most pages are part of the above. The others are closed by a lemma
  per page (`FleetTyped`, `RightsTyped`, ...). The number in a deployment's name has
  a bound only because a name that was chosen is at most one more than the requests
  the server has dealt with (`DealtWith`), and these are no more than were made.

Assumptions: `ConsoleAssumption` (the user who is signed in is one of the people; there is a
period; events have times; the caps are positive, and the feed shows no more than
is kept of the pushed events), `ScreensAssumption` (what is listed is finite, pages
have room for a row, and what is measured and recorded are numbers) and
`RoutesAssumption` (the path of a node is none of the fixed ones, and which paths
begin others).

## Where code and words part

Found while modelling. Each was left as it is in the model; the property named
excepts exactly what is affected, or is checked without the circumstance that breaks
it, or says in its comment whom it does not speak of.

On the server and the node:

- Tasks sent on a half-open connection that a newer session replaces stay "sent":
  `removeSession` returns early (`server.go:316`), while `README.md:104` has "all
  `sent` tasks for that node revert to `pending`". With `Overlap = TRUE`
  `EveryTaskAnswered` breaks, and a requeue can come behind the flush of the new
  session; with `LateWriter = TRUE` a task is marked sent behind the cleanup.
- The cleanup writes "offline" after it released the lock (`server.go:322`), and a
  handler that was replaced registers or beats late (`store/nodes.go:143`): a
  connected node is shown offline until its next heartbeat, or one that is gone is
  shown online until it comes again (`stale` in `StatusIsTrue`; `HeartbeatHeals`
  shows the repair of the first).
- The monitor of an old process deletes the entry, or the stop flag, of the newer
  one (`manager.go:337`, `:338`; the comment at `:266` expects the opposite): a pot
  runs twice, cannot be found, or its stop is reported as a failure (`astray` in
  `OneTrackedProcess` and `ExitsAreJudged`).
- Two installs of one pot run at once and each may delete the other's work
  (`manager.go:138-141`), and a remove can be overtaken by an install (`"overlap"` in
  `InstalledHasFiles` and `RemovedStaysRemoved`).
- A directory that could not be deleted is loaded again at the next start, with the
  pot that was reported removed, and a manifest that was half written makes the next
  install believe the pot is there while no start finds it (`"disk"` in
  `RemovedStaysRemoved` and `InstallCanBeRepeated`). An agent that is restarted
  knows nothing of the pots that outlived it, and starts them once more; the
  properties are about the processes of the agent that runs (`Running`).
- A request that ends between the row and its task ("queue install task",
  `deployments.go:82`, `:103`), by a failure or a crash, leaves a row pending that
  nothing will install (`"unqueued"` in `NeverStuck`).
- Start and restart write "installing" after the command was delivered
  (`deployments.go:137-142`) and overwrite a failure reported meanwhile, which the
  reconciliation skips (`"overtaken"` in `NeverStuck`).
- A removal still under way deletes the row of a newer deployment with the same pot
  id (`"taken"` in `RemovalWasRequested`). The status of a task is lost with one
  connection while its result arrives over the next: a row stays although its pot is
  removed, or stays pending (`"split"` in `RemovalEnds` and `NeverStuck`).
- `NextPotIDForNode` counts by type and then by name: a deployment of another type
  that was given this type's name makes it choose a name that is taken
  (`store/deployments.go:48`, 409; `named`).
- Nothing on the server keeps the last administrator; the tooltip of the page
  (`UsersPage.tsx:285`, `:457`) is the only rule. Two requests about one role race
  between check and write (`roles.go:222`).

In the session of a tab:

- A sign-out does not clear the query cache: on a page that was not reloaded the
  header shows the user before (`patient`).
- After a failed refresh the rejected promise stays in `client.ts` and every later
  401 of the page gives up at once, also one of a new sign-in.

In the editor:

- An import draws a wire to a pot from its zone and another from its node, and the
  filter that is to "remove duplicate edges (node→hp if dmz→hp already exists)"
  compares ends, so both stay (`TopologyPage.tsx:1000-1004`).
- A wire begun at a node that is then deleted, undone or replaced ends nowhere, and
  an import replaces what was drawn while it waited (`careful`).

On the pages:

- A success closes whatever dialog is open, also one opened for another
  (`UsersPage`, `TelegramBotsPage`, the deployment dialog of a node).
- The error of an earlier create or update is shown in the next dialog
  (`TelegramBotsPage.tsx:358`, `UsersPage.tsx:602`).
- The timers of "Copied" and of a toast clear a newer one
  (`NodeDetailPage.tsx:446`, `:460`).
- One busy mark serves requests about several things: the first answer clears the
  mark of both (`NodeDetailPage.tsx:438`), and opening the edit dialog drops it for
  good (`UsersPage.tsx:299`, `:455`).
- The success of an uninstallation navigates although the page was left
  (`NodeDetailPage.tsx:456`); the log panel of a deployment whose row is gone says
  "Live" for ever (`:404-412`).
- With the local filter the events page may be left on a page that is no more,
  without the buttons to leave it (`EventsPage.tsx:107`, `:449`, `:591`).
- A late `onclose` of the old socket says "Offline" over an open one
  (`useWebSocket.ts:31`); flashes of the attack map are not taken away
  (`AttackMapPage.tsx:126`); its comment says that every known origin is drawn where
  the seed is cut at 300.
- "Last {hours}h window" stands under a number that counts every event
  (`AnalyticsPage.tsx:308`, `store/events.go:81`); an overview that failed shows
  zeros (`:233`); a share's text can be over 100 % while its bar is not (`:623`,
  `:664`).
- The front page counts as online what only the database calls so, its map does not
  (`DashboardPage.tsx:38`, `AssetTopologyGraph.tsx:312`); a selected thing that
  vanishes leaves the map dimmed (`:278`, `:447`); the observer of its size may be
  bound to the placeholder of an empty map (`:131-141`, `:332`); the highlight of a
  pot behind an analyser leaves out its node.

## Only model-checked

- Liveness (`LinkRecovers`, `HeartbeatHeals`, `EveryTaskAnswered`, `StoppedEnds`,
  `CommandsEnd`, `RowsConverge`, `NeverStuck`, `RemovalEnds`, `EveryCallSettles`,
  `EveryHitIsSeen`) is out of the prover's reach.
- So is what a definition computes by folding over data, for every input, which is
  what `RowsAddUp` is about: the rows of page buttons of `Pager`, the shares of the
  diagnosis, the columns of the heatmap and the table of attackers.

## Not modelled

- The WebSocket hub inside the core (channels, lock, buffers): only what a page sees
  of it, that a message is delivered while its socket is open or lost, is in
  `AttackMapPage`. It would be the next module: clients, bounded channels, a close
  against a send, isolation of organisations.
- Deletion of a node, or regeneration of its token, against its live session, and
  the LogAnalyzer attachment that is copied into the session: they need the cascade
  over tasks and deployments in the model of the link.
- Notifier with the Telegram client (a cache with a lifetime and a throttle), rate
  limiter (precision of a clock), registration of organisations, session capture and
  replay (rows appended and read back), the event listener (a relay without state),
  the command line client, events, metrics and audit queries beside those of the
  overview, diagnostics, logging, configuration and geolocation.
- Of the dashboard: layout, colours, animation, drawing of charts, wording, zoom,
  exports, and whatever a page draws as one query answered it.
- The contents of frames, payloads and log lines; failures of the database itself.

## Running

    tlc -config MCNodeLink_link.cfg MCNodeLink
    tlc -config MCPotManager_pots.cfg MCPotManager
    tlc -config MCConsole_console.cfg MCConsole
    tlapm NodeLink_proofs.tla
    tlapm Console_proofs.tla          (takes several minutes)
    tlapm ConsoleScreens_proofs.tla   (the same, and more)
