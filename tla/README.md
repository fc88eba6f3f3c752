# TLA+ models and proofs of colab-mcp-go

colab-mcp-go is a local MCP server that lets an MCP client work in a Google
Colab notebook: the notebook's browser tab connects to the bridge over a
WebSocket, the bridge opens an MCP session to it, and offers the notebook's
tools to the client. This directory holds TLA+ models of the bridge's
concurrent and multi-process parts, the TLC configurations that check them, and
TLAPS proofs of their safety properties. `PROJECT.json` maps every definition
to the source lines it models, and lists the runs, the faults each property was
tried against, the findings, the hazards and the theorems.

    tlc -workers 2 -config MCManager.cfg MCManager
    tlapm Manager_proofs.tla

## 1. Inventory

| Part | State | Operations | Hard behaviour |
|---|---|---|---|
| Browser WebSocket server, `internal/colabws/server.go` | `active`, `live`, the one-place queue `accepted`, callback lists | `handleWebSocket`, `clearConnection`, `WaitConnection`, `Close`, callbacks | handlers, closers and the consumer are goroutines of their own; callbacks run outside the mutex |
| WebSocket connection, `connection.go` | `closed`, `closeOnce`, `readCh`, `writeMu` | `readLoop`, `Read`, `Write`, `Close` | Close from several goroutines, re-entrance through the close callback, a full `readCh`, slow writers |
| Proxy manager, `internal/proxy/manager.go` | `remoteSession`, `remoteToolNames`, `connectedCh`, `progress`, `refreshing` | `Run`, `connectRemote`, `setRemoteSession`, `handleDisconnect`, `RefreshTools`, `remoteToolListChanged`, `WaitConnected`, `forwardToolCall` | session used after the unlock, two refreshes at once, a callback and Run cleaning up the same session, handshake timeout |
| Injected tools, `tools.go` | none | open, list, call, status | wait for a session that comes and goes, or use one that is over |
| Runtime disconnection, `disconnect.go` | `disconnecting` | planner, `disconnectColabRuntime`, `issueUnassign`, JSON walkers | several remote calls over one session read at the start; an outcome that cannot be known |
| Single instance, `internal/instance` | the OS lock, `state.json`, `Lock` | `Acquire`, `Read`, `Update`, `Close` | several processes, crashes, disk errors, late updates |
| Token file, `colabws/token.go` | the token file | `LoadOrCreateToken` | concurrent creation, crash between creation and write |
| Application, `internal/app` | the start-up sequence and the deferred calls | `App.Run`, `startWebSocketServer` | fallback to an ephemeral port, callbacks during start-up and shutdown |
| Doctor, `internal/doctor` | none | inspections, `diagnose` | reads files, process and port one after the other while bridges start, stop and die |
| Transport, `internal/mcptransport` | none of its own | hands one connection to one handshake | |
| Browser opener, command line | none | | |

How they interact. `App.Run` loads the token, acquires the lock, starts the
server, registers `OnConnectionChange` (which writes `state.json`), creates the
manager (which registers `OnDisconnect`) and runs it. A browser's HTTP handler
takes the server's slot and queues the connection. `Manager.Run` takes it from
the queue, makes the MCP handshake, installs the session, lists the tools and
waits for the end. Whoever closes the connection first runs `clearConnection`,
which calls the manager and then the application back, in the goroutine that
closes. Processes meet only in the files, the lock and the fixed port.

What makes the parts correct:

- connection: messages are read in order and none is lost, a browser that hangs
  up is noticed, no `Write` and no `Close` hangs;
- server: one open browser at a time; the slot always belongs to exactly one
  connection and comes back; a connection is handed over at most once and none
  lingers unserved; reports are in order;
- manager: the session is that of the connection being served; no wakeup of
  `WaitConnected` is lost; tools are registered exactly while their browser is
  connected; `Run` never gets stuck between two browsers, nor at shutdown;
- forwarded calls: progress reaches its own caller only, and leaves nothing in
  the map when its call is over; a call that waits for a session wakes up, and
  only for a session;
- lock and `state.json`: what a running owner wrote stays until it closes, and
  nothing stays after; only the holder of the OS lock writes;
- token: all bridges use one token;
- disconnection: one call at a time; an error means that nothing was released,
  "issued" that the request was sent; the cell that runs is the call's own; the
  plan fits the notebook's tools and changes the notebook no more than it must;
  what is read in its answers does not depend on the order maps are walked in;
- application: `state.json` has the port really bound, the browser's state, and
  the fixed port and the lock stay together;
- doctor: "healthy" is about one bridge, and a bridge that serves is healthy.

## 2. Modules

| Module | What it is |
|---|---|
| `SessionSlot` | abstract: browsers enter, are refused by, and leave a slot for one |
| `Presence` | abstract: whether a browser is there, and the callbacks that say so, in any order |
| `ColabWS` | the WebSocket server and `Connection.Close`; implements `SessionSlot` and `Presence` |
| `Sessions` | abstract: what server and manager promise the tools about the remote session |
| `Manager` | extends `ColabWS` with `Manager.Run`, the close callback and `RefreshTools`: composition of manager and server; implements `Sessions` |
| `Forwarding` | `forwardToolCall` and the progress map, over `Sessions` |
| `Waiting` | `open_colab_browser_connection` and `WaitConnected`, over `Sessions` |
| `Connection` | one connection: `readLoop`, `Read`, `Write`, `Close` |
| `Unassign` | abstract: what `disconnect_colab_runtime` promises, whatever its plan |
| `Disconnect` | implements `Unassign`: `disconnectColabRuntime` and `issueUnassign` of several calls against a notebook that a user edits |
| `Planner` | `findExecutionPlan`, `findAddCellPlan`, `schemaAccepts` |
| `Answers` | `cellCount`, `findMarkedCellID` and `candidateCellID` over JSON values |
| `Processes` | the constants of the multi-process modules |
| `Instance` | the lock and `state.json`, seen as the protocol of several processes |
| `Token` | `LoadOrCreateToken` of several processes |
| `App` | `App.Run` of several processes over `Token` and `Instance`: composition |
| `Doctor` | extends `App` with `doctor.Run` beside the bridges |
| `MCManager`, `MCApp`, `MCColabWS`, `MCDisconnect` | symmetry for TLC |
| `MCCalls`, `MCCallsLive` | modules that share no state, put side by side: a behaviour is one of one part |
| `MCDoctor` | `Doctor` with the bound that browsers come only when doctor does not run |
| `ColabWS_proofs`, `Manager_proofs`, `Tools_proofs`, `Disconnect_proofs`, `Answers_proofs`, `Files_proofs`, `App_proofs`, `Doctor_proofs` | theorems; `Tools_proofs` is about `Forwarding`, `Waiting` and `Connection`, `Disconnect_proofs` about `Disconnect` and `Planner`, `Files_proofs` about `Instance` and `Token` |

An operator whose comment begins with "Fault:" is not part of a specification.
It is a wrong version of the definition after it and is there to show that the
properties notice it (`mutants` in `PROJECT.json`).

### ColabWS

Each browser connection has a `handler` (where `handleWebSocket` is) and a
`closer` (where the goroutine that won `closeOnce` is in `Close` and
`clearConnection`). A section under `Server.mu` has no blocking call and is one
step: `Admit`, `RejectBusy`, `Clear`. Everything the code does between such
sections is a step of its own: the announcement of a new connection, the
non-blocking send to `accepted`, the close frame, both lists of callbacks.
`closed` is the set of connections whose `closed` channel is closed;
`reported` is the last argument the application's callback was called with.
`consumer` and `held` are the goroutine in `WaitConnection`. `Cancel`,
`StopListening`, `ReadActive`, `CloseActive`, `CloseHTTP` are the context of
`Start` and `Server.Close`, which reads the active connection and closes it in
two steps. `SessionCloses` and `HangUp` are the two ways a connection ends: by
this side or by the browser. Requests refused before the upgrade change nothing
and are left out.

### Manager

`run` is where `Manager.Run` and `connectRemote` are. `HandleDisconnect` is the
mutex section of `handleDisconnect`, and `RemoveTaken` the `RemoveTools` call
after the unlock. They run in Run's goroutine (`RunDisconnects`,
`RunReleases`) and in the goroutine that closes (`CallbackDisconnects`,
`CallbackReturns`, which refine `CallOnDisc` and `ReturnOnDisc` of the server).
`connectedCh` counts the channels `handleDisconnect` made and `closedChs` are
those closed, so a waiter that kept an old channel is accounted for. `task` has
the two goroutines that can be inside `RefreshTools`: Run's own call and the one
`remoteToolListChanged` starts; each reads the session, gets a list, stores the
names under the mutex, and changes the local registry afterwards, tool by tool.
The wait before a refresh by notification has no duration; the answer of the
browser may never come.

`ownClose` says that the `Close` of the held connection runs in the goroutine
Run waits for (its own, or one of the SDK's that `session.Wait` waits for). In
that case Run goes on only when that Close has returned, callbacks included;
otherwise it goes on as soon as the socket is closed. This is the point of the
comment at manager.go:385.

Inside the MCP SDK, which is not in this repository, three facts are used:
`session.Wait` returns only after the connection is closed, `session.Close` and
errors of the SDK close the connection, and `tools/list` fails when the
connection or the context ends.

### Sessions, Forwarding, Waiting

The tools see of the server and the manager a slot, a session and a channel.
`Sessions` is that view: connections take the slot one at a time, each gets at
most one session and only while none is installed, and a session is dropped
some time after a connection closed, which need not be its own (this is what
`manager_served` finds). `Manager` implements it (`ImplementsSessions`), so the
two modules over it stand on what the code of the manager does and not on an
assumption about it.

`Forwarding`: a call reads the session under `Manager.mu` (`ReadsSession`),
asks `Live` after it (`FindsLive`, `NotConnected`), and uses the session when
it may have been dropped and the slot be the next browser's. `progress` is the
map from the bridge's tokens to calls. A notification is sent by the notebook
(`NotebookNotifies`) and looked up by a goroutine of the SDK at any later time
(`RemoteProgress`): when the call has returned, when its timer has removed the
entry, when `handleDisconnect` has emptied the map, or when another browser is
connected. One notification is followed per call.

`Waiting`: a call that finds no connection opens the browser, then takes the
current `connectedCh` and sleeps on it. `Asleep` and `woken` tell a sleeper
whose channel is open from one whose channel is closed but who was not
scheduled yet; meanwhile the session can be dropped and another one installed.

### Connection

The read loop sends to `readCh` without looking at anything else, and reports
its error through the same channel before it closes: both block while the
channel is full. `Write` starts a goroutine (`writer`) that waits for `writeMu`,
checks its context, and writes with a deadline; `Write` itself (`writing`)
returns its result, or returns early when the context or the connection ends
and leaves the goroutine behind. `once` is how far the body of `closeOnce` is,
which takes `writeMu` too; other callers wait for it. A write that fails at its
deadline may have broken a frame, and every later write fails (`broken`). The
browser reads, stalls, or is gone, whenever it likes.

### Disconnect

`pc[c]` is where the handler of call `c` is: at the flag, at the plan, or at one
of its remote calls (`count`, `add`, `lookup`, `run`). A remote call is three
things that happen in any order with everything else: the bridge writes the
request (`Sends`), the notebook carries it out (`Counts`, `AddsCell`,
`ListsCells`, `Runs`, or `Refuses`), and the call returns (`Answered`, `Fails`).
A call that is cancelled or has lost its session returns at once, and what it
wrote may still be carried out. The plan is one of `Plans`, which has every plan of `Planner`
(`PlansCovered`); of the results there are the ids the walkers can find in them,
which `Answers` follows through the JSON.
`add_code_cell` may answer with any ids. `ran` records which call's code each run
request ran: an id the bridge did not verify may be that of another cell.

The user adds, copies and deletes cells, and may edit the marker out of a cell,
which then is missing from the answer of `get_cells`. A user who pastes other code
into the added cell between the lookup and the run is left out: nothing
the bridge could do would notice.

### Planner, Answers

`Planner` takes the notebook's tools as their schemas, each the set of its
properties and the set of those it requires (`NoTool` for a tool that is not there
or whose schema cannot be read). `Ways` and `Variants` are the order in which
the code tries runners, argument names and arguments. The properties do not
mention the order: they compare the plan with every plan there could be
(`PossiblePlans`).

`Answers` takes an answer as its JSON values, each a text, a list, or an object
as a set of fields (keys are compared without case, so two fields of an object
can have the same key). A text that is
not JSON is `Prose`, with the ids the pattern finds in it. Numbers and null
give no result and are left out. The recursive functions `cellCountValue`, `visit`
and `walkStrings` are walks, one step for each call: `todo` is what the calls in
progress have still to visit, in order, so a call on an object puts the values of
its fields before the rest, in any of their `Orders`, as a Go map is iterated in a
random one; a result empties `todo`. `topLevel` goes with each value.
`Inside` is not of the program: the properties compare what a walk has found with
all there is inside the answer, which two assumptions describe without recursion
and TLC evaluates for every answer of its run. What `candidateCellID` makes of the
three lists is what `Disconnect` has as `candidates`: with one id it is trusted when
`get_cells` does not help, with more the call is ambiguous.

### Instance, Token, App

A process is one run of the program; a restart is another process. `lock[p]`
is how far `Acquire`, or the `Lock` it returned, is. `writeLocked` is one step
because it renames a complete file; `Lock.Close` removes the file and gives up
the OS lock in two, with `Lock.mu` held, so an `Update` comes before both or
finds the lock closed. `Crash` may come anywhere and leaves the files. The OS
lock (`flock`, `LockFileEx`) is external: one holder, attempts do not wait, the
kernel releases it on death.

`loading[p]` is where `LoadOrCreateToken` is. The file is `whole` once the one
`WriteString` that fills it is done; a reader of an incomplete file retries for
a while (stays in its state) or gives up (`ReadGivesUp`). Any other error before the
file is created ends the loading (`LoadFails`); later ones go through `Discard`.

`App` follows `App.Run` from the token to the last deferred call, with the
fallback without the lock, the fallback to an ephemeral port, `--no-fallback`
(`Strict`), and the failure of the start-up update. Callbacks are counted in
`callbacks` and run in any order and at any later time, also after the lock was
closed: they are goroutines of the server that nobody waits for. Of the server
there is only what `App.Run` can see of it, `live` and the callbacks. `Presence`
is that view: `ColabWS` implements it (`ServerPresence`), where two connections'
callbacks can overtake each other, and `App` assumes no more of the server of
each of its processes (`AppPresence`) and no less (`PresenceAllowed`).

### Doctor

`doctor.Run` reads `state.json`, the recorded process, the token file (twice),
the port and `/healthz`; each is a step, and the bridges of `App` move between
them. `Diagnose` is `diagnose` in its order. `steady` is not of the program: it
is a bridge that has served, with the lock and on the port asked about, since
doctor began. A process id is not used again, an ephemeral port belongs to the
process that got it, and another program may answer on the configured port
while no bridge does. The search of the log is a choice (`knownErrors`); `lsof`
words a message only. A bridge that serves answers before doctor's timeouts.

## 3. Checks

### Runs that pass

| Run | Instance | Shows |
|---|---|---|
| `manager` | 2 browsers, 1 tool, 1 change, symmetric, 1.9 million states | `SessionIsHeld`: the installed session is that of the connection Run holds; `NoLostWakeup`: the channels given to waiters are closed exactly while a session is installed |
| `manager_live` | 2 browsers, fair, 85 000 states | `SlotOwnership`: `clearConnection`, which is not told who closed, only ever clears its own connection; `OneBrowserAtATime`; `HandoverOnce`; `SlotFreed`; `AdmittedIsServed`; `DeadSessionDropped`; `NextBrowserServed`; `RunReturns`; `ImplementsSlot` and `ImplementsSessions`: refinement of `SessionSlot` and of `Sessions` |
| `calls` | 2 disconnect calls and 2 cell ids, symmetric; 2 forwarded calls with one client token over 2 browsers; all notebooks of four tools; all answers of up to two cells; 840 000 states | `OneCallAtATime`; `ErrorMeansNotRun`: a tool error means nothing was released and no request left behind will; `VerifiedCellRun`: after a lookup only the call's own cell runs; `CompletedRan`; `ImplementsUnassign`: refinement of `Unassign`; `NoCrossTalk`, `ProgressReachesCaller`, `NothingLeftBehind`: progress; `PlanIsExact`, `NothingNeedless`: the plan; `CountExact`, `LookupExact`, `NoGuessedCell`: the walkers |
| `calls_live` | 2 writers, `readCh` of 1, 3 messages; 2 waiting calls over 2 browsers; 1 disconnect call; fair, 54 000 states | `DeliveredInOrder`; `HangUpNoticed`; `NoWriteForgotten`; `NobodyHangs`; `OpenSawSession`; `AllWaitersReturn`; `CallEnds` |
| `app` | 2 processes, one `--no-fallback`, disk errors, 2 browsers each or doctor, 960 000 states | `TokensAgree`; `OwnerRecorded`; `ClosedLeavesNothing`; `WrittenByHolder`; `PortRecorded`; `FixedPortHasLock`; `SteadyIsHealthy`: no false alarm; `HealthyIsOwner`: a healthy verdict is about one bridge |

`HangUpNoticed` has the exception the code has: while no session reads and
`readCh` is full, the read loop is stuck on the channel and a browser that left
keeps the slot. `Manager.connectRemote` starts a reader for the connection it
takes from the queue, so this lasts until Run is back from the one before.
`CallEnds` says how far the 30 s timeout reaches: it covers the run step, and
before it a notebook that does not answer keeps the flag until the client
cancels or the session ends.

### Runs that find a disagreement

Each checks one property that a comment, the README or a test of the repository
states, and TLC finds it violated. The traces are short.

| Run | Property | What happens |
|---|---|---|
| `colabws_report` | `ReportedIsLive` | a browser hangs up before its handler has run `fn(true)`: its `fn(false)` comes first, and the last report is that it is connected |
| `manager_served` | `ServedIsConnected` | the close callback of the first browser is delayed until the session of the second is installed, and drops it; the bridge is "not connected" although a browser is served |
| `manager_orphans` | `NoToolsWhenDisconnected` | `RefreshTools` adds tools after `handleDisconnect` removed them |
| `manager_fresh` | `RegistryFresh` | a notification during a refresh is dropped, or an older list is stored last |
| `disconnect_issued` | `IssuedMeansSent` | the session ends, or the client cancels, before the run request is written; the result still says `"issued": true` |
| `app_owner` | `OwnerNamed` | a refused bridge reads the `state.json` of a bridge that died, because the new owner has not written its own yet |
| `app_connection` | `ConnectionRecorded` | the start-up update writes the `Live()` it read before a browser connected, over the callback's newer write |

### Bounds, and why they are enough

- `Conns`: the behaviours that matter are about one connection and its successor
  in the slot: refused, queued behind a stale one, admitted while the callbacks of
  the first still run. Two connections have them; the safety properties are
  proved for any number.
- `Calls`, `Ids`: a call and one that comes before, during or after it; a cell of
  the call and one that is not (the other call's, the user's, or a copy).
  One of the two is cancelled, the first with its request left on the wire or the
  second, or the session ends (`OneInterrupts`), and their plans differ only if one of them
  reads no cells (`OnePlan`): a notebook's tools seldom change between two calls.
  The proofs have none of these bounds. `disconnect_issued` needs one call and no cell. In `calls_live` one call is
  enough: a second one is refused, which ends it.
- `Forwards`, `Tokens`: two calls whose clients chose the same token.
- `Writes`, `ReadCap`, `MaxIncoming`: a write and one that queues behind it; a
  channel that is full with one message and two more to come. `DeliveredInOrder`
  is proved for any capacity. The writers are checked with a silent browser and
  the reader with one writer: they meet only in Close.
- `Opens`: two calls that wait, so that waking one of them is not enough.
- `Schemas`: every set of properties of a tool out of the names the planner knows
  it by, and every set of required names out of those and one unknown name;
  `PlanIsExact` and `NothingNeedless` are proved for any schemas. Each runner has one of
  the two names for a cell id.
- `Shapes`: envelopes with a list of up to two cells under `cells` or another key
  and a second field beside it, objects nested in objects, two values in one
  answer; an id under one key or two, or blank; the marker in a text, in a list
  of lines, or absent.
- `Tools`, `MaxChanges`: one tool with one change already gives added, removed,
  stale and dropped; a change is a message of the browser, and `MaxChanges` bounds
  how many there are. `ListErrors`: TRUE in the passing runs, so that `tools/list` may
  be answered with an error; the three violations need no error. The liveness run has no tools: no liveness property is
  about them, and `tools/list` is still asked, answered or not.
- `Procs`: an owner and a refused one; `app_owner` has three: one that died, its
  successor, and one that asks.
- `MaxBrowsers`: two connections of one process, so that a late callback of the
  first meets the second. No browser comes while doctor runs, which reads
  nothing that depends on them; the proofs have no such bound.
- `DiskFails`: TRUE in the passing run, so that every read, creation, write, close
  and remove may fail; the two violations do not need it, and have FALSE.

Deadlock is not checked: in every instance the browsers may all have come and
gone, every call and every process may have returned.

### Fairness

`MFairness` asks for weak fairness of the steps of goroutines
that can run: handlers, closers, callbacks, `Run`, the steps of `RefreshTools`
that wait for nobody. The Go scheduler runs every runnable goroutine, the code
under `Server.mu` and `Manager.mu` does not block, the close frame has a
deadline and the socket's close does not wait. `RunStep` includes the end of the
handshake, because the handshake timer closes a connection whose handshake
hangs. On shutdown Run itself closes the session (`SDKCloses`). Nothing is asked
of the browser or the client: they may connect, hang up, change tools, answer
`tools/list` or cancel, or never do. A browser that never answers `tools/list`
therefore keeps its own session in the first refresh; `NextBrowserServed` and
`RunReturns` show that this does not outlive its connection or the application.

`ConnFairness` asks the same of the read loop, of a session's reader, of the
writers' goroutines, which have a deadline (`WriterFails`), and of the one that
closes. Go's mutex does not starve; weak fairness is enough here because the calls
of `Write` are finitely many. `WaitFairness` asks that calls which are awake
run; no timeout need expire, so `AllWaitersReturn` owes nothing to it. In
`DFairSpec` a call goes on when it has something to do: an answer, an error of a
session that is over, its own cancellation, or the timer of its run step. The
notebook may never answer.

## 4. Proofs

TLAPS proves the safety properties of the passing runs for every value of the
constants: any set of browsers, tools, calls, processes and answers, with the
named assumptions only (`ConnsAssumption`, `MaxChangesAssumption` and the like:
"nil" is not a connection, a bound is a natural number; `InsideAssumption` and
`JSONAssumption`: what lies inside an answer is the answer and, for what lies there,
its parts, which are JSON with finitely many fields). Each uses an inductive invariant that says more than the
property.

- **`ColabWS_proofs`** — `IInv`. `SlotOwnership` says that the slot is the one
  connection between `Admit` and `Clear`. It needs `CloseBegun` (a connection
  whose Close has begun has its `closed` channel closed, and only then), since
  `Clear` also closes whatever is in the slot; and `HeldAdmitted`,
  `QueueAdmitted`, that the consumer and the queue only have connections
  whose handler returned, and never the same one, as `Offer` is the last step
  of a handler. `OneBrowserAtATime` and `HandoverOnce` follow. `Refinement`:
  every step is a step of `SessionSlot` or a stutter, under the mapping of the
  handler and closer of a connection to its phase (`SlotPhase`). `ServerPresence`
  does the same for `Presence`, where the callbacks under way are the connections
  whose handler or closer is at its announcement: one is added with each change of
  `live`, because `SlotOwnership` makes `Clear` find the slot taken, and counting
  them needs that they are finitely many (`PendingFinite`) for any set `Conns`.
- **`Manager_proofs`** — `MInv` adds to `IInv`: `RunServing`, that Run's position
  and the consumer of `ColabWS` agree, and `SessionServed`, that a session
  is only installed between `setRemoteSession` and Run's own
  `handleDisconnect`. The close callback can only take a session away, so
  whatever it interleaves with, Run's own cleanup is what makes `SessionIsHeld`
  inductive. `NoLostWakeup` is inductive with it. `ServerRefinement`
  (`MSpec => Spec`) carries the server's theorems over to the composition
  (`BridgeServer`).
  `SessionsRefinement`: every step of the bridge is a step of `Sessions` or a
  stutter, with a connection's session counted as given (`Had`) from the moment
  Run is past its handshake. It needs that Run comes to its own
  `handleDisconnect` only over a closed connection (`ClosedBehindRun`), and
  `NoLostWakeup`, since `Sessions` has one flag for all channels.
- **`Tools_proofs`** — `ForwardInv`, `WaitInv` and `ConnInv`. `NoCrossTalk` needs that
  a token of the bridge is given to one call (`TokensDiffer`) and that an
  entry of the map has the token of its call (`EntriesOwned`), also the entries
  of calls that have returned. `ProgressReachesCaller` needs that a session that is
  installed has not been dropped since a call registered over it (`EntryThere`):
  no connection gets a second session (`SessionsHad`), which is where `Sessions`
  comes in. `DeliveredInOrder` needs that the channel continues what was
  delivered up to what was read (`ChannelContinues`).
- **`Disconnect_proofs`** — `DInv`. `ErrorMeansNotRun` needs `NotDispatched`: a run
  request exists, or has run, only from the run step on, and every return
  from there is no error. `VerifiedCellRun` needs a property of an id that no edit
  of the notebook can take away (`Marked`: handed out, and not the id of
  another call's cell), which `UniqueIds` gives; it holds of every id a
  lookup answers with (`LookupIds`, and `Pending`, that the answer read is that of
  the request waited for), and so of the target of a verified call as long as its
  request can run (`VerifiedTarget`). `CompletedRan` adds `AnsweredRan`.
  `UnassignRefinement`: a call's request (`RunRequest`) is issued once, goes one way, and
  stays what it is after the call is over, when nobody waits for it any longer.
  It needs `IssuedOnce`: a request on the wire, or a cell that ran, was issued by the
  call's run step, and a call that issued one is waiting for its answer or has returned.
  `PlanExact` and `PlanNeedsAll` compare the first of the ways that is accepted with
  all there are: `AddArgsFit` for `add_code_cell` (whatever fits, the first
  variant that does gives no argument that is not required), `PlanFound` for the
  runners. `PlansCovered`: each plan, as far as the steps of `Disconnect` depend on
  it, is in its `Plans`.
- **`Answers_proofs`** — `AnswersInv`. The walkers are recursive, and what a recursive
  definition computes is out of this prover's reach; as walks they are proved by
  induction over their steps, for JSON of any depth. Whatever a walk has not dealt
  with is inside a value in `todo` (`Left`): an object with the marker and an id
  (`LocateInv`), one with a field called cells and a list that is a part of the
  answer (`CountInv`), one whose ids are not recorded and a part that is prose
  (`OfferInv`). `LeftStep` says what a step takes out of `Left`. At the end `Left`
  is empty. `OrdersOfParts` is where an object's fields must be finitely many.
- **`Files_proofs`** — `InstanceInv` adds that the OS lock is held exactly
  between the successful attempt and the last step of `Close`, so nobody else is
  at a write while a lock is open.
  `TokenInv` adds that the token file belongs to the process that is filling it. This is where `O_EXCL` matters.
- **`App_proofs`** — `AppInv` says, for each position of `App.Run`, how far the lock
  can be (`RunAndLock`), that the configured port is served with the lock open,
  and that whoever can call `Update` has a port. `InstanceRefinement`
  (`ASpec => ISpec`) and the corresponding simulation of `Token` bring the
  theorems of the two protocols to the application. `AppPresence` is the other
  side: the server `App` has in place of `ColabWS` does only what `Presence` allows.
  It needs that a process without a listener has neither a browser nor a callback
  (`QuietAtStart`), so the callback is registered before the first change.
- **`Doctor_proofs`** — `DoctorObserves` (`DocSpec => ASpec`) keeps `AppInv` true
  beside doctor. `HealthyIsOwner` needs that a process named in a `state.json`
  has had the lock and cannot get it again (`HasOwned`), so that one which answers
  on its port still has it; `SteadyIsHealthy` needs that every reading so far was
  of the bridge that serves throughout (`SteadyReadings`).

Only model-checked: the liveness properties, and so the fair specifications
(fairness and ENABLED are beyond this prover; the safety parts of the refinements
are `Refinement`, `SessionsRefinement` and `UnassignRefinement`). Only proved, with no
run of their own: the types of every module's variables, the two presence refinements,
and what carries theorems from one module to another. The `violation` runs have counterexamples and need no proof.

## 5. What is not modelled, and why

- The MCP SDK and the WebSocket library, beyond the facts named above, and the
  content of messages.
- `list_colab_tools` and `get_colab_connection_status` read the manager's
  fields under its mutex and change nothing; `normalizedTool` drops the tools
  it cannot offer, each by its own schema and name.
- `mcptransport.Transport` with its acceptor: only tests use it.
- `App.Run` without a token file or without a fixed port shares no file and no
  port with another process. The end
  of standard input cancels the application context, which is `Stops` in `App` and
  `Cancel` in `ColabWS`.
- Token files no bridge writes (wrong permissions, malformed contents, symbolic
  links) and requests refused before the upgrade: they end in an error and
  change nothing.
- In doctor, `lsof`, the parsing of logs and the wording of reports.
- `internal/browser` starts a command of the operating system, and `cmd` parses
  flags: they keep no state.
