# A TLA+ model of KCEF

KCEF is a browser (CEF) under remote control. The KIQ daemon tells it over ZMQ
which page to open and when to look for something to analyse; KCEF takes the
source of the page, starts a Node.js program (the *analyzer*) on it, opens the
further pages that program asks for, and passes its result to KIQ.

The modules here are translated from `src/` of the repository. TLC checks them
on small instances, TLAPS proves the main properties for every instance.

```
tlc -workers 2 -config MCServer.cfg MCServer.tla
tlc -workers 2 -config MCClient.cfg MCClient.tla
tlc -workers 2 -config MCSentinel.cfg MCSentinel.tla               # and MCSentinelMisfit.cfg
tlc -workers 2 -config MCControllerSession.cfg MCController.tla    # and the other MCController*.cfg
tlapm SessionProofs.tla                                            # and the other *Proofs
```

## 1. The system

Paths are below `src/` of the repository: `controller.cpp` is
`src/src/controller.cpp`, `twitter.js` is `src/analyzer/src/handlers/twitter.js`.

| part | code | state it keeps | operations | talks to |
|---|---|---|---|---|
| IPC server | `server.cpp`, `server.hpp` | three sockets (`rx_`, `tx_`, `ax_`), `out_`, `msgs_`, `reply_` | `connect`, `disconnect`, `run` (send one, receive one of each, dispatch one), `flush`, `enqueue_ipc`, `set_reply_pending` | KIQ on `tx_` and `rx_`; the analyzer on `rx_` (in) and `ax_` (out); the controller by the dispatch table |
| controller | `controller.cpp`, `controller.hpp` | `app_waiting_`, `app_requested_`, `app_active_`, `timer_`, `queue_`, `bucket_`, `msg_queue_`, `proc_future_`, `was_sleeping_`, `should_flush_`, `wake_timer_` | seven commands, four more IPC types, `work()`, `handle_queue()`, the source callback, the suspend/wake callback | server, browser, analyzer process, `ksys_` |
| browser client | `handler.cpp`, `handler.hpp`, `window.hpp` | `browsers_`, `g_instance`, `cb_`, `load_time_`, `is_top_`, `cefwin_`, `width_` | `set_url`, `query`, `focus`, `on_finish`, `run`; CEF callbacks (`OnAfterCreated`, `OnBeforeClose`, `OnLoadEnd`, `OnLoadError`, `Visit`, ...) | CEF, X11, the controller's callback |
| startup and loop | `main.cpp`, `app.cpp` | - | context, client and first browser; `while (work() != shutdown) CefDoMessageLoopWork()` | everything |
| analyzer | `index.js`, `twitter.js`, `socket.js` | start attempts, users to look up, the request it waits for | `loadurl`, `generate`, `analysis`; one answer awaited at a time | the daemon's `rx_` and `ax_` |
| text analysis | `utils.js`, `user.js` | - | language processing, HTML parsing, web lookups | child processes, the web |

**Threads.** Almost everything runs on the main thread. Two others matter: the
thread of `ksys_`, which writes `was_sleeping_`, `should_flush_` and
`wake_timer_` without a lock while `work()` reads them (`controller.cpp:170-184`),
and the `std::async` thread that waits for the analyzer (`:230-242`). The other
processes are KIQ, the analyzer and CEF's renderer, which delivers a page's
source some time after it was asked for.

**What is hard here.**
- `reply_` is one flag for a queue of messages (`server.cpp:161`).
- Suspend and wake come between any two statements of `work()`.
- A source, its URL and the flags that say what it is for are read at different
  times (`controller.cpp:188-243`).
- An analysis can be given up while its process goes on (`:289-295`); another
  one must not start over it, because replacing the future of a running
  `std::async` blocks, inside a browser callback.
- The thread that sends is the thread that reconnects: an unconnected or full
  socket stops everything (`server.cpp:101`).
- One step of several can fail: the send after its message was moved out of the
  queue, the bind before the connects, `get()` after the wait.
- Every browser, popups too, is kept under one key of `browsers_`, and that key is
  looked up by events that run later (`handler.cpp:72`, `:210`).
- The analyzer takes whatever comes next for the answer (`socket.js:65`), and the
  flag that routes sources to it, `app_waiting_`, is not reset by an answer.

**What makes each part correct.** Server: each message is sent at most once, by
one socket, in order, whatever fails. Controller: one analysis at a time, for an
accepted query, always ended, with no analyzer beside one that runs; no command,
URL or wake is lost (a wake may be); the link is restored after sleep. Browser: the map never holds a browser that is
gone, the window has its size, the caller meets one browser. Analyzer: its wait
for a page is known to the controller; an answer is that of its request (this
one does not hold).

`PROJECT.json` lists the hazards one by one, at their lines, with the properties
that cover them, or the reason why none does yet.

## 2. The modules

| module | models | kind |
|---|---|---|
| `Messages` | message kinds, URLs, payloads | data |
| `Server` | state and methods of `kiq::server`, as action fragments | component |
| `ServerCalls` | the server under an arbitrary caller | specification |
| `Outbox` | a queue whose messages leave at most once, in order, by one lane each | abstract |
| `Browser` | the one browser, as the controller meets it, as action fragments | abstract |
| `Client` | `KCEFClient` with its map, popups, late events and window; startup | specification |
| `Controller` | the controller, composed with `Server` and `Browser`, and the world around: KIQ, a sketch of the analyzer, clocks, `ksys_` | specification |
| `Session` | the life of an analysis | abstract |
| `Analyzer` | the analyzer process, as action fragments | component |
| `Sentinel` | `Controller` composed with `Analyzer` in place of the sketch | specification |
| `MCServer`, `MCClient`, `MCController`, `MCSentinel` | constants for TLC | model checking |
| `ServerLemmas`, `ServerProofs` | types and refinement of the server | proofs |
| `ControllerProofs`, `SessionProofs`, `LinkProofs` | types; the session and its refinement; link, outbox and reply flag | proofs |
| `ClientProofs` | types, map, window, refinement of the browser client | proofs |
| `SentinelProofs` | types, refinement of `Controller`, the analyzer's wait | proofs |

**How the modules fit.** `Controller` is checked and proved against two
abstractions, `Browser` and its own sketch of the analyzer. Each is discharged by a
detailed module: `Client` implements `Browser` (`ImplementsBrowser`), `Sentinel`
implements `Controller` (`ImplementsController`). So what is shown of `Controller` holds
of the controller with the real protocol of the analyzer. Towards the browser,
`Controller` is built of the action fragments of `Browser`: it calls nothing else, by
construction. `Client` answers those calls, in any order and with any value given to
`set_url()` (`Given`), as `Browser` says. That the composition of `Client` with `Controller`
therefore implements `Controller` is an argument of this paragraph, not a theorem. All
this holds with popups and without; a claim that needs that there are none says so in
the formula. Only `Sentinel`, which has one analyzer, assumes `Popups = FALSE`
(`SentinelAssumption`), since with popups two may overlap.

**How state and actions correspond.** Variables carry the names of the members:
`out`, `msgs`, `reply` are `out_`, `msgs_`, `reply_`; `appActive` is
`app_active_`. `rxq`, `txq` and `wire` are what the ZMQ sockets hold. `linked`
says that `connect()` got through bind and both connects. `page`, `nav`, `ends`,
`fetch`, `got` are the URL in the main frame, the navigation under way, the
`OnLoadEnd` calls still due, the `GetSource` requests not served and the sources
not delivered. `timer` is `timer_` by what `check_and_update()` sees of it: it
answers no while "running", and otherwise answers yes and starts it.

`server.cpp` runs on one thread, so a public method is one step. `work()` is not:
it is cut before every read of a flag the `ksys_` thread writes and before every
call that can block, and `pc` names the cut:

```
check -> sleep -> [flush] -> [wake -> [recover]] -> send -> recv
      -> deferred -> load -> join -> cef -> check
```

An exception leaves for `cef`, as the `catch` of `:299` does. A callback that launches over
a process still running waits at `replace` for it to end. At `cef` the message
pump makes any number of browser events and callbacks. A handler with its
guards, early returns and every call it makes is one action fragment
(`OnQuery`, `OnAnalysis`, ...); `Args` and `DeferredArgs` keep the order in which the
arguments are passed. A variable that belongs to no code is `timerYounger`,
history: `timer_` was last started after the process was. With it
`TimerExpires` says that 30 minutes do not pass inside 240 seconds.

In `Client`, `known` is `browsers_[DEFAULT_KCEF_ID]`, `open` the browsers there really are,
`events` the `GetSource` events not yet run (each looks `known` up when it runs),
`asked` the renderers with a source to deliver. `frame` is the size of the window as
the X server has it, `width` what the program has read of it, `size` that of each
browser's window. The state `stage = "down"` is the end: a crash (a null pointer
taken by the controller, a null entry dereferenced, an exception through CEF) or
the last browser closed. In `Analyzer`, `apc` is the `await` the process is at; between
two awaits nothing else of it runs, so that is one step.

Definitions introduced by "Variant of" are faults for the mutation check; no
specification uses them.

**External behaviour, and what is assumed of it.**
- *ZMQ.* A DEALER that is not connected, or whose peer has left it `Hwm` messages,
  blocks its sender. `close()` drops unread messages and, `linger` being 0
  (`server.cpp:40-42`), an arbitrary suffix of the unsent ones. `bind` may fail
  (`BindOutcomes`). A message arrives whole; `poll` sees what has arrived.
- *kproto.* `send_ipc_message` takes the socket from `socket()`, sends and then calls
  `on_done()`; it may throw before anything is sent (`SendFaults`). Deserialising
  yields a message or nothing.
- *kutils.* `timer::check_and_update` is true of a stopped or elapsed timer and
  restarts it; the bucket grants one request per interval.
- *kiq::process* ends its program by itself or after 240 seconds; starting it may
  throw (`LaunchFaults`).
- *CEF.* Its callbacks run inside `CefDoMessageLoopWork()`. A navigation commits or
  fails later; each of up to `MaxFrames` frames makes one `OnLoadEnd`; `GetSource`
  yields the page in the frame when the renderer serves it, and is delivered in
  order. The context may be initialised before or after `CefInitialize` returns.
  With `Popups`, a page may open a browser at any time and any browser may be
  closed; `DoClose` comes before `OnBeforeClose`; of a browser that is gone no source
  comes.
- *X server.* The window may be resized at any time; each resize is one
  `ConfigureNotify`, in order. Resizing a window that is gone is an error that is logged.
- *JavaScript, the web, language processing.* Which users a page gives reason to look
  up (up to `MaxUsers`), and whether an analysis resolves, is left open. The port of
  `rx_` may be in use (`PortFaults`).
- *KIQ* sends any of `KiqCmds` at any time, on `rx_` or `tx_`, with two arguments per
  command, and may answer.
- *ksys.* A suspend is followed by its wake; either callback runs at any moment.

## 3. What TLC checks

| run | question | result | distinct states |
|---|---|---|---|
| `server` | does `kiq::server` keep `Outbox` under any caller? | yes | 73,500 |
| `session` | with four commands, late results, time-outs and failed launches: is a session ever opened in an open one, or beside an analyzer that runs? is a running one always accounted for? | no; yes | 11 million |
| `ends` | with sends and launches that throw, a bind that fails and sockets that fill: what stops the main thread? while it goes on, does every analysis end, is every process joined, every URL opened? `Outbox` under the real caller | only a send that cannot go on; yes | 532,000 |
| `popups` | with popups that come and close: is a session ever opened in an open one? is a process left running for more than a URL that cannot be opened? | no; no | 5.1 million |
| `sleep` | can the sockets stay closed with no recovery due? what stops the main thread? what leaves a deferred command behind? is a message not yet sent lost over a sleep? | no; only a send that cannot go on; only a wait for a wake that never ends; no | 1.0 million |
| `client` | can the map hold a browser that is gone? is one looked up in vain with none closed? does the window follow? does the caller meet one browser? | no; no; yes; yes | 2.3 million |
| `sentinel` | does the real analyzer stay within the sketch? can its wait for a page be forgotten? does the reply flag outlive its reply? | yes; only by a query accepted since it was started; no | 8.9 million |

The properties, beyond the type invariants:
- `Outbox` / `ImplementsOutbox` (refinement): across failed sends, disconnections and
  reconnections no message is sent twice, by two sockets, or before an older one, and
  none is lost before it is sent but by a send that throws. `NullOnlyAtFront`: the
  null pointer of a failed send stays where `run()` skips it.
- `ImplementsSession` (refinement), `ActiveHasProcess`, `RunningIsAccountedFor`:
  see section 4.
- `KnownIsOpen`: whatever the order of popups and closings, what is looked up in
  `browsers_` has not been destroyed. `DownHasCause`: a lookup that finds nothing, and with
  it the end of the program, comes of a browser that was closed or a context that
  was late, never of the order of startup, queries, popups and late events.
  `WindowFollows`: when `run()` has read the events,
  the browser's window has the size of the frame, in whatever order the browser,
  the resize and the event came. `ImplementsBrowser` (refinement): the caller of
  `KCEFClient` meets what `Browser` says.
- `ImplementsController` (refinement): the analyzer process does nothing that the
  sketch in `Controller` does not allow. `SentinelTypeOK` ties its program counter to
  the process the controller knows of.
- `WaitIsKnown`: while the analyzer waits for a page, its request is on its way, or
  `app_waiting_` is set; or a query was accepted since the analyzer was started, which
  resets `app_waiting_` (`controller.cpp:120`) and leaves `app_requested_` set, and the answer
  is never sent. Where no suspension or reconnection drops messages (`Calm`), nothing else
  loses the wait: not a refused query, a result, a source, a time-out or a join.
- `ReplyHasMessage`: `reply_` is set only while a reply is queued, if no send throws.
- `LinkDownMeansRecovering`: closed sockets are always announced by
  `should_flush_` or `was_sleeping_`.
- `MainLoops` (liveness): `work()` comes round for ever, or the main thread stops at the
  send (`controller.cpp:278`), on sockets that are not connected or on a full `ax_`, and
  never anywhere else: not waiting for a process, not by what is thrown.
- `AnalysisEnds`, `ProcessJoined`, `QueueDrains` (liveness), each under the condition that
  `work()` comes round: an open analysis ends, whatever its process does; a process that
  ended, or could not be started, is joined; a queue of URLs becomes empty.
- `DeferredRun` (liveness), under the same condition: the commands deferred while waking
  are all run, unless the program waits for ever for a wake. It may: a suspend and wake
  during the recovery from the one before (`lostwake`), with two commands deferred, leave
  the second behind.

`server`, `session` and `sentinel` also check that there is no deadlock: without
suspension and failed bind, and with room in `ax_`, the main thread never waits for
something nobody will do. `ends`, `sleep` and `popups` switch the check off, because there
it does, after a bind that failed, on closed sockets (`norecovery`) or with `ax_` full of
sources nobody reads; in the first two `MainLoops` says that there is nothing else.
`client` switches it off because a crash, or the last browser closed, is an end.

**Bounds.** `MaxCmds`, `MaxAsks`, `MaxSleeps` limit how often KIQ, the analyzer and
the system take the initiative; `MaxIn` how many messages lie unread when KIQ
sends another; `MaxFrames` and `MaxFetch` the frames of a page and the sources under
way (`MaxFetch` only limits `OnLoadEnd`, a query always asks; in `Client` both wait for
room); `Hwm` the high-water mark (1000 in reality).
- `server`: `Hwm` is 1, so that a full socket is met at once.
- `session`: a query is accepted only after a "message" has given the page the focus. Two
  commands make an analysis; the third is a query under it, or after it was given up; the
  fourth makes a second analysis with a page change before it (message, query, message,
  query). The analyzer sends one thing, a result that comes at any time.
- `ends`: two commands, `loadurl` among them, and one result: one
  analysis, or a URL queued before there is a browser, with everything that
  throws. `Hwm` is 1: a message KIQ has not read blocks the next, and one source fills
  `ax_`. There is no second analysis, and no popup, so no wait at `replace`.
- `sleep`: two suspensions, for one to fall into the recovery of the other; two
  commands, for the second to be left behind when the first was run. `Hwm` is 1.
- `popups`: looks at a part of the states, by the constraint `PopupsBound`. A process left
  running takes a URL in the queue while there is no browser, three commands, a
  result and a second source; these come in every order with popups and closings. Only
  the first command may be a signal, one that opens no page. What the constraint
  leaves out (pages that fail, sources of other pages, commands on `tx_`) is in `session`,
  without popups.
- `client`: two browsers, the first and a popup, either of which may be closed first, two
  sizes, `MaxXEvents` = 2, enough for a resize to and fro unread, and a URL and a word that
  is none for `set_url()`; the browsers are symmetric.
- `sentinel`: one user (`MaxUsers`) and three messages of the analyzer (`MaxAsks`): a page, a
  text and a result, the whole of its part. `Hwm` has room for all it can send, so that
  blocking does not hide a state. Of three commands the last may be a query under the
  analysis. The constraint `SentinelBound` leaves out pages that fail, a second
  source under way and commands on `tx_`.

Every safety property of these runs is also proved, with no bound and no constraint.

**Fairness** (`FairSpec`, used by the liveness runs). Weak fairness of the main
thread's own steps and of the pump's return: the thread is scheduled. A send that
cannot go on is not obliged to throw: only sending counts as the step that must come.
Strong fairness of the delivery of a source and of the creation of the browser asked
for: `cef` is left and reached again, and CEF delivers what it owes. Weak fairness of
the clocks, of the end of the analyzer (the limit of 240 seconds), and of KIQ reading
what it is sent. Nothing obliges KIQ to send, a navigation to commit, the analyzer to
succeed or the system to wake. Weak fairness of `Replace`, a callback that waited for a
process, is stated too, but no liveness run has popups: that the wait inside
the callback ends rests on the same 240 seconds and is not checked.

### Disagreements with the code's own words

Each is a run that expects a violation of what a message or comment of the code
says; `PROJECT.json` quotes the line.

| run | what happens |
|---|---|
| `misrouted` | an answer meant for the analyzer leaves by KIQ's socket: `reply_` concerns the next send, whatever it is |
| `misfit` | the analyzer reads, as the answer to its request, the page that was there before, or a second answer to the request before |
| `lostwake` | a suspend and wake while the program recovers from the previous one: it waits for a wake that has happened |
| `norecovery` | a suspend that begins inside a round closes the sockets and then sends on them: blocked, the wake is never handled |
| `stuckrequest` | `app_requested_` left set by a dropped source: every "message" is refused from then on |

Further behaviours of the model that a reader of the code should know, without a
run of their own:
- A query refused for want of focus or of a loaded page has already started
  `timer_` (`controller.cpp:109`), so that for 30 minutes queries are refused as "Query
  already in progress", with none in progress.
- A failed bind is logged as survived (`server.cpp:66`) and leaves `tx_` unconnected;
  the send of the message `connect()` then enqueues blocks the main thread for good.
- The URL a source is saved and analysed under is read when the source arrives
  (`controller.cpp:196`), not when it was captured: after a navigation in between it is another page's.
- "App already active. Not changing URL" (`controller.cpp:86`) is decided by
  `app_requested_`, which launching resets: a "message" does change the URL of an active analysis.
- A `loadurl` deferred while waking opens the word "loadurl": the arguments of a
  `platform_info` are stored in the other order than they are passed in when awake
  (`controller.cpp:72`, `:74`). One step of the model (`Args`, `DeferredArgs`) shows it.
- A query accepted once `timer_` has expired during a session resets `app_waiting_`
  (`:120`): the page the analyzer waits for is then not sent to it.
- An analysis is not tied to its process: the result of one given up, arriving
  late, closes the session that is open by then (`:134`).
- After a give-up with a query accepted meanwhile, the next source may launch while the
  process given up has ended and is not joined: its future is replaced, which does not
  wait, and its `get()` (`:285`), with what it would rethrow, never runs.
- With two commands deferred while waking, a wake lost after the first was run leaves
  the second behind: every round then returns at `:248`, though the system is awake.
- The 25 minutes the analyzer allows a loop over users (`twitter.js:288`) are never
  reached: `kiq::process` ends it after 240 seconds (`controller.cpp:232`).
- Closing a popup empties `browsers_` while the first browser is open
  (`handler.cpp:90-101`): `set_url()` and `query()` throw from then on, and a `GetSource`
  event still to run inserts a null entry and dereferences it (`:210`).
- With a popup closed, `set_url()` throws (`controller.cpp:335`) and the join of that round is
  skipped. If the result came in that round and a query had been accepted under the
  analysis, its source launches in the pump that follows: assigning the future waits
  for the process before it, inside the callback (`:230`), up to 240 seconds without
  browser, IPC or wake handling, and two analyzers run at once. `Replace` is the step, and
  the run `popups` takes it.
- After the last browser closed the loop goes on, with a plain pointer to a client
  CEF has let go of: `CefQuitMessageLoop()` (`:101`) ends no loop of
  `CefDoMessageLoopWork()`.
- If CEF initialises its context only after `CefInitialize` has returned, the
  controller is built on a null pointer (`main.cpp:75`).
- The constructor of `xwindow` drops a `ConfigureNotify` that comes before `MapNotify`
  (`window.hpp:24`): `width_` keeps its default until the next resize.
- The comment of `wake_timer_` says 5 seconds, the type 25000 ms (`controller.hpp:46`).

## 4. What is proved

With TLAPS, for every value of the constants that satisfies the named
assumptions (`UrlAssumption`, `ServerAssumption`, `BrowserAssumption`,
`ControllerAssumption`, `CallsAssumption`, `ClientAssumption`, `AnalyzerAssumption`,
`SentinelAssumption`).

| theorem | statement |
|---|---|
| `ServerTypeCorrect`, `NullStaysAtFront` | `ServerSpec => []TypeOK`, `[]NullOnlyAtFront` |
| `ServerImplementsOutbox` | `ServerSpec => Outbox` |
| `TypeCorrect` | `Spec => []TypeOK`, the whole program |
| `OpenSessionHasProcess` | `Spec => []ActiveHasProcess` |
| `ProcessIsAccountedFor` | `Spec => []RunningIsAccountedFor` |
| `ControllerImplementsSession` | `Spec => ImplementsSession` |
| `LinkRecovers` | `Spec => []LinkDownMeansRecovering` |
| `NullIsAtFront` | `Spec => []NullOnlyAtFront` |
| `ControllerImplementsOutbox` | `Spec => ImplementsOutbox` |
| `ReplyIsForAMessage` | `Spec => []ReplyHasMessage` |
| `ClientTypeCorrect` | `ClientSpec => []TypeOK` |
| `KnownStaysOpen`, `WindowStaysRight` | `ClientSpec => []KnownIsOpen`, `[]WindowFollows` |
| `DownOnlyForCause` | `ClientSpec => []DownHasCause` |
| `ClientImplementsBrowser` | `ClientSpec => ImplementsBrowser` |
| `SentinelTypeCorrect` | `SentinelSpec => []SentinelTypeOK` |
| `SentinelImplementsController` | `SentinelSpec => ImplementsController` |
| `WaitStaysKnown` | `SentinelSpec => []WaitIsKnown` |

**Types.** A step is one of ten of `work()`, one of the pump, the wait at `replace`, or the
world; `HandleType` covers all handlers at once for any two values as arguments, since the deferred
ones come in the other order.

**The session.** `ImplementsSession` says that a session is opened only for an accepted
query, in no open session and, without popups, beside no analyzer that runs; and
that an analyzer is joined only when its session is closed and it has ended. It does not
say that every analyzer is joined before the next starts: one that has ended may be
replaced unjoined, and after a give-up is. `SessionInv` is inductive: types, `ActiveHasProcess`,
`RunningIsAccountedFor`, `PageKnown` (without popups a page was loaded before a query
is accepted, so that a job is never empty) and `ReplacingIsOpen` (at `replace` the
session is open and no query accepted, since no handler runs meanwhile). With popups
the abstract `Session` has `Overlaps`: a session may be opened over a worker that was
let go of (`Launch` over a running process), which ends before the new one takes its
place (`Replace` maps to `TakeOver`). That without popups no session is opened over a
running worker is the harder half, and its argument is in `RunningIsAccountedFor`.
Launching needs `app_requested_` and not `app_active_`. While a session is open a
query is accepted only if `timer_` was not running, and starts it: `timer_` is then
younger than the process and cannot expire before it ends. Giving up requires `timer_`
not to run, so no such query exists, and restarts `timer_`: queries are refused until
the process is over, and `work()` joins it in its next round. A result leads through
`deferred` and `load` to the join without passing the pump; `set_url()` could throw
and skip the join, but only without a browser, and a session was opened on a page,
which without popups stays. So no source can launch while a process runs. With popups
exactly this step fails (section 3), and what is left is the last disjunct: the URL
that was not opened stays in the queue (`QueueStays`: the last one leaves it only on
the way to the join), so the process is left running no longer than that.
`SessionStep` and `StepCases` reduce the whole of `Next` to eight shapes first, so
that each argument is made once.

**The link.** `LinkInv` adds `Waking`: between the test of `was_sleeping_` and its
reset the flag is still set, because only the main thread resets it.

**The outbox and the reply flag.** `QueueStep` (`ServerLemmas`) lists what a step can do
to `out_` and the sockets: add at the tail, send, lose or drop the head, take from a
wire. That these keep `NullOnlyAtFront` and implement `Outbox` is proved once; the server
under any caller (`CallsQueue`) and the whole program (`OutSteps`) are shown to take no
other steps. `OutStep` adds what becomes of the flag: each case keeps a reply in the
queue while it is set.

**The client.** `KnownIsOpen` is inductive with the types. `WindowFollows` needs
`WindowInv`: the last unread event has the size of the frame; without one, `width_`
has it once an event has come; the browser's window has the size `width_` tells.
`DownHasCause` needs `CauseInv`: the map is empty only before the first browser or
after one was closed, and an event or a source, which looks something up, comes after
the first. The refinement needs `SeenInv`: a browser not yet created has nothing to
show, requests are made of created ones only, and without popups the one created is
the one in the map. Creation maps to `Create` or, for a popup, `Replaced`; closing the
browser in the map to `Replaced`; what the others do to `Others`; startup, late events
and the window to stuttering.

**The analyzer.** `SentinelInv` says what the process can say (`Requests` and `Result`, which
the controller's sketch allows) and that it awaits something exactly while it
runs; with it each step maps to one of `Controller`, or stutters while the process thinks.
All invariants of `Controller` then hold of `Sentinel`. `WaitIsKnown` is inductive with
`CalmInv` (no suspension under way, no status message anywhere): a request moves from
the pipe to `rx_`, to `msgs_`, to its handler, which sets `app_waiting_`. That flag is
reset by a join, which the running process excludes; by a launch, which
`RunningIsAccountedFor` excludes while it runs; and by an accepted query, which sets
`app_requested_`. Only a launch resets that one, so the exception stays as long as the
process. Without `Calm` a suspension or a reconnection may drop the request.

Left to TLC: the liveness properties, because fairness is out of the prover's
reach. Every safety property of a passing run is proved.

## 5. What is not modelled, and what is left

Not modelled:
- Text analysis (`utils.js`, `user.js`): language processing, HTML parsing and web
  requests, pure data of which the system sees a text. `utils.js:28`, the promise that is
  not resolved, is in `Analyzer` (`Resolve`, `Strategy`: "stuck").
- Command-line switches, settings, logging, window titles, the views delegates that
  no call reaches, `CloseAllBrowsers` and what reads `is_closing_` (nobody calls them),
  `busy_` (only logged), scrolling, file names and escaping; HTTP codes other than by
  their effect on `OnLoadEnd`.
- What a dangling or null pointer does after it was used: the model ends there.
- The three dependencies `kproto`, `kutils`, `ksys`, whose sources are not in the
  repository: section 2 says what is assumed of them.

Left for later:
1. Two analyzers one after the other in `Sentinel`: how many unread answers a session
   leaves in `ax_`, what the next finds there. `misfit` shows a misfit within one.
2. `Sentinel` with popups: two analyzers at once, of which the second cannot bind its port
   while the first has it.
3. The liveness of `session` with the analyzer in detail.
4. `Client` in place of `Browser` inside `Controller`, as a theorem: the controller with
   the map, popups and late events of the client implements `Controller`.
5. Liveness with popups: that a callback waiting for a process ends, and what a URL
   that cannot be opened leaves undone.
