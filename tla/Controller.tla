----------------------------- MODULE Controller -----------------------------
(***************************************************************************)
(* The controller (controller.cpp) with the server and the browser it      *)
(* drives, the analyzer process it starts, the KIQ daemon, the clocks, and *)
(* the thread that reports suspend and wake.                               *)
(*                                                                         *)
(* The main thread alternates work() with the message pump of CEF. work()  *)
(* is cut where another thread can come between: before every read of      *)
(* should_flush_ or was_sleeping_, which the ksys thread writes without a  *)
(* lock, and before every call that may block. Everything between two cuts *)
(* is one step; pc names the cut.                                          *)
(***************************************************************************)
EXTENDS Server, Browser

CONSTANTS
  KiqCmds,    \* commands KIQ sends of its own accord
  KiqAnswers, \* kinds of message KIQ answers: "status", "keepalive", "generate"
  Asks,       \* requests the analyzer makes: Info("loadurl", p), ...
  Results,    \* analysis results: the payload of "analysis"
  LaunchFaults, \* can starting the analyzer process throw?
  MaxCmds, MaxAsks, MaxSleeps,  \* bounds: how often each happens
  MaxIn       \* bound: KIQ sends while fewer messages are unread

ASSUME ControllerAssumption ==
  /\ KiqCmds \subseteq InMsg
  /\ KiqAnswers \subseteq {"status", "keepalive", "generate"}
  /\ Asks \subseteq InMsg
  /\ Results \subseteq Values
  /\ LaunchFaults \in BOOLEAN
  /\ MaxCmds \in Nat /\ MaxAsks \in Nat /\ MaxSleeps \in Nat /\ MaxIn \in Nat

VARIABLES
  appWaiting,    \* app_waiting_: the analyzer waits for a page
  appRequested,  \* app_requested_: a query waits for its source
  appActive,     \* app_active_: an analysis is under way
  wasSleeping,   \* was_sleeping_
  shouldFlush,   \* should_flush_
  timer,         \* timer_ (30 minutes): "stopped", "running" or "expired"
  wakeDue,       \* wake_timer_ (25 seconds) has elapsed
  queue,         \* queue_: URLs to open
  token,         \* bucket_ would grant a request
  msgQueue,      \* msg_queue_: commands deferred while waking
  proc,          \* proc_future_: "none" if invalid, else "running", or ready:
                 \* "over", or "threw" an exception
  job,           \* the url and the source the process was started with
  timerYounger,  \* timer_ was last started after the process
  suspended,     \* the system is, or is about to be, asleep
  pc,            \* where the main thread is
  budget         \* how much of the bounds is left

sleepVars   == <<wasSleeping, shouldFlush, wakeDue, suspended>>
procVars    == <<proc, job>>
\* What a command handler may change.
handlerVars == <<appWaiting, appRequested, appActive, timer, timerYounger,
                 queue, out, reply, top, fetch>>
vars == <<serverVars, browserVars, appWaiting, appRequested, appActive, timer,
          timerYounger, queue, token, msgQueue, sleepVars, procVars, pc,
          budget>>

\* Everything a step of the main thread that runs no handler leaves alone,
\* but for the server's and the browser's variables.
ctlVars == <<appWaiting, appRequested, appActive, timer, timerYounger, queue,
             token, msgQueue, procVars, budget>>

NoJob == [url |-> NoUrl, source |-> NoUrl]
Jobs  == [url : Pages, source : Pages]

Running == {"running"}

-----------------------------------------------------------------------------
(* The command handlers (kiq_handler): args is the vector they are called  *)
(* with. A handler that throws, or has nothing to do, changes nothing.     *)

Ignore == UNCHANGED handlerVars

\* enqueue(): an empty URL is dropped.
Enqueue(url) == queue' = IF url = "none" THEN queue ELSE Append(queue, url)

StartTimer == timer' = "running" /\ timerYounger' = TRUE
StopTimer  == timer' = "stopped" /\ UNCHANGED timerYounger

\* "message". get_url() throws without a browser; idle_time() < 600 holds of a
\* recent load, and of none at all.
OnMessage(args) ==
  \/ /\ appRequested \/ there # "yes" \/ args[2] = page
     /\ Ignore
  \/ /\ ~appRequested /\ there = "yes"
     /\ args[2] = page => loaded
     /\ Focus /\ Enqueue(args[2])
     /\ UNCHANGED <<appWaiting, appRequested, appActive, timer, timerYounger,
                    out, reply, fetch>>

\* Variant of OnQuery: app_waiting_ is reset before the timer is tested.
OnQueryForgets(args) ==
  /\ appWaiting' = FALSE
  /\ \/ timer = "running" /\ UNCHANGED <<timer, timerYounger, appRequested, fetch>>
     \/ /\ timer # "running" /\ StartTimer
        /\ \/ ~(top /\ loaded) /\ UNCHANGED <<appRequested, fetch>>
           \/ top /\ loaded /\ appRequested' = TRUE /\ Query
  /\ UNCHANGED <<appActive, queue, out, reply, top>>

\* "query". The timer is tested first, and by that test started.
OnQuery(args) ==
  \/ timer = "running" /\ Ignore
  \/ /\ timer # "running" /\ StartTimer
     /\ ~top \/ ~loaded
     /\ UNCHANGED <<appWaiting, appRequested, appActive, queue, out, reply,
                    top, fetch>>
  \/ /\ timer # "running" /\ StartTimer
     /\ top /\ loaded
     /\ appRequested' = TRUE /\ appWaiting' = FALSE
     /\ Query
     /\ UNCHANGED <<appActive, queue, out, reply, top>>

\* "loadurl". Only logs a warning when nothing was requested.
OnLoadUrl(args) ==
  /\ appWaiting' = TRUE
  /\ Enqueue(args[1])
  /\ UNCHANGED <<appRequested, appActive, timer, timerYounger, out, reply,
                 top, fetch>>

\* "analysis".
OnAnalysis(args) ==
  /\ appActive' = FALSE
  /\ OnFinish
  /\ reply' = FALSE
  /\ out' = Append(out, Out("analysis", args[1]))
  /\ StopTimer
  /\ UNCHANGED <<appWaiting, appRequested, queue, fetch>>

\* "generate".
OnGenerate(args) ==
  /\ out' = Append(out, Out("generate", args[1]))
  /\ UNCHANGED <<appWaiting, appRequested, appActive, timer, timerYounger,
                 queue, reply, top, fetch>>

\* "generated".
OnGenerated(args) ==
  /\ EnqueueReply(Out("generated", args[1]))
  /\ UNCHANGED <<appWaiting, appRequested, appActive, timer, timerYounger,
                 queue, top, fetch>>

\* kiq_handler.at(type)(args). "info" scrolls the page, at most; an unknown
\* type throws.
Handle(type, args) ==
  \/ type = "message"   /\ OnMessage(args)
  \/ type = "query"     /\ OnQuery(args)
  \/ type = "loadurl"   /\ OnLoadUrl(args)
  \/ type = "analysis"  /\ OnAnalysis(args)
  \/ type = "generate"  /\ OnGenerate(args)
  \/ type = "generated" /\ OnGenerated(args)
  \/ type \notin Commands \ {"info"} /\ Ignore

-----------------------------------------------------------------------------
(* work(), step by step.                                                   *)

Goto(l) == pc' = l

\* controller.cpp:248
Check ==
  /\ pc = "check"
  /\ Goto(IF shouldFlush /\ ~wasSleeping THEN "cef" ELSE "sleep")
  /\ UNCHANGED <<serverVars, browserVars, ctlVars, sleepVars>>

\* :256-258 and :274-276: the two flags are read again.
Sleep ==
  /\ pc = "sleep"
  /\ \/ /\ wasSleeping
        /\ Goto(IF shouldFlush THEN "flush" ELSE "wake")
        /\ UNCHANGED serverVars
     \/ /\ ~wasSleeping /\ shouldFlush
        /\ Disconnect
        /\ Goto("send")
        /\ UNCHANGED <<out, msgs, reply>>
     \/ /\ ~wasSleeping /\ ~shouldFlush
        /\ Goto("send")
        /\ UNCHANGED serverVars
  /\ UNCHANGED <<browserVars, ctlVars, sleepVars>>

\* :260-264
FlushStale ==
  /\ pc = "flush"
  /\ Flush
  /\ wakeDue' = FALSE /\ shouldFlush' = FALSE
  /\ Goto("wake")
  /\ UNCHANGED <<out, msgs, reply, linked, txq, wire, browserVars, ctlVars,
                 wasSleeping, suspended>>

\* Variant of Wake: looking at the timer restarts it, so it never elapses.
WakeRestarted ==
  /\ pc = "wake"
  /\ Goto("send")
  /\ wakeDue' = FALSE
  /\ UNCHANGED <<serverVars, browserVars, ctlVars, wasSleeping, shouldFlush,
                 suspended>>

\* :266
Wake ==
  /\ pc = "wake"
  /\ Goto(IF wakeDue THEN "recover" ELSE "send")
  /\ wakeDue' = FALSE
  /\ UNCHANGED <<serverVars, browserVars, ctlVars, wasSleeping, shouldFlush,
                 suspended>>

\* Variant of Recover: the sockets are not connected again.
RecoverUnconnected ==
  /\ pc = "recover"
  /\ wasSleeping' = FALSE
  /\ out' = out \o Hello
  /\ OnFinish
  /\ Goto("send")
  /\ UNCHANGED <<msgs, reply, linked, rxq, txq, wire, there, page, nav, ends,
                 fetch, got, loaded, ctlVars, shouldFlush, wakeDue,
                 suspended>>

\* :268-271
Recover ==
  /\ pc = "recover"
  /\ wasSleeping' = FALSE
  /\ Reconnect /\ out' = out \o Hello
  /\ OnFinish
  /\ Goto("send")
  /\ UNCHANGED <<msgs, reply, there, page, nav, ends, fetch, got, loaded,
                 ctlVars, shouldFlush, wakeDue, suspended>>

\* :278, TX half of run(). A failed send ends this round of work().
Send ==
  /\ pc = "send"
  /\ \/ SendNothing /\ Goto("recv")
     \/ SendHead    /\ Goto("recv")
     \/ SendThrows  /\ Goto("cef")
  /\ UNCHANGED <<msgs, linked, rxq, txq, browserVars, ctlVars, sleepVars>>

\* :278, RX half of run(), and the dispatch table (:24-81).
OnStatus ==
  /\ Reconnect
  /\ out' = out \o <<Out("okay", "none")>> \o Hello
                \o <<Out("keepalive", "none")>>
  /\ UNCHANGED <<reply, top, fetch, appWaiting, appRequested, appActive,
                 timer, timerYounger, queue>>

OnKeepalive ==
  /\ out' = Append(out, Out("keepalive", "none"))
  /\ UNCHANGED <<reply, top, fetch, appWaiting, appRequested, appActive,
                 timer, timerYounger, queue>>

\* The arguments a kiq_message and a platform_info call their handler with,
\* and the ones both are deferred with.
Args(m) == IF m.ipc = "kiq" THEN <<m.type, m.arg>> ELSE <<m.arg, m.type>>
DeferredArgs(m) == <<m.type, m.arg>>

OnCommand(m) ==
  \/ /\ wasSleeping
     /\ msgQueue' = Append(msgQueue, <<m.type, DeferredArgs(m)>>)
     /\ Ignore
  \/ /\ ~wasSleeping
     /\ Handle(m.type, Args(m))
     /\ UNCHANGED msgQueue

Dispatch(m) ==
  \/ /\ m.ipc = "status" /\ OnStatus /\ Goto("deferred")
     /\ UNCHANGED msgQueue
  \/ /\ m.ipc # "status" /\ Recv /\ UNCHANGED <<linked, wire>>
     /\ \/ /\ m.ipc = "keepalive" /\ OnKeepalive /\ Goto("deferred")
           /\ UNCHANGED msgQueue
        \/ /\ m.ipc \in {"ok", "undecodable"} /\ Ignore /\ Goto("deferred")
           /\ UNCHANGED msgQueue
        \/ /\ m.ipc = "malformed" /\ Ignore /\ Goto("cef")
           /\ UNCHANGED msgQueue
        \/ /\ m.ipc \in {"kiq", "info"} /\ OnCommand(m) /\ Goto("deferred")

Receive ==
  /\ pc = "recv"
  /\ \/ /\ Inbox = <<>>
        /\ Ignore /\ Goto("deferred")
        /\ UNCHANGED <<msgs, msgQueue, linked, rxq, txq, wire>>
     \/ /\ Inbox # <<>>
        /\ Dispatch(Head(Inbox))
        /\ msgs' = Tail(Inbox)
  /\ UNCHANGED <<there, page, nav, ends, got, loaded, token, procVars,
                 sleepVars, budget>>

\* :279, handle_queue(), the deferred command (:315-328).
Deferred ==
  /\ pc = "deferred"
  /\ \/ /\ msgQueue = <<>> \/ wasSleeping
        /\ Ignore /\ UNCHANGED msgQueue
     \/ /\ msgQueue # <<>> /\ ~wasSleeping
        /\ Handle(Head(msgQueue)[1], Head(msgQueue)[2])
        /\ msgQueue' = Tail(msgQueue)
  /\ Goto("load")
  /\ UNCHANGED <<msgs, linked, rxq, txq, wire, there, page, nav, ends, got,
                 loaded, token, procVars, sleepVars, budget>>

\* Variant of Load: the URL is not popped.
LoadKept ==
  /\ pc = "load"
  /\ \/ /\ queue = <<>> \/ ~token
        /\ UNCHANGED <<token, nav>>
     \/ /\ queue # <<>> /\ token
        /\ IF there = "yes" THEN SetUrl(Head(queue)) ELSE UNCHANGED nav
        /\ token' = FALSE
  /\ Goto("join")
  /\ UNCHANGED <<serverVars, there, page, ends, fetch, got, top, loaded,
                 appWaiting, appRequested, appActive, timer, timerYounger,
                 queue, msgQueue, procVars, sleepVars, budget>>

\* Variant of Load: the URL is popped before set_url() may throw.
LoadPopped ==
  /\ pc = "load"
  /\ \/ /\ queue = <<>> \/ ~token
        /\ Goto("join")
        /\ UNCHANGED <<queue, token, nav>>
     \/ /\ queue # <<>> /\ token
        /\ queue' = Tail(queue) /\ token' = FALSE
        /\ IF there = "yes" THEN SetUrl(Head(queue)) /\ Goto("join")
                            ELSE UNCHANGED nav /\ Goto("cef")
  /\ UNCHANGED <<serverVars, there, page, ends, fetch, got, top, loaded,
                 appWaiting, appRequested, appActive, timer, timerYounger,
                 msgQueue, procVars, sleepVars, budget>>

\* handle_queue(), the next URL (:330-336). set_url() throws without a browser:
\* the token is gone, the URL is not, and the rest of the round is skipped.
Load ==
  /\ pc = "load"
  /\ \/ /\ queue = <<>> \/ ~token
        /\ Goto("join")
        /\ UNCHANGED <<queue, token, nav>>
     \/ /\ queue # <<>> /\ token /\ there = "yes"
        /\ SetUrl(Head(queue))
        /\ queue' = Tail(queue) /\ token' = FALSE
        /\ Goto("join")
     \/ /\ queue # <<>> /\ token /\ there # "yes"
        /\ token' = FALSE
        /\ Goto("cef")
        /\ UNCHANGED <<queue, nav>>
  /\ UNCHANGED <<serverVars, there, page, ends, fetch, got, top, loaded,
                 appWaiting, appRequested, appActive, timer, timerYounger,
                 msgQueue, procVars, sleepVars, budget>>

\* Variants of Join: without the test of app_active_; without the wait, as
\* the TODO of :284 has it; for a process that started only; without get().
JoinWhileActive ==
  /\ proc \in {"over", "threw"}
  /\ proc' = "none" /\ job' = NoJob
  /\ appWaiting' = FALSE /\ StopTimer
  /\ UNCHANGED <<appActive, top>>

JoinWithoutWaiting ==
  /\ ~appActive /\ proc # "none"
  /\ proc' = "none" /\ job' = NoJob
  /\ appWaiting' = FALSE /\ StopTimer
  /\ UNCHANGED <<appActive, top>>

JoinStartedOnly ==
  /\ ~appActive /\ proc = "over"
  /\ proc' = "none" /\ job' = NoJob
  /\ appWaiting' = FALSE /\ StopTimer
  /\ UNCHANGED <<appActive, top>>

JoinWithoutGet ==
  /\ ~appActive /\ proc \in {"over", "threw"}
  /\ appWaiting' = FALSE /\ StopTimer
  /\ UNCHANGED <<appActive, top, procVars>>

\* :281-288: the main thread waits for the process, however long. get()
\* rethrows what the thread threw, and the rest of the round is skipped.
Join ==
  /\ ~appActive /\ proc \in {"over", "threw"}
  /\ proc' = "none" /\ job' = NoJob
  /\ \/ proc = "over" /\ appWaiting' = FALSE /\ StopTimer
     \/ proc = "threw" /\ UNCHANGED <<appWaiting, timer, timerYounger>>
  /\ UNCHANGED <<appActive, top>>

\* Variants of GiveUp: the timer is tested and not restarted; app_active_ is
\* not cleared.
GiveUpTimerLeft ==
  /\ appActive /\ timer # "running"
  /\ UNCHANGED <<timer, timerYounger>>
  /\ appActive' = FALSE
  /\ OnFinish
  /\ UNCHANGED <<appWaiting, procVars>>

GiveUpStillActive ==
  /\ appActive /\ timer # "running"
  /\ StartTimer
  /\ OnFinish
  /\ UNCHANGED <<appActive, appWaiting, procVars>>

\* :289-295: timer_ stopped or expired.
GiveUp ==
  /\ appActive /\ timer # "running"
  /\ StartTimer
  /\ appActive' = FALSE
  /\ OnFinish
  /\ UNCHANGED <<appWaiting, procVars>>

CheckAnalyzer ==
  /\ pc = "join"
  /\ \/ Join \/ GiveUp
     \/ /\ IF appActive THEN timer = "running" ELSE proc = "none"
        /\ UNCHANGED <<appWaiting, appActive, timer, timerYounger, procVars,
                       top>>
  /\ Goto("cef")
  /\ UNCHANGED <<serverVars, there, page, nav, ends, fetch, got, loaded,
                 appRequested, queue, token, msgQueue, sleepVars, budget>>

-----------------------------------------------------------------------------
(* CefDoMessageLoopWork(): events of the browser, in any number.           *)

BrowserEvent ==
  /\ pc = "cef"
  /\ Pump
  /\ UNCHANGED <<serverVars, ctlVars, sleepVars, pc>>

\* The callback of the constructor (:188-243), s being the page whose source
\* it is given. get_url() without a browser throws through CEF and ends the
\* program: no step.
SendBack(s) ==
  /\ appActive /\ appWaiting
  /\ EnqueueReply(Out("new_url", s))
  /\ UNCHANGED <<appActive, appRequested, timerYounger, procVars, pc>>

Starts == proc' \in IF LaunchFaults THEN Running \cup {"threw"} ELSE Running

\* Variant of Launch: an analysis under way is no reason to wait (:218).
LaunchAnyway(s) ==
  /\ appRequested
  /\ appActive' = TRUE /\ appRequested' = FALSE
  /\ job' = [url |-> page, source |-> s]
  /\ IF proc \in Running THEN UNCHANGED proc /\ Goto("replace")
                         ELSE Starts /\ UNCHANGED pc
  /\ timerYounger' = FALSE
  /\ UNCHANGED <<out, reply>>

\* The future of a thread that still runs is replaced by waiting for it, with
\* the new process started already.
Launch(s) ==
  /\ appRequested /\ ~appActive
  /\ appActive' = TRUE /\ appRequested' = FALSE
  /\ job' = [url |-> page, source |-> s]
  /\ IF proc \in Running THEN UNCHANGED proc /\ Goto("replace")
                         ELSE Starts /\ UNCHANGED pc
  /\ timerYounger' = FALSE
  /\ UNCHANGED <<out, reply>>

DropSource ==
  /\ IF appActive THEN ~appWaiting ELSE ~appRequested
  /\ UNCHANGED <<out, reply, appActive, appRequested, timerYounger, procVars,
                 pc>>

OnSource ==
  /\ pc = "cef"
  /\ appWaiting \/ appRequested => there = "yes"
  /\ \E s \in Pages :
       /\ Visit(s)
       /\ SendBack(s) \/ Launch(s) \/ DropSource
  /\ UNCHANGED <<msgs, linked, rxq, txq, wire, appWaiting, timer, queue, token,
                 msgQueue, sleepVars, budget>>

\* :230, the thread that was waited for has ended.
Replace ==
  /\ pc = "replace" /\ proc = "over"
  /\ Starts
  /\ Goto("cef")
  /\ UNCHANGED <<serverVars, browserVars, appWaiting, appRequested, appActive,
                 timer, timerYounger, queue, token, msgQueue, job, sleepVars,
                 budget>>

EndPump ==
  /\ pc = "cef"
  /\ Goto("check")
  /\ UNCHANGED <<serverVars, browserVars, ctlVars, sleepVars>>

Work == Check \/ Sleep \/ FlushStale \/ Wake \/ Recover \/ Send \/ Receive
        \/ Deferred \/ Load \/ CheckAnalyzer
Main == Work \/ BrowserEvent \/ OnSource \/ Replace \/ EndPump

-----------------------------------------------------------------------------
(* The KIQ daemon, at the other end of tx_ and of rx_.                     *)

Room == Len(msgs) + Len(rxq) + Len(txq) < MaxIn

KiqSends ==
  /\ linked /\ Room
  /\ budget.cmds > 0
  /\ budget' = [budget EXCEPT !.cmds = @ - 1]
  /\ \E m \in KiqCmds :
       \/ rxq' = Append(rxq, m) /\ UNCHANGED txq
       \/ txq' = Append(txq, m) /\ UNCHANGED rxq
  /\ UNCHANGED <<out, msgs, reply, linked, wire>>

\* What KIQ answers, if it does.
Answer(kind) ==
  CASE kind = "status"    -> Signal("ok")
    [] kind = "keepalive" -> Signal("keepalive")
    [] OTHER              -> Info("generated", "text")

KiqTakes ==
  /\ wire["tx"] # <<>>
  /\ wire' = [wire EXCEPT !["tx"] = Tail(@)]
  /\ \/ UNCHANGED txq
     \/ /\ linked /\ Room
        /\ Head(wire["tx"]).kind \in KiqAnswers
        /\ txq' = Append(txq, Answer(Head(wire["tx"]).kind))
  /\ UNCHANGED <<out, msgs, reply, linked, rxq, budget>>

KiqDaemon == KiqSends \/ KiqTakes

-----------------------------------------------------------------------------
(* The analyzer process: what it sends arrives at rx_, what it reads comes *)
(* from ax_ (socket.js:58-69). kiq::process ends it after 240 seconds at   *)
(* the latest. Sentinel has the process in detail; here its messages are   *)
(* not tied to it: they may come late, or from one that outlived its end.  *)

AnalyzerSends ==
  /\ linked /\ budget.asks > 0
  /\ budget' = [budget EXCEPT !.asks = @ - 1]
  /\ \E m \in Asks \cup {Info("analysis", r) : r \in Results} :
       rxq' = Append(rxq, m)
  /\ UNCHANGED <<out, msgs, reply, linked, txq, wire, procVars>>

AnalyzerReceives ==
  /\ proc \in Running /\ wire["ax"] # <<>>
  /\ wire' = [wire EXCEPT !["ax"] = Tail(@)]
  /\ UNCHANGED <<out, msgs, reply, linked, rxq, txq, procVars, budget>>

\* It ends, with the messages it had received and not read.
AnalyzerEnds ==
  /\ proc \in Running /\ proc' = "over"
  /\ \E k \in 0 .. Len(wire["ax"]) :
       wire' = [wire EXCEPT !["ax"] = SubSeq(@, k + 1, Len(@))]
  /\ UNCHANGED <<out, msgs, reply, linked, rxq, txq, job, budget>>

Analyzer == AnalyzerSends \/ AnalyzerReceives \/ AnalyzerEnds

-----------------------------------------------------------------------------
(* Clocks, and the thread of ksys_ (:170-184).                             *)

\* 30 minutes do not pass while a process of at most 240 seconds runs,
\* unless the timer was running before it.
TimerExpires ==
  /\ timer = "running" /\ timer' = "expired"
  /\ timerYounger => proc \notin Running
  /\ UNCHANGED <<wakeDue, token>>

\* Only looked at while waking: it may as well elapse then.
WakeTimerElapses ==
  /\ ~wakeDue /\ wasSleeping /\ wakeDue' = TRUE
  /\ UNCHANGED <<timer, token>>

BucketRefills ==
  /\ ~token /\ token' = TRUE
  /\ UNCHANGED <<timer, wakeDue>>

Clock == TimerExpires \/ WakeTimerElapses \/ BucketRefills

Suspend ==
  /\ ~suspended /\ suspended' = TRUE
  /\ budget.sleeps > 0
  /\ budget' = [budget EXCEPT !.sleeps = @ - 1]
  /\ shouldFlush' = TRUE /\ wakeDue' = FALSE
  /\ UNCHANGED wasSleeping

Resume ==
  /\ suspended /\ suspended' = FALSE
  /\ wasSleeping' = TRUE
  /\ UNCHANGED <<shouldFlush, wakeDue, budget>>

-----------------------------------------------------------------------------
\* What each of these leaves alone.
KiqFrame == UNCHANGED <<browserVars, appWaiting, appRequested, appActive,
                        timer, timerYounger, queue, token, msgQueue,
                        sleepVars, procVars, pc>>
AnalyzerFrame == UNCHANGED <<browserVars, appWaiting, appRequested, appActive,
                             timer, timerYounger, queue, token, msgQueue,
                             sleepVars, pc>>
ClockFrame == UNCHANGED <<serverVars, browserVars, appWaiting, appRequested,
                          appActive, timerYounger, queue, msgQueue,
                          wasSleeping, shouldFlush, suspended, procVars, pc,
                          budget>>
KsysFrame == UNCHANGED <<serverVars, browserVars, appWaiting, appRequested,
                         appActive, timer, timerYounger, queue, token,
                         msgQueue, procVars, pc>>

\* All of the world but the analyzer.
Outside ==
  \/ KiqDaemon /\ KiqFrame
  \/ Clock /\ ClockFrame
  \/ (Suspend \/ Resume) /\ KsysFrame

World == Outside \/ (Analyzer /\ AnalyzerFrame)

Init ==
  /\ ServerInit /\ BrowserInit
  /\ appWaiting = FALSE /\ appRequested = FALSE /\ appActive = FALSE
  /\ wasSleeping = FALSE /\ shouldFlush = FALSE
  /\ wakeDue = FALSE /\ suspended = FALSE
  /\ timer = "stopped" /\ timerYounger = FALSE
  /\ queue = <<>> /\ token = TRUE /\ msgQueue = <<>>
  /\ proc = "none" /\ job = NoJob
  /\ pc = "check"
  /\ budget = [cmds |-> MaxCmds, asks |-> MaxAsks, sleeps |-> MaxSleeps]

Next == Main \/ World

Spec == Init /\ [][Next]_vars

(* Fairness. The main thread is scheduled, and a send that cannot go on    *)
(* need not throw; the pump returns and, in the end, creates the browser   *)
(* asked for and delivers the sources it owes;                             *)
(* time passes; kiq::process ends the analyzer; KIQ reads what it is sent. *)
(* Nothing obliges KIQ, a navigation, the analyzer or the system to do     *)
(* anything else.                                                          *)
Fairness ==
  /\ WF_vars(Work /\ (pc = "send" => Goto("recv")))
  /\ WF_vars(EndPump) /\ WF_vars(Replace)
  /\ SF_vars(OnSource)
  /\ SF_vars(BrowserEvent /\ Create)
  /\ WF_vars(TimerExpires /\ ClockFrame)
  /\ WF_vars(WakeTimerElapses /\ ClockFrame)
  /\ WF_vars(BucketRefills /\ ClockFrame)
  /\ WF_vars(AnalyzerEnds /\ AnalyzerFrame)
  /\ WF_vars(KiqTakes /\ KiqFrame)

FairSpec == Spec /\ Fairness

-----------------------------------------------------------------------------
(* What holds.                                                             *)

TypeOK ==
  /\ ServerTypeOK
  /\ BrowserTypeOK
  /\ appWaiting \in BOOLEAN /\ appRequested \in BOOLEAN
  /\ appActive \in BOOLEAN
  /\ wasSleeping \in BOOLEAN /\ shouldFlush \in BOOLEAN
  /\ wakeDue \in BOOLEAN /\ suspended \in BOOLEAN
  /\ timer \in {"stopped", "running", "expired"}
  /\ timerYounger \in BOOLEAN
  /\ queue \in Seq(Values) /\ token \in BOOLEAN
  /\ msgQueue \in Seq((Commands \cup {"none"}) \X (Values \X Values))
  /\ proc \in {"none", "over", "threw"} \cup Running
  /\ job \in Jobs
  /\ pc \in {"check", "sleep", "flush", "wake", "recover", "send", "recv",
             "deferred", "load", "join", "cef", "replace"}
  /\ budget \in [cmds : 0 .. MaxCmds, asks : 0 .. MaxAsks,
                 sleeps : 0 .. MaxSleeps]

\* While app_active_ is set there is a future to wait for, and its job: a page,
\* unless a popup may be asked for its URL before it has one.
ActiveHasProcess == appActive => proc # "none" /\ (~Popups => job # NoJob)

\* A running process is the business of the session that launched it: the
\* session is open; or its result has just come in, and the main thread is on
\* its way to join it; or it was given up, and the timer that was restarted
\* then refuses every query (:109) until the process is joined. What may throw
\* the main thread off that way (:335) is a URL there is no browser for, after
\* a popup closed; until it is opened the URL stays queued.
RunningIsAccountedFor ==
  proc \in Running =>
    \/ /\ appActive
       /\ appRequested => timer = "running" /\ timerYounger
    \/ ~appActive /\ pc \in {"deferred", "load", "join"}
    \/ ~appActive /\ ~appRequested /\ timer = "running" /\ timerYounger
    \/ ~appActive /\ Popups /\ queue # <<>>

\* controller.cpp implements Session: an analyzer is started for an accepted
\* query, never in an open session nor beside one that still runs, and joined
\* only when its session is closed and it has ended. Launching over a process
\* that still runs, which blocks inside a callback of the browser (:230), takes
\* a popup that was closed.
Sessions == INSTANCE Session WITH
  Overlaps <- Popups,
  wanted  <- appRequested,
  session <- IF appActive THEN "open"
             ELSE IF proc = "none" THEN "none" ELSE "closed",
  worker  <- IF proc = "none" THEN "none"
             ELSE IF proc \in Running THEN "running" ELSE "ended"

ImplementsSession == Sessions!SessionSpec

\* The server's promise survives its one caller: neither sleep nor a
\* reconnection loses a message that was not sent yet.
ImplementsOutbox == Box!OutboxSpec

\* The sockets stay closed (:276) only while a flush or a wake is due that
\* ends in a reconnection: no lost update of the two unlocked flags can leave
\* the program running, awake and disconnected.
LinkDownMeansRecovering ==
  BindOutcomes = {TRUE} => linked \/ shouldFlush \/ wasSleeping

\* reply_ does not outlive the reply it was set for, unless a send fails: it
\* would divert a message for KIQ.
ReplyHasMessage ==
  ~SendFaults =>
    (reply => \E i \in 1 .. Len(out) : out[i].kind \in AnalyzerBound)

\* work() comes round again and again.
Loops == []<>(pc = "check")

\* The main thread stops for good only where a message cannot be sent (:278): on
\* sockets that are not connected, as after a bind that failed, or to an
\* analyzer that has left ax_ full. Neither the wait for a process (:284), nor
\* KIQ, nor anything that is thrown ends it.
MainLoops ==
  Loops \/ <>[](pc = "send" /\ (linked => reply /\ Len(wire["ax"]) >= Hwm))

\* While the main thread comes round, an analysis ends, by its result or by the
\* timer (:289), whatever the process does.
AnalysisEnds == Loops => (appActive ~> ~appActive)

\* So is a process that has ended joined, also one that failed to start.
ProcessJoined == Loops => (proc \in {"over", "threw"} ~> proc = "none")

\* And every URL queued is handed to the browser (:330-336).
QueueDrains == Loops => (queue # <<>> ~> queue = <<>>)

\* A command deferred while waking is not left for good (:315-328) by a main
\* thread that comes round, unless it waits for a wake for ever (:248): one that
\* does not come, or one that was lost (WaitsOnlyForWake).
DeferredRun ==
  Loops => \/ msgQueue # <<>> ~> msgQueue = <<>>
           \/ <>[](shouldFlush /\ ~wasSleeping)

-----------------------------------------------------------------------------
(* What the code says of itself and does not keep; see the README.         *)

\* "Sending back to analyzer" (:204): an answer leaves by ax_.
AnswersGoToAnalyzer ==
  \A i \in 1 .. Len(wire["tx"]) : wire["tx"][i].kind \notin AnalyzerBound

\* "still waiting for wake" (:250): the round is skipped only before the wake.
WaitsOnlyForWake ==
  pc = "check" /\ shouldFlush /\ ~wasSleeping => suspended

\* "System waking. Waiting 25 seconds for connectivity." (:181)
WakeRecovers == wasSleeping ~> ~wasSleeping

\* "App already active. Not changing URL" (:86): the flag that refuses a
\* "message" stands for an analysis, or for a source that will start one.
RefusalHasReason == appRequested => appActive \/ fetch + Len(got) > 0

=============================================================================
