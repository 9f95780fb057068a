---------------------------- MODULE SessionProofs ----------------------------
(***************************************************************************)
(* The life of an analysis, for any pages, commands, answers and bounds:   *)
(* controller.cpp implements Session. The argument is a conjunction of two *)
(* facts, inductive together: an open session has a process, and a process *)
(* that still runs is the business of its session, or blocks the main      *)
(* thread, or is guarded by a timer that cannot expire before it ends, or, *)
(* with popups, was left running for a URL that could not be opened. Over  *)
(* such a one a session may be opened, and the main thread waits for it    *)
(* where it opens.                                                         *)
(***************************************************************************)
EXTENDS ControllerProofs

-----------------------------------------------------------------------------
(* What a handler may do to a session.                                     *)

\* The handlers but two leave a session alone.
SessionSame == UNCHANGED <<appActive, appRequested, timer, timerYounger>>

\* A query is accepted, or refused for want of a focused or loaded page; the
\* timer was not running and now is. A page is loaded when it is accepted.
Queried ==
  /\ timer # "running" /\ StartTimer
  /\ UNCHANGED appActive
  /\ UNCHANGED appRequested \/ (loaded /\ appRequested' = TRUE)

\* A result came in.
Analysed == appActive' = FALSE /\ StopTimer /\ UNCHANGED appRequested

LEMMA HandleSession ==
  ASSUME NEW type, NEW args, Handle(type, args)
  PROVE  SessionSame \/ Queried \/ Analysed
<1>1. CASE Ignore
  BY <1>1 DEF Ignore, handlerVars, SessionSame
<1>2. CASE OnMessage(args)
  <2>1. SessionSame
    BY <1>2 DEF OnMessage, Ignore, handlerVars, SessionSame
  <2>2. QED  BY <2>1
<1>3. CASE OnQuery(args)
  <2>1. CASE timer = "running" /\ Ignore
    BY <1>1, <2>1
  <2>2. CASE /\ timer # "running" /\ StartTimer
             /\ UNCHANGED <<appRequested, appActive>>
    BY <2>2 DEF Queried
  <2>3. CASE /\ timer # "running" /\ StartTimer /\ loaded
             /\ appRequested' = TRUE /\ UNCHANGED appActive
    BY <2>3 DEF Queried
  <2>4. QED  BY <1>3, <2>1, <2>2, <2>3 DEF OnQuery
<1>4. CASE OnLoadUrl(args)
  BY <1>4 DEF OnLoadUrl, SessionSame
<1>5. CASE OnAnalysis(args)
  BY <1>5 DEF OnAnalysis, Analysed
<1>6. CASE OnGenerate(args)
  BY <1>6 DEF OnGenerate, SessionSame
<1>7. CASE OnGenerated(args)
  BY <1>7 DEF OnGenerated, SessionSame
<1>8. QED
  BY <1>1, <1>2, <1>3, <1>4, <1>5, <1>6, <1>7 DEF Handle

\* Receive and Deferred, the two steps that run a handler, leave the process
\* and the page alone, and stay on the way to the join or reach the pump.
LEMMA CommandSession ==
  ASSUME Receive \/ Deferred
  PROVE  /\ SessionSame \/ Queried
            \/ (Analysed /\ pc' \in {"deferred", "load"})
         /\ UNCHANGED <<there, page, nav, ends, loaded, proc, job>>
         /\ pc \in {"recv", "deferred"} /\ pc' \in {"deferred", "load", "cef"}
         /\ pc = "deferred" => pc' = "load"
<1>1. CASE Receive
  <2>0. pc = "recv" /\ pc' \in {"deferred", "cef"}
    BY <1>1 DEF Receive, Dispatch, Goto
  <2>1. CASE Ignore
    BY <1>1, <2>0, <2>1 DEF Ignore, handlerVars, Receive, procVars, SessionSame
  <2>2. CASE Inbox # <<>> /\ Dispatch(Head(Inbox))
    <3>1. CASE OnStatus \/ OnKeepalive
      BY <1>1, <2>0, <3>1
      DEF OnStatus, OnKeepalive, Receive, procVars, SessionSame
    <3>2. CASE OnCommand(Head(Inbox)) /\ Goto("deferred")
      <4>1. CASE Ignore
        BY <2>1, <4>1
      <4>2. CASE Handle(Head(Inbox).type, Args(Head(Inbox)))
        <5>1. SessionSame \/ Queried \/ Analysed
          BY <4>2, HandleSession
        <5>2. pc = "recv" /\ pc' = "deferred"
          BY <1>1, <3>2 DEF Receive, Goto
        <5>3. UNCHANGED <<there, page, nav, ends, loaded, proc, job>>
          BY <1>1 DEF Receive, procVars
        <5>4. QED  BY <5>1, <5>2, <5>3
      <4>3. QED  BY <3>2, <4>1, <4>2 DEF OnCommand
    <3>3. QED  BY <2>1, <2>2, <3>1, <3>2, Zenon DEF Dispatch
  <2>3. QED  BY <1>1, <2>1, <2>2 DEF Receive
<1>2. CASE Deferred
  <2>1. pc = "deferred" /\ pc' = "load"
    BY <1>2 DEF Deferred, Goto
  <2>2. UNCHANGED <<there, page, nav, ends, loaded, proc, job>>
    BY <1>2 DEF Deferred, procVars
  <2>3. CASE Ignore
    BY <2>1, <2>2, <2>3 DEF Ignore, handlerVars, SessionSame
  <2>4. CASE Handle(Head(msgQueue)[1], Head(msgQueue)[2])
    <3>1. SessionSame \/ Queried \/ Analysed
      BY <2>4, HandleSession
    <3>2. QED  BY <2>1, <2>2, <3>1
  <2>5. QED  BY <1>2, <2>3, <2>4 DEF Deferred
<1>3. QED  BY <1>1, <1>2

-----------------------------------------------------------------------------
(* Every step, as the session sees it.                                     *)

\* Nothing about a session changes, and the main thread is not inside, or
\* does not leave, the stretch from a command to the join.
Aside ==
  /\ SessionSame /\ UNCHANGED <<proc, job>>
  /\ pc' = "replace" => pc = "replace"
  /\ pc \in {"deferred", "load", "join"} => pc' \in {"deferred", "load", "join"}

\* The three ways CheckAnalyzer goes.
Stays == /\ IF appActive THEN timer = "running" ELSE proc = "none"
         /\ SessionSame /\ UNCHANGED <<proc, job>>
Joins == Join /\ UNCHANGED appRequested
GivesUp == GiveUp /\ UNCHANGED appRequested

\* The other steps.
Launches == /\ \E s \in Pages : Launch(s)
            /\ UNCHANGED timer /\ pc = "cef"
            /\ pc' = IF proc \in Running THEN "replace" ELSE "cef"
Replaces == /\ pc = "replace" /\ pc' = "cef" /\ proc = "over" /\ Starts
            /\ SessionSame /\ UNCHANGED job
ProcessMoves == /\ proc \in Running /\ proc' = "over"
                /\ SessionSame /\ UNCHANGED <<job, pc>>
Expires == TimerExpires /\ UNCHANGED <<appActive, appRequested, timerYounger,
                                       proc, job, pc>>
Commanded == /\ SessionSame \/ Queried
                \/ (Analysed /\ pc' \in {"deferred", "load"})
             /\ UNCHANGED <<proc, job>>
             /\ pc \in {"recv", "deferred"} /\ pc' # "replace"
             /\ pc = "deferred" => pc' = "load"

\* set_url() throws: the join is skipped.
Skips == /\ SessionSame /\ UNCHANGED <<proc, job>>
         /\ pc = "load" /\ pc' = "cef"
         /\ there # "yes" /\ queue # <<>>

\* The session's view of a step.
SessionStep ==
  \/ Aside \/ Skips \/ Commanded \/ Launches \/ Replaces \/ ProcessMoves
  \/ Expires
  \/ pc = "join" /\ pc' = "cef" /\ (Stays \/ Joins \/ GivesUp)

\* The browser's view: without popups, only a browser navigates, and only a
\* page that committed makes OnLoadEnd calls; a query is accepted of a loaded page only, and a
\* process is started for a query only.
PageSame == /\ UNCHANGED <<there, page, ends, loaded>>
            /\ UNCHANGED nav \/ there = "yes" \/ nav # NoUrl

PageStep ==
  /\ PageSame \/ Create \/ Commit \/ OnLoadEnd \/ Popups
  /\ appRequested' => appRequested \/ loaded
  /\ proc' # "none" => proc # "none" \/ appRequested

LEMMA StepCases ==
  ASSUME [Next]_vars
  PROVE  SessionStep /\ PageStep
<1>1. CASE Check \/ Sleep \/ FlushStale \/ Wake \/ Recover \/ Send \/ Load
  <2>1. SessionSame /\ UNCHANGED <<proc, job>>
    BY <1>1
    DEF Check, Sleep, FlushStale, Wake, Recover, Send, Load, ctlVars, procVars,
        SessionSame
  <2>2. PageSame
    BY <1>1
    DEF Check, Sleep, FlushStale, Wake, Recover, Send, Load, browserVars,
        PageSame
  <2>3. \/ pc \in {"deferred", "load", "join"}
              => pc' \in {"deferred", "load", "join"}
        \/ pc = "load" /\ pc' = "cef" /\ there # "yes" /\ queue # <<>>
    BY <1>1 DEF Check, Sleep, FlushStale, Wake, Recover, Send, Load, Goto
  <2>4. pc' # "replace"
    BY <1>1 DEF Check, Sleep, FlushStale, Wake, Recover, Send, Load, Goto
  <2>5. QED
    BY <2>1, <2>2, <2>3, <2>4 DEF SessionStep, PageStep, Aside, Skips, SessionSame
<1>2. CASE Receive \/ Deferred
  <2>1. Commanded /\ UNCHANGED <<there, page, nav, ends, loaded>>
    BY <1>2, CommandSession DEF Commanded
  <2>2. appRequested' => appRequested \/ loaded
    BY <2>1 DEF Commanded, SessionSame, Queried, Analysed
  <2>3. QED  BY <2>1, <2>2 DEF SessionStep, PageStep, PageSame, Commanded
<1>3. CASE CheckAnalyzer
  <2>1. /\ UNCHANGED <<there, page, nav, ends, loaded, appRequested>>
        /\ pc = "join" /\ pc' = "cef"
    BY <1>3 DEF CheckAnalyzer, Goto
  <2>2. Stays \/ Joins \/ GivesUp
    BY <1>3, <2>1
    DEF CheckAnalyzer, Stays, Joins, GivesUp, SessionSame, procVars
  <2>3. proc' # "none" => proc # "none"
    BY <2>2 DEF Stays, Joins, Join, GivesUp, GiveUp, procVars
  <2>4. QED  BY <2>1, <2>2, <2>3 DEF SessionStep, PageStep, PageSame
<1>4. CASE BrowserEvent
  <2>1. SessionSame /\ UNCHANGED <<proc, job, pc>> /\ Pump
    BY <1>4 DEF BrowserEvent, ctlVars, procVars, SessionSame
  <2>2. PageSame \/ Create \/ Commit \/ OnLoadEnd \/ Popups
    BY <2>1 DEF Pump, LoadFails, Capture, Replaced, Others, PageSame
  <2>3. QED
    BY <2>1, <2>2 DEF SessionStep, PageStep, Aside, SessionSame
<1>5. CASE OnSource
  <2>1. PICK s \in Pages : Visit(s) /\ (SendBack(s) \/ Launch(s) \/ DropSource)
    BY <1>5 DEF OnSource
  <2>2. PageSame /\ UNCHANGED timer /\ pc = "cef"
    BY <1>5, <2>1 DEF OnSource, Visit, PageSame
  <2>3. CASE SendBack(s) \/ DropSource
    BY <2>2, <2>3
    DEF SendBack, DropSource, procVars, SessionSame, SessionStep, PageStep, Aside
  <2>4. CASE Launch(s)
    <3>1. Launches
      BY <2>2, <2>4 DEF Launches, Launch, Goto
    <3>2. appRequested' = FALSE /\ appRequested
      BY <2>4 DEF Launch
    <3>3. QED  BY <2>2, <3>1, <3>2 DEF SessionStep, PageStep
  <2>5. QED  BY <2>1, <2>3, <2>4
<1>6. CASE EndPump \/ UNCHANGED vars
  <2>1. /\ SessionSame /\ UNCHANGED <<proc, job>> /\ PageSame
        /\ (pc = "cef" /\ pc' = "check") \/ UNCHANGED pc
    BY <1>6
    DEF EndPump, Goto, vars, ctlVars, procVars, browserVars, SessionSame,
        PageSame
  <2>2. QED
    BY <2>1 DEF SessionStep, PageStep, Aside, SessionSame
<1>7. CASE World
  <2>1. /\ UNCHANGED <<appActive, appRequested, timerYounger, pc>>
        /\ PageSame
    BY <1>7 DEF World, Outside, KiqFrame, AnalyzerFrame, ClockFrame, KsysFrame,
       browserVars, PageSame
  <2>2. CASE (KiqDaemon /\ KiqFrame) \/ ((Suspend \/ Resume) /\ KsysFrame)
    <3>1. UNCHANGED <<timer, proc, job>>
      BY <2>2 DEF KiqFrame, KsysFrame, procVars
    <3>2. QED
      BY <2>1, <3>1 DEF SessionStep, PageStep, Aside, SessionSame
  <2>3. CASE Analyzer /\ AnalyzerFrame
    <3>1. UNCHANGED <<timer, job>>
      BY <2>3 DEF AnalyzerFrame, Analyzer, AnalyzerSends, AnalyzerReceives,
         AnalyzerEnds, procVars
    <3>2. CASE UNCHANGED proc
      BY <2>1, <3>1, <3>2 DEF SessionStep, PageStep, Aside, SessionSame
    <3>3. CASE proc \in Running /\ proc' = "over"
      BY <2>1, <3>1, <3>3
      DEF SessionStep, PageStep, ProcessMoves, SessionSame, Running
    <3>4. QED
      BY <2>3, <3>2, <3>3 DEF Analyzer, AnalyzerSends, AnalyzerReceives,
         AnalyzerEnds, procVars
  <2>4. CASE Clock /\ ClockFrame
    <3>1. UNCHANGED <<proc, job>>
      BY <2>4 DEF ClockFrame, procVars
    <3>2. CASE TimerExpires
      BY <2>1, <3>1, <3>2 DEF SessionStep, PageStep, Expires
    <3>3. CASE UNCHANGED timer
      BY <2>1, <3>1, <3>3 DEF SessionStep, PageStep, Aside, SessionSame
    <3>4. QED
      BY <2>4, <3>2, <3>3 DEF Clock, WakeTimerElapses, BucketRefills
  <2>5. QED  BY <1>7, <2>2, <2>3, <2>4 DEF World, Outside
<1>8. CASE Replace
  <2>1. Replaces /\ PageSame /\ UNCHANGED appRequested
    BY <1>8 DEF Replace, Replaces, Goto, browserVars, SessionSame, PageSame
  <2>2. QED  BY <2>1 DEF SessionStep, PageStep, Replaces
<1>9. QED
  BY <1>1, <1>2, <1>3, <1>4, <1>5, <1>6, <1>7, <1>8 DEF Next, Main, Work

\* The last URL leaves the queue only on the way to the join.
UrlsStay == queue # <<>> => queue' # <<>> \/ (pc = "load" /\ pc' = "join")

LEMMA EnqueueKeeps ==
  ASSUME TypeOK, queue # <<>>, NEW url, Enqueue(url)
  PROVE  queue' # <<>>
<1>1. queue \in Seq(Values)
  BY DEF TypeOK
<1>2. Append(queue, url) # <<>>
  BY <1>1
<1>3. QED  BY <1>2 DEF Enqueue

LEMMA HandleKeepsQueue ==
  ASSUME TypeOK, queue # <<>>, NEW type, NEW args, Handle(type, args)
  PROVE  queue' # <<>>
<1>1. CASE UNCHANGED queue
  BY <1>1
<1>2. CASE OnMessage(args)
  BY <1>1, <1>2, EnqueueKeeps DEF OnMessage, Ignore, handlerVars
<1>3. CASE OnLoadUrl(args)
  BY <1>3, EnqueueKeeps DEF OnLoadUrl
<1>4. CASE OnQuery(args) \/ OnAnalysis(args) \/ OnGenerate(args)
           \/ OnGenerated(args) \/ Ignore
  BY <1>1, <1>4
  DEF OnQuery, OnAnalysis, OnGenerate, OnGenerated, Ignore, handlerVars
<1>5. QED  BY <1>2, <1>3, <1>4 DEF Handle

LEMMA QueueStays ==
  ASSUME TypeOK, [Next]_vars
  PROVE  UrlsStay
<1> SUFFICES ASSUME queue # <<>>
             PROVE  queue' # <<>> \/ (pc = "load" /\ pc' = "join")
  BY DEF UrlsStay
<1>1. CASE UNCHANGED queue
  BY <1>1
<1>2. CASE Receive
  <2>1. CASE Inbox # <<>> /\ Dispatch(Head(Inbox))
    <3>1. CASE OnCommand(Head(Inbox))
      BY <1>1, <3>1, HandleKeepsQueue DEF OnCommand, Ignore, handlerVars
    <3>2. CASE OnStatus \/ OnKeepalive \/ Ignore
      BY <1>1, <3>2 DEF OnStatus, OnKeepalive, Ignore, handlerVars
    <3>3. QED  BY <2>1, <3>1, <3>2, Zenon DEF Dispatch
  <2>2. CASE Ignore
    BY <1>1, <2>2 DEF Ignore, handlerVars
  <2>3. QED  BY <1>2, <2>1, <2>2 DEF Receive
<1>3. CASE Deferred
  BY <1>1, <1>3, HandleKeepsQueue DEF Deferred, Ignore, handlerVars
<1>4. CASE Load
  BY <1>1, <1>4 DEF Load, Goto
<1>5. CASE Check \/ Sleep \/ FlushStale \/ Wake \/ Recover \/ Send
           \/ CheckAnalyzer
  BY <1>1, <1>5
  DEF Check, Sleep, FlushStale, Wake, Recover, Send, CheckAnalyzer, Join,
      GiveUp, ctlVars
<1>6. CASE BrowserEvent \/ OnSource \/ Replace \/ EndPump \/ UNCHANGED vars
  BY <1>1, <1>6 DEF BrowserEvent, OnSource, Replace, EndPump, vars, ctlVars
<1>7. CASE World
  BY <1>1, <1>7
  DEF World, Outside, KiqFrame, AnalyzerFrame, ClockFrame, KsysFrame
<1>8. QED
  BY <1>2, <1>3, <1>4, <1>5, <1>6, <1>7 DEF Next, Main, Work

-----------------------------------------------------------------------------
(* The inductive invariant.                                                *)

\* What makes a launched page a page, without popups: it committed before it
\* was loaded, in the browser that was created; and every process was started
\* for one.
PageKnown ==
  /\ nav # NoUrl => there = "yes"
  /\ ends > 0 \/ loaded => page # NoUrl /\ there = "yes"
  /\ appRequested => loaded
  /\ proc # "none" => loaded

\* The main thread waits in the callback only for a process let go of.
ReplacingIsOpen == pc = "replace" => Popups /\ appActive /\ ~appRequested

SessionInv ==
  /\ TypeOK /\ ActiveHasProcess /\ RunningIsAccountedFor /\ ReplacingIsOpen
  /\ ~Popups => PageKnown

LEMMA PageKnownStep ==
  ASSUME TypeOK, ~Popups, PageKnown, PageStep
  PROVE  PageKnown'
<1>0. ends \in Nat /\ 0 \in Nat
  BY BrowserAssumption DEF TypeOK, BrowserTypeOK
<1>1. CASE PageSame
  BY <1>1 DEF PageSame, PageKnown, PageStep
<1>2. CASE Create
  BY <1>2 DEF Create, PageKnown, PageStep
<1>3. CASE Commit
  <2>1. page' # NoUrl /\ nav # NoUrl /\ nav' = NoUrl
    BY <1>3, UrlAssumption DEF Commit, ErrorPage, NoUrl
  <2>2. UNCHANGED <<loaded, there>>
    BY <1>3 DEF Commit
  <2>3. QED  BY <2>1, <2>2 DEF PageKnown, PageStep
<1>4. CASE OnLoadEnd
  <2>1. ends > 0 /\ loaded' = TRUE /\ UNCHANGED <<page, there, nav>>
    BY <1>4 DEF OnLoadEnd
  <2>2. QED  BY <2>1 DEF PageKnown
<1>5. QED  BY <1>1, <1>2, <1>3, <1>4 DEF PageStep

LEMMA ActiveHasProcessStep ==
  ASSUME SessionInv, SessionStep
  PROVE  ActiveHasProcess'
<1> USE DEF SessionInv
<1>1. CASE Aside \/ Skips
  BY <1>1 DEF Aside, Skips, SessionSame, ActiveHasProcess
<1>2. CASE Commanded
  BY <1>2 DEF Commanded, SessionSame, Queried, Analysed, ActiveHasProcess
<1>3. CASE Launches
  <2>1. PICK s \in Pages : Launch(s)
    BY <1>3 DEF Launches
  <2>2. ~Popups => page # NoUrl
    BY <2>1 DEF Launch, PageKnown
  <2>3. ~Popups => job'.url # NoJob.url
    BY <2>1, <2>2 DEF Launch, NoJob
  <2>4. ~Popups => job' # NoJob
    BY <2>3
  <2>5. proc' # "none"
    BY <2>1 DEF Launch, Starts, Running
  <2>6. QED  BY <2>4, <2>5 DEF ActiveHasProcess
<1>4. CASE ProcessMoves
  BY <1>4 DEF ProcessMoves, SessionSame, ActiveHasProcess, Running
<1>5. CASE Expires
  BY <1>5 DEF Expires, ActiveHasProcess
<1>6. CASE Stays \/ Joins \/ GivesUp
  BY <1>6 DEF Stays, Joins, GivesUp, Join, GiveUp, SessionSame, ActiveHasProcess
<1>7. CASE Replaces
  BY <1>7 DEF Replaces, Starts, SessionSame, ActiveHasProcess, Running
<1>8. QED
  BY <1>1, <1>2, <1>3, <1>4, <1>5, <1>6, <1>7 DEF SessionStep

LEMMA RunningIsAccountedForStep ==
  ASSUME SessionInv, SessionStep, UrlsStay
  PROVE  RunningIsAccountedFor'
<1> USE DEF SessionInv, UrlsStay
<1> SUFFICES ASSUME (proc \in Running)'
             PROVE  (\/ /\ appActive
                        /\ appRequested => timer = "running" /\ timerYounger
                     \/ ~appActive /\ pc \in {"deferred", "load", "join"}
                     \/ /\ ~appActive /\ ~appRequested
                        /\ timer = "running" /\ timerYounger
                     \/ ~appActive /\ Popups /\ queue # <<>>)'
  BY DEF RunningIsAccountedFor
<1>1. CASE Aside
  BY <1>1 DEF Aside, SessionSame, RunningIsAccountedFor
<1>2. CASE Commanded
  <2>1. proc \in Running
    BY <1>2 DEF Commanded
  <2>2. CASE SessionSame
    BY <1>2, <2>1, <2>2 DEF Commanded, SessionSame, RunningIsAccountedFor
  <2>3. CASE Queried
    BY <1>2, <2>1, <2>3 DEF Commanded, Queried, StartTimer, RunningIsAccountedFor
  <2>4. CASE Analysed /\ pc' \in {"deferred", "load"}
    BY <2>4 DEF Analysed
  <2>5. QED  BY <1>2, <2>2, <2>3, <2>4 DEF Commanded
<1>3. CASE Launches
  BY <1>3 DEF Launches, Launch
<1>4. CASE ProcessMoves
  BY <1>4 DEF ProcessMoves, SessionSame, RunningIsAccountedFor
<1>5. CASE Expires
  BY <1>5 DEF Expires, TimerExpires, RunningIsAccountedFor
<1>6. CASE pc = "join" /\ pc' = "cef" /\ (Stays \/ Joins \/ GivesUp)
  <2>1. CASE Stays
    BY <2>1 DEF Stays, SessionSame, RunningIsAccountedFor, Running
  <2>2. CASE Joins
    BY <2>2 DEF Joins, Join, Running
  <2>3. CASE GivesUp
    <3>1. proc \in Running
      BY <2>3 DEF GivesUp, GiveUp, procVars
    <3>2. QED
      BY <2>3, <3>1 DEF GivesUp, GiveUp, StartTimer, RunningIsAccountedFor
  <2>4. QED  BY <1>6, <2>1, <2>2, <2>3
<1>7. CASE Skips
  <2>1. /\ proc \in Running /\ there # "yes" /\ queue' # <<>>
        /\ pc = "load" /\ SessionSame
    BY <1>7 DEF Skips
  <2>2. Popups
    BY <2>1 DEF PageKnown, Running
  <2>3. QED  BY <2>1, <2>2 DEF SessionSame, RunningIsAccountedFor
<1>8. CASE Replaces
  BY <1>8 DEF Replaces, SessionSame, ReplacingIsOpen
<1>9. QED
  BY <1>1, <1>2, <1>3, <1>4, <1>5, <1>6, <1>7, <1>8 DEF SessionStep

LEMMA ReplacingIsOpenStep ==
  ASSUME SessionInv, SessionStep
  PROVE  ReplacingIsOpen'
<1> SUFFICES ASSUME pc' = "replace"
             PROVE  Popups /\ appActive' /\ ~appRequested'
  BY DEF ReplacingIsOpen
<1>1. CASE pc = "replace"
  <2>1. Popups /\ appActive /\ ~appRequested
    BY <1>1 DEF SessionInv, ReplacingIsOpen
  <2>2. UNCHANGED <<appActive, appRequested>>
    BY <1>1
    DEF SessionStep, Aside, Skips, Commanded, Launches, Replaces, ProcessMoves,
        Expires, SessionSame
  <2>3. QED  BY <2>1, <2>2
<1>2. CASE Launches
  <2>1. /\ appRequested /\ ~appActive
        /\ appActive' = TRUE /\ appRequested' = FALSE
        /\ proc \in Running /\ pc = "cef"
    BY <1>2 DEF Launches, Launch
  <2>2. QED  BY <2>1 DEF SessionInv, RunningIsAccountedFor
<1>3. QED
  BY <1>1, <1>2 DEF SessionStep, Aside, Skips, Commanded, Replaces, ProcessMoves,
                    Expires

LEMMA SessionInit == Init => SessionInv
<1> SUFFICES ASSUME Init PROVE SessionInv
  OBVIOUS
<1>1. PageKnown
  BY DEF Init, BrowserInit, PageKnown
<1>2. ActiveHasProcess /\ RunningIsAccountedFor /\ ReplacingIsOpen
  BY DEF Init, ActiveHasProcess, RunningIsAccountedFor, ReplacingIsOpen, Running
<1>3. QED  BY <1>1, <1>2, InitType DEF SessionInv

LEMMA SessionInvStep ==
  ASSUME SessionInv, [Next]_vars
  PROVE  SessionInv'
<1>1. SessionStep /\ PageStep /\ UrlsStay
  BY StepCases, QueueStays DEF SessionInv
<1>2. TypeOK' /\ (~Popups => PageKnown')
  BY <1>1, StepType, PageKnownStep DEF SessionInv
<1>3. ActiveHasProcess' /\ RunningIsAccountedFor' /\ ReplacingIsOpen'
  BY <1>1, ActiveHasProcessStep, RunningIsAccountedForStep, ReplacingIsOpenStep
<1>4. QED  BY <1>2, <1>3 DEF SessionInv

LEMMA SessionInvariant == Spec => []SessionInv
<1>1. SessionInv /\ [Next]_vars => SessionInv'
  BY SessionInvStep
<1>2. QED  BY <1>1, SessionInit, PTL DEF Spec

\* An open session has a future to wait for, and without popups a page that was
\* loaded: the wait of :281-288 and the timeout of :289 always have something to end.
THEOREM OpenSessionHasProcess == Spec => []ActiveHasProcess
<1>1. SessionInv => ActiveHasProcess
  BY DEF SessionInv
<1>2. QED  BY <1>1, SessionInvariant, PTL

\* A process still running is always accounted for: after the analysis was
\* given up (:289-295) the restarted timer refuses every query until the
\* process is over, after its result came in the main thread does nothing
\* before it has joined it, unless set_url() throws (:335), which takes a
\* browser that was closed, and a URL that stays queued.
THEOREM ProcessIsAccountedFor == Spec => []RunningIsAccountedFor
<1>1. SessionInv => RunningIsAccountedFor
  BY DEF SessionInv
<1>2. QED  BY <1>1, SessionInvariant, PTL

-----------------------------------------------------------------------------
(* The refinement.                                                         *)

LEMMA SessionRefined ==
  ASSUME SessionInv, SessionStep
  PROVE  [Sessions!SessionNext]_(Sessions!sessionVars)
<1> USE DEF Running
<1>0. appActive => proc # "none"
  BY DEF SessionInv, ActiveHasProcess
<1>1. CASE UNCHANGED <<appActive, appRequested, proc>>
  BY <1>1 DEF Sessions!sessionVars
<1>2. CASE UNCHANGED <<appActive, proc>> /\ appRequested' = TRUE
  <2>1. Sessions!Want
    BY <1>2 DEF Sessions!Want
  <2>2. QED  BY <2>1 DEF Sessions!SessionNext
<1>3. CASE appActive /\ appActive' = FALSE /\ UNCHANGED <<appRequested, proc>>
  <2>1. Sessions!Close
    BY <1>0, <1>3 DEF Sessions!Close
  <2>2. QED  BY <2>1 DEF Sessions!SessionNext
<1>4. CASE Aside \/ Skips
  BY <1>1, <1>4 DEF Aside, Skips, SessionSame
<1>5. CASE Commanded
  <2>1. CASE SessionSame
    BY <1>1, <1>5, <2>1 DEF Commanded, SessionSame
  <2>2. CASE Queried
    BY <1>1, <1>2, <1>5, <2>2 DEF Commanded, Queried
  <2>3. CASE Analysed
    BY <1>1, <1>3, <1>5, <2>3 DEF Commanded, Analysed, SessionInv, TypeOK
  <2>4. QED  BY <1>5, <2>1, <2>2, <2>3 DEF Commanded
<1>6. CASE Launches
  <2>1. /\ appRequested /\ ~appActive /\ appRequested' = FALSE
        /\ appActive' = TRUE /\ proc' \in {"running", "threw"} /\ pc = "cef"
        /\ proc \in Running => proc' = proc
    BY <1>6 DEF Launches, Launch, Starts
  <2>2. proc \in Running => Popups
    BY <2>1 DEF SessionInv, RunningIsAccountedFor
  <2>3. Sessions!Open
    BY <2>1, <2>2 DEF Sessions!Open
  <2>4. QED  BY <2>3 DEF Sessions!SessionNext
<1>7. CASE ProcessMoves
  <2>1. Sessions!End
    BY <1>7 DEF ProcessMoves, SessionSame, Sessions!End
  <2>2. QED  BY <2>1 DEF Sessions!SessionNext
<1>8. CASE Expires
  BY <1>1, <1>8 DEF Expires
<1>9. CASE Stays
  BY <1>1, <1>9 DEF Stays, SessionSame
<1>10. CASE Joins
  <2>1. Sessions!Collect
    BY <1>10 DEF Joins, Join, Sessions!Collect
  <2>2. QED  BY <2>1 DEF Sessions!SessionNext
<1>11. CASE GivesUp
  BY <1>3, <1>11 DEF GivesUp, GiveUp, procVars
<1>12. CASE Replaces
  <2>1. /\ appActive /\ Popups /\ UNCHANGED <<appActive, appRequested>>
        /\ proc = "over" /\ proc' \in {"running", "threw"}
    BY <1>12
    DEF Replaces, Starts, SessionSame, SessionInv, ReplacingIsOpen
  <2>2. CASE proc' = "running"
    <3>1. Sessions!TakeOver
      BY <2>1, <2>2 DEF Sessions!TakeOver
    <3>2. QED  BY <3>1 DEF Sessions!SessionNext
  <2>3. CASE proc' = "threw"
    BY <2>1, <2>3 DEF Sessions!sessionVars
  <2>4. QED  BY <2>1, <2>2, <2>3
<1>13. QED
  BY <1>4, <1>5, <1>6, <1>7, <1>8, <1>9, <1>10, <1>11, <1>12 DEF SessionStep

\* controller.cpp keeps the promise of Session: an analyzer is started for a
\* query that was accepted, in no open session, and without popups beside none
\* that still runs; with popups the one let go of is waited for. It is joined
\* when its session is closed and it has ended.
THEOREM ControllerImplementsSession == Spec => ImplementsSession
<1>1. Init => Sessions!SessionInit
  BY DEF Init, Sessions!SessionInit
<1>2. SessionInv /\ [Next]_vars => [Sessions!SessionNext]_(Sessions!sessionVars)
  BY StepCases, SessionRefined
<1>3. QED
  BY <1>1, <1>2, SessionInvariant, PTL
  DEF Spec, ImplementsSession, Sessions!SessionSpec

=============================================================================
