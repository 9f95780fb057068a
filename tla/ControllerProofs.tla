-------------------------- MODULE ControllerProofs --------------------------
(***************************************************************************)
(* The controller, for any pages, commands, answers and bounds: its types, *)
(* and what it asks of its browser.                                        *)
(***************************************************************************)
EXTENDS Controller, ServerLemmas

-----------------------------------------------------------------------------
(* Types. A handler changes handlerVars only.                              *)

HandledOK ==
  /\ appWaiting \in BOOLEAN /\ appRequested \in BOOLEAN /\ appActive \in BOOLEAN
  /\ timer \in {"stopped", "running", "expired"} /\ timerYounger \in BOOLEAN
  /\ queue \in Seq(Values)
  /\ out \in Seq(OutSlot) /\ reply \in BOOLEAN
  /\ top \in BOOLEAN /\ fetch \in Nat

LEMMA HandledByType == TypeOK => HandledOK
  BY DEF TypeOK, HandledOK, ServerTypeOK, BrowserTypeOK

LEMMA OutType ==
  ASSUME NEW kind \in AnalyzerBound \cup KiqBound, NEW body \in Values
  PROVE  Out(kind, body) \in OutMsg /\ Out(kind, body) \in OutSlot
  BY DEF Out, OutMsg, OutSlot

LEMMA HandleType ==
  ASSUME HandledOK, NEW type, NEW a1 \in Values, NEW a2 \in Values,
         Handle(type, <<a1, a2>>)
  PROVE  HandledOK'
<1> DEFINE args == <<a1, a2>>
<1>0. args[1] \in Values /\ args[2] \in Values
  OBVIOUS
<1>1. ASSUME NEW url \in Values, Enqueue(url) PROVE queue' \in Seq(Values)
  BY <1>1, AppendType DEF Enqueue, HandledOK
<1>2. CASE Ignore
  BY <1>2 DEF Ignore, handlerVars, HandledOK
<1>3. CASE OnMessage(args)
  <2>1. CASE Focus /\ Enqueue(args[2]) /\ UNCHANGED <<appWaiting, appRequested,
               appActive, timer, timerYounger, out, reply, fetch>>
    <3>1. queue' \in Seq(Values)
      BY <1>0, <1>1, <2>1
    <3>2. QED  BY <2>1, <3>1 DEF Focus, HandledOK
  <2>2. QED  BY <1>2, <1>3, <2>1 DEF OnMessage
<1>4. CASE OnQuery(args)
  <2>1. CASE Ignore
    BY <1>2, <2>1
  <2>2. CASE StartTimer /\ UNCHANGED <<appWaiting, appRequested, appActive,
               queue, out, reply, top, fetch>>
    BY <2>2 DEF StartTimer, HandledOK
  <2>3. CASE /\ StartTimer /\ Query /\ appRequested' = TRUE /\ appWaiting' = FALSE
             /\ UNCHANGED <<appActive, queue, out, reply, top>>
    <3>1. fetch' \in Nat
      BY <2>3 DEF Query, HandledOK
    <3>2. appRequested' \in BOOLEAN /\ appWaiting' \in BOOLEAN
      BY <2>3
    <3>3. QED  BY <2>3, <3>1, <3>2 DEF StartTimer, HandledOK
  <2>4. QED  BY <1>4, <2>1, <2>2, <2>3 DEF OnQuery
<1>5. CASE OnLoadUrl(args)
  BY <1>0, <1>1, <1>5 DEF OnLoadUrl, HandledOK
<1>6. CASE OnAnalysis(args)
  <2>1. out' \in Seq(OutSlot)
    BY <1>0, <1>6, OutType, AppendType DEF OnAnalysis, KiqBound, HandledOK
  <2>2. QED  BY <1>6, <2>1 DEF OnAnalysis, OnFinish, StopTimer, HandledOK
<1>7. CASE OnGenerate(args)
  <2>1. out' \in Seq(OutSlot)
    BY <1>0, <1>7, OutType, AppendType DEF OnGenerate, KiqBound, HandledOK
  <2>2. QED  BY <1>7, <2>1 DEF OnGenerate, HandledOK
<1>8. CASE OnGenerated(args)
  <2>1. out' \in Seq(OutSlot) /\ reply' \in BOOLEAN
    BY <1>0, <1>8, OutType, AppendType
    DEF OnGenerated, EnqueueReply, AnalyzerBound, HandledOK
  <2>2. QED  BY <1>8, <2>1 DEF OnGenerated, HandledOK
<1>9. QED
  BY <1>2, <1>3, <1>4, <1>5, <1>6, <1>7, <1>8 DEF Handle

LEMMA CommandType ==
  ASSUME TypeOK, NEW m \in InMsg, OnCommand(m)
  PROVE  /\ HandledOK'
         /\ msgQueue' \in Seq((Commands \cup {"none"}) \X (Values \X Values))
<1>1. m.type \in Commands \cup {"none"} /\ m.type \in Values /\ m.arg \in Values
  BY DEF InMsg, Values
<1>2. CASE /\ msgQueue' = Append(msgQueue, <<m.type, DeferredArgs(m)>>)
           /\ Ignore
  <2>1. DeferredArgs(m) \in Values \X Values
    BY <1>1 DEF DeferredArgs
  <2>2. msgQueue' \in Seq((Commands \cup {"none"}) \X (Values \X Values))
    BY <1>1, <1>2, <2>1, AppendType DEF TypeOK
  <2>3. QED
    BY <1>2, <2>2, HandledByType DEF Ignore, handlerVars, HandledOK
<1>3. CASE Handle(m.type, Args(m)) /\ UNCHANGED msgQueue
  <2>1. Args(m) = <<m.type, m.arg>> \/ Args(m) = <<m.arg, m.type>>
    BY DEF Args
  <2>2. HandledOK'
    BY <1>1, <1>3, <2>1, HandledByType, HandleType
  <2>3. QED  BY <1>3, <2>2 DEF TypeOK
<1>4. QED  BY <1>2, <1>3 DEF OnCommand

LEMMA DispatchType ==
  ASSUME TypeOK, NEW m \in InMsg, Dispatch(m)
  PROVE  /\ HandledOK'
         /\ msgQueue' \in Seq((Commands \cup {"none"}) \X (Values \X Values))
         /\ rxq' \in Seq(InMsg) /\ txq' \in Seq(InMsg)
         /\ linked' \in BOOLEAN
         /\ wire' \in [Sockets -> Seq(OutMsg)]
         /\ pc' \in {"deferred", "cef"}
<1>1. CASE OnStatus /\ Goto("deferred") /\ UNCHANGED msgQueue
  <2>1. Out("okay", "none") \in OutSlot /\ Out("keepalive", "none") \in OutSlot
    BY OutType DEF KiqBound, Values
  <2>2. out \in Seq(OutSlot) /\ Hello \in Seq(OutSlot)
    BY HelloType DEF TypeOK, ServerTypeOK, OutSlot
  <2>3. out' \in Seq(OutSlot)
    BY <1>1, <2>1, <2>2 DEF OnStatus
  <2>4. HandledOK'
    BY <1>1, <2>3, HandledByType DEF OnStatus, HandledOK
  <2>5. QED
    BY <1>1, <2>4, RelinkType DEF OnStatus, Goto, TypeOK
<1>2. CASE /\ m.ipc # "status" /\ Recv /\ UNCHANGED <<linked, wire>>
  <2>1. /\ rxq' \in Seq(InMsg) /\ txq' \in Seq(InMsg)
        /\ linked' \in BOOLEAN /\ wire' \in [Sockets -> Seq(OutMsg)]
    BY <1>2, RecvType DEF TypeOK, ServerTypeOK
  <2>2. CASE OnKeepalive /\ Goto("deferred") /\ UNCHANGED msgQueue
    <3>1. out' \in Seq(OutSlot)
      BY <2>2, OutType, AppendType
      DEF OnKeepalive, KiqBound, Values, TypeOK, ServerTypeOK
    <3>2. HandledOK'
      BY <2>2, <3>1, HandledByType DEF OnKeepalive, HandledOK
    <3>3. QED  BY <2>1, <2>2, <3>2 DEF Goto, TypeOK
  <2>3. CASE /\ Ignore /\ UNCHANGED msgQueue
             /\ Goto("deferred") \/ Goto("cef")
    <3>1. HandledOK'
      BY <2>3, HandledByType DEF Ignore, handlerVars, HandledOK
    <3>2. QED  BY <2>1, <2>3, <3>1 DEF Goto, TypeOK
  <2>4. CASE OnCommand(m) /\ Goto("deferred")
    BY <2>1, <2>4, CommandType DEF Goto
  <2>5. QED
    BY <1>2, <2>2, <2>3, <2>4, Zenon DEF Dispatch
<1>3. QED  BY <1>1, <1>2 DEF Dispatch

\* The rest of the state, in the groups its steps leave alone.
CtlOK ==
  /\ appWaiting \in BOOLEAN /\ appRequested \in BOOLEAN /\ appActive \in BOOLEAN
  /\ timer \in {"stopped", "running", "expired"} /\ timerYounger \in BOOLEAN
  /\ queue \in Seq(Values) /\ token \in BOOLEAN
  /\ msgQueue \in Seq((Commands \cup {"none"}) \X (Values \X Values))
  /\ proc \in {"none", "over", "threw"} \cup Running
  /\ job \in Jobs
  /\ budget \in [cmds : 0 .. MaxCmds, asks : 0 .. MaxAsks,
                 sleeps : 0 .. MaxSleeps]

SleepOK ==
  /\ wasSleeping \in BOOLEAN /\ shouldFlush \in BOOLEAN
  /\ wakeDue \in BOOLEAN /\ suspended \in BOOLEAN

PcOK == pc \in {"check", "sleep", "flush", "wake", "recover", "send", "recv",
                "deferred", "load", "join", "cef", "replace"}

LEMMA PartsType ==
  /\ TypeOK => ServerTypeOK /\ BrowserTypeOK /\ CtlOK /\ SleepOK /\ PcOK
  /\ ServerTypeOK' /\ BrowserTypeOK' /\ CtlOK' /\ SleepOK' /\ PcOK' => TypeOK'
<1>1. TypeOK => ServerTypeOK /\ BrowserTypeOK /\ CtlOK /\ SleepOK /\ PcOK
  BY DEF TypeOK, CtlOK, SleepOK, PcOK
<1>2. ServerTypeOK' /\ BrowserTypeOK' /\ CtlOK' /\ SleepOK' /\ PcOK' => TypeOK'
  BY DEF TypeOK, CtlOK, SleepOK, PcOK
<1>3. QED  BY <1>1, <1>2

LEMMA FrameType ==
  /\ ServerTypeOK /\ UNCHANGED serverVars => ServerTypeOK'
  /\ BrowserTypeOK /\ UNCHANGED browserVars => BrowserTypeOK'
  /\ CtlOK /\ UNCHANGED ctlVars => CtlOK'
  /\ SleepOK /\ UNCHANGED sleepVars => SleepOK'
<1>1. ServerTypeOK /\ UNCHANGED serverVars => ServerTypeOK'
  BY DEF ServerTypeOK, serverVars
<1>2. BrowserTypeOK /\ UNCHANGED browserVars => BrowserTypeOK'
  BY DEF BrowserTypeOK, browserVars
<1>3. CtlOK /\ UNCHANGED ctlVars => CtlOK'
  BY DEF CtlOK, ctlVars, procVars
<1>4. SleepOK /\ UNCHANGED sleepVars => SleepOK'
  BY DEF SleepOK, sleepVars
<1>5. QED  BY <1>1, <1>2, <1>3, <1>4

LEMMA WorkType ==
  ASSUME TypeOK, Work
  PROVE  TypeOK'
<1>0. ServerTypeOK /\ BrowserTypeOK /\ CtlOK /\ SleepOK /\ PcOK
  BY PartsType
<1>1. CASE Check
  <2>1. PcOK'
    BY <1>1 DEF Check, Goto, PcOK
  <2>2. QED  BY <1>0, <1>1, <2>1, PartsType, FrameType DEF Check
<1>2. CASE Sleep
  <2>1. ServerTypeOK'
    <3>1. CASE UNCHANGED serverVars
      BY <1>0, <3>1, FrameType
    <3>2. CASE Disconnect /\ UNCHANGED <<out, msgs, reply>>
      BY <3>2, RelinkType DEF TypeOK, ServerTypeOK
    <3>3. QED  BY <1>2, <3>1, <3>2 DEF Sleep
  <2>2. PcOK'
    BY <1>2 DEF Sleep, Goto, PcOK
  <2>3. QED  BY <1>0, <1>2, <2>1, <2>2, PartsType, FrameType DEF Sleep
<1>3. CASE FlushStale
  <2>1. ServerTypeOK'
    BY <1>0, <1>3 DEF FlushStale, Flush, ServerTypeOK
  <2>2. SleepOK'
    BY <1>0, <1>3 DEF FlushStale, SleepOK
  <2>3. PcOK'
    BY <1>3 DEF FlushStale, Goto, PcOK
  <2>4. QED
    BY <1>0, <1>3, <2>1, <2>2, <2>3, PartsType, FrameType DEF FlushStale
<1>4. CASE Wake
  <2>1. SleepOK'
    BY <1>0, <1>4 DEF Wake, SleepOK
  <2>2. PcOK'
    BY <1>4 DEF Wake, Goto, PcOK
  <2>3. QED  BY <1>0, <1>4, <2>1, <2>2, PartsType, FrameType DEF Wake
<1>5. CASE Recover
  <2>1. out' \in Seq(OutSlot)
    <3>1. out \in Seq(OutSlot) /\ Hello \in Seq(OutSlot)
      BY HelloType DEF TypeOK, ServerTypeOK, OutSlot
    <3>2. QED  BY <1>5, <3>1 DEF Recover
  <2>2. /\ rxq' \in Seq(InMsg) /\ txq' \in Seq(InMsg) /\ linked' \in BOOLEAN
        /\ wire' \in [Sockets -> Seq(OutMsg)]
    BY <1>5, RelinkType DEF Recover, TypeOK
  <2>3. ServerTypeOK'
    BY <1>0, <1>5, <2>1, <2>2 DEF Recover, ServerTypeOK
  <2>4. BrowserTypeOK'
    BY <1>0, <1>5 DEF Recover, OnFinish, BrowserTypeOK
  <2>5. SleepOK' /\ PcOK'
    BY <1>0, <1>5 DEF Recover, Goto, SleepOK, PcOK
  <2>6. QED
    BY <1>0, <1>5, <2>3, <2>4, <2>5, PartsType, FrameType DEF Recover
<1>6. CASE Send
  <2>1. ServerTypeOK'
    BY <1>6, SendType DEF Send, TypeOK, ServerTypeOK
  <2>2. PcOK'
    BY <1>6 DEF Send, Goto, PcOK
  <2>3. QED  BY <1>0, <1>6, <2>1, <2>2, PartsType, FrameType DEF Send
<1>7. CASE Receive
  <2>1. /\ HandledOK' /\ msgs' \in Seq(InMsg)
        /\ msgQueue' \in Seq((Commands \cup {"none"}) \X (Values \X Values))
        /\ rxq' \in Seq(InMsg) /\ txq' \in Seq(InMsg)
        /\ linked' \in BOOLEAN
        /\ wire' \in [Sockets -> Seq(OutMsg)]
        /\ pc' \in {"deferred", "cef"}
    <3>1. CASE /\ Ignore /\ Goto("deferred")
               /\ UNCHANGED <<msgs, msgQueue, linked, rxq, txq, wire>>
      BY <3>1, HandledByType
      DEF Ignore, handlerVars, HandledOK, Goto, TypeOK, ServerTypeOK
    <3>2. CASE /\ Inbox # <<>> /\ Dispatch(Head(Inbox))
               /\ msgs' = Tail(Inbox)
      <4>1. Head(Inbox) \in InMsg /\ Tail(Inbox) \in Seq(InMsg)
        BY <3>2, InboxType, TailType DEF TypeOK
      <4>2. QED  BY <3>2, <4>1, DispatchType
    <3>3. QED  BY <1>7, <3>1, <3>2 DEF Receive
  <2>2. QED
    BY <1>7, <2>1 DEF Receive, HandledOK, procVars, sleepVars,
       TypeOK, ServerTypeOK, BrowserTypeOK
<1>8. CASE Deferred
  <2>1. /\ HandledOK'
        /\ msgQueue' \in Seq((Commands \cup {"none"}) \X (Values \X Values))
    <3>1. CASE Ignore /\ UNCHANGED msgQueue
      BY <3>1, HandledByType DEF Ignore, handlerVars, HandledOK, TypeOK
    <3>2. CASE /\ msgQueue # <<>>
               /\ Handle(Head(msgQueue)[1], Head(msgQueue)[2])
               /\ msgQueue' = Tail(msgQueue)
      <4>1. /\ Head(msgQueue) \in (Commands \cup {"none"}) \X (Values \X Values)
            /\ Tail(msgQueue) \in Seq((Commands \cup {"none"}) \X (Values \X Values))
        BY <3>2, TailType DEF TypeOK
      <4>2. PICK a1 \in Values, a2 \in Values : Head(msgQueue)[2] = <<a1, a2>>
        BY <4>1
      <4>3. HandledOK'
        BY <3>2, <4>2, HandledByType, HandleType
      <4>4. QED  BY <3>2, <4>1, <4>3
    <3>3. QED  BY <1>8, <3>1, <3>2 DEF Deferred
  <2>2. QED
    BY <1>8, <2>1 DEF Deferred, Goto, HandledOK, procVars, sleepVars,
       TypeOK, ServerTypeOK, BrowserTypeOK
<1>9. CASE Load
  <2>1. queue' \in Seq(Values) /\ nav' \in Values
    <3>1. CASE UNCHANGED <<queue, nav>>
      BY <1>0, <3>1 DEF CtlOK, BrowserTypeOK
    <3>2. CASE queue # <<>> /\ nav' = Head(queue) /\ queue' = Tail(queue)
      <4>1. queue \in Seq(Values)
        BY <1>0 DEF CtlOK
      <4>2. QED  BY <3>2, <4>1, TailType
    <3>3. QED  BY <1>9, <3>1, <3>2 DEF Load, SetUrl
  <2>2. token' \in BOOLEAN /\ pc' \in {"join", "cef"}
    BY <1>0, <1>9 DEF Load, Goto, CtlOK
  <2>3. CtlOK' /\ PcOK'
    BY <1>0, <1>9, <2>1, <2>2 DEF Load, Goto, procVars, CtlOK, PcOK
  <2>4. BrowserTypeOK'
    BY <1>0, <1>9, <2>1 DEF Load, BrowserTypeOK
  <2>5. QED
    BY <1>0, <1>9, <2>3, <2>4, PartsType, FrameType DEF Load
<1>10. CASE CheckAnalyzer
  <2>1. /\ appWaiting' \in BOOLEAN /\ appActive' \in BOOLEAN
        /\ timer' \in {"stopped", "running", "expired"}
        /\ timerYounger' \in BOOLEAN
        /\ proc' \in {"none", "over", "threw"} \cup Running
        /\ job' \in Jobs /\ top' \in BOOLEAN
    <3>1. CASE Join
      <4>1. NoJob \in Jobs
        BY DEF NoJob, Jobs, Pages
      <4>2. appWaiting' \in BOOLEAN
        BY <1>0, <3>1 DEF Join, CtlOK
      <4>3. timerYounger' \in BOOLEAN /\ appActive' \in BOOLEAN /\ top' \in BOOLEAN
        BY <1>0, <3>1 DEF Join, StopTimer, CtlOK, BrowserTypeOK
      <4>4. timer' \in {"stopped", "running", "expired"}
        BY <1>0, <3>1 DEF Join, StopTimer, CtlOK
      <4>5. QED
        BY <3>1, <4>1, <4>2, <4>3, <4>4 DEF Join
    <3>2. CASE GiveUp
      <4>1. appActive' \in BOOLEAN /\ timerYounger' \in BOOLEAN /\ top' \in BOOLEAN
        BY <3>2 DEF GiveUp, StartTimer, OnFinish
      <4>2. appWaiting' \in BOOLEAN
        BY <1>0, <3>2 DEF GiveUp, CtlOK
      <4>3. QED
        BY <1>0, <3>2, <4>1, <4>2 DEF GiveUp, StartTimer, procVars, CtlOK
    <3>3. CASE UNCHANGED <<appWaiting, appActive, timer, timerYounger, procVars,
                           top>>
      BY <1>0, <3>3 DEF procVars, CtlOK, BrowserTypeOK
    <3>4. QED  BY <1>10, <3>1, <3>2, <3>3 DEF CheckAnalyzer
  <2>2. CtlOK' /\ PcOK'
    BY <1>0, <1>10, <2>1 DEF CheckAnalyzer, Goto, CtlOK, PcOK
  <2>3. BrowserTypeOK'
    BY <1>0, <1>10, <2>1 DEF CheckAnalyzer, BrowserTypeOK
  <2>4. QED
    BY <1>0, <1>10, <2>2, <2>3, PartsType, FrameType DEF CheckAnalyzer
<1>11. QED
  BY <1>1, <1>2, <1>3, <1>4, <1>5, <1>6, <1>7, <1>8, <1>9, <1>10 DEF Work

\* The message pump: events of the browser, and the callback.
LEMMA PumpType ==
  ASSUME TypeOK, BrowserEvent \/ OnSource \/ Replace \/ EndPump
  PROVE  TypeOK'
<1>0. ServerTypeOK /\ BrowserTypeOK /\ CtlOK /\ SleepOK /\ PcOK
  BY PartsType
<1>1. CASE BrowserEvent
  <2>0. ends \in Nat /\ fetch \in Nat
    BY <1>0, BrowserAssumption DEF BrowserTypeOK
  <2>1. CASE Create
    <3>1. Home \in Values
      BY UrlAssumption DEF Values, Pages, Urls
    <3>2. BrowserTypeOK'
      BY <1>0, <2>1, <3>1 DEF Create, BrowserTypeOK
    <3>3. QED
      BY <1>0, <1>1, <3>2, PartsType, FrameType DEF BrowserEvent, PcOK
  <2>2. CASE Commit
    <3>1. nav' \in Values /\ page' \in Pages /\ ends' \in 0 .. MaxFrames
      BY <2>2, BrowserAssumption DEF Commit, Values, Pages
    <3>2. BrowserTypeOK'
      BY <1>0, <2>2, <3>1 DEF Commit, BrowserTypeOK
    <3>3. QED
      BY <1>0, <1>1, <3>2, PartsType, FrameType DEF BrowserEvent, PcOK
  <2>3. CASE LoadFails
    <3>1. nav' \in Values
      BY <2>3 DEF LoadFails, Values, Pages
    <3>2. BrowserTypeOK'
      BY <1>0, <2>3, <3>1 DEF LoadFails, BrowserTypeOK
    <3>3. QED
      BY <1>0, <1>1, <3>2, PartsType, FrameType DEF BrowserEvent, PcOK
  <2>4. CASE OnLoadEnd
    <3>1. ends' \in 0 .. MaxFrames
      BY <1>0, <2>0, <2>4, BrowserAssumption DEF OnLoadEnd, BrowserTypeOK
    <3>2. fetch' \in Nat
      BY <2>0, <2>4 DEF OnLoadEnd
    <3>3. BrowserTypeOK'
      BY <1>0, <2>4, <3>1, <3>2 DEF OnLoadEnd, BrowserTypeOK
    <3>4. QED
      BY <1>0, <1>1, <3>3, PartsType, FrameType DEF BrowserEvent, PcOK
  <2>5. CASE Capture
    <3>1. fetch' \in Nat
      BY <2>0, <2>5 DEF Capture
    <3>2. got' \in Seq(Pages)
      <4>1. PICK p \in Pages : got' = Append(got, p)
        BY <1>0, <2>5 DEF Capture, BrowserTypeOK
      <4>2. QED  BY <1>0, <4>1, AppendType DEF BrowserTypeOK
    <3>3. BrowserTypeOK'
      BY <1>0, <2>5, <3>1, <3>2 DEF Capture, BrowserTypeOK
    <3>4. QED
      BY <1>0, <1>1, <3>3, PartsType, FrameType DEF BrowserEvent, PcOK
  <2>6. CASE Replaced
    <3>1. nav' \in Values /\ there' \in {"soon", "yes", "gone"} /\ page' \in Pages
      BY <2>6 DEF Replaced, Values, Pages
    <3>2. ends' \in 0 .. MaxFrames /\ fetch' \in Nat
      BY <2>0, <2>6, BrowserAssumption DEF Replaced
    <3>3. BrowserTypeOK'
      BY <1>0, <2>6, <3>1, <3>2 DEF Replaced, BrowserTypeOK
    <3>4. QED
      BY <1>0, <1>1, <3>3, PartsType, FrameType DEF BrowserEvent, PcOK
  <2>7. CASE Others
    <3>1. fetch' \in Nat
      BY <2>0, <2>7 DEF Others
    <3>2. loaded' \in BOOLEAN
      BY <1>0, <2>7 DEF Others, BrowserTypeOK
    <3>3. BrowserTypeOK'
      BY <1>0, <2>7, <3>1, <3>2 DEF Others, BrowserTypeOK
    <3>4. QED
      BY <1>0, <1>1, <3>3, PartsType, FrameType DEF BrowserEvent, PcOK
  <2>8. QED
    BY <1>1, <2>1, <2>2, <2>3, <2>4, <2>5, <2>6, <2>7 DEF BrowserEvent, Pump
<1>2. CASE OnSource
  <2>1. PICK s \in Pages : Visit(s) /\ (SendBack(s) \/ Launch(s) \/ DropSource)
    BY <1>2 DEF OnSource
  <2>2. BrowserTypeOK'
    <3>1. got' \in Seq(Pages)
      BY <1>0, <2>1, TailType DEF Visit, BrowserTypeOK
    <3>2. QED  BY <1>0, <2>1, <3>1 DEF Visit, BrowserTypeOK
  <2>3. /\ out' \in Seq(OutSlot) /\ reply' \in BOOLEAN
        /\ appActive' \in BOOLEAN /\ appRequested' \in BOOLEAN
        /\ timerYounger' \in BOOLEAN
        /\ proc' \in {"none", "over", "threw"} \cup Running
        /\ job' \in Jobs
    <3>1. CASE SendBack(s)
      <4>1. Out("new_url", s) \in OutSlot
        BY OutType DEF AnalyzerBound, Values
      <4>2. out' \in Seq(OutSlot) /\ reply' \in BOOLEAN
        BY <1>0, <3>1, <4>1, AppendType
        DEF SendBack, EnqueueReply, ServerTypeOK
      <4>3. QED
        BY <1>0, <3>1, <4>2 DEF SendBack, procVars, CtlOK
    <3>2. CASE Launch(s)
      <4>1. job' \in Jobs
        BY <1>0, <3>2 DEF Launch, Jobs, BrowserTypeOK
      <4>2. proc' \in {"none", "over", "threw"} \cup Running
        BY <3>2 DEF Launch, Starts, Running
      <4>3. appActive' \in BOOLEAN /\ appRequested' \in BOOLEAN
            /\ timerYounger' \in BOOLEAN
        BY <3>2 DEF Launch
      <4>4. QED
        BY <1>0, <3>2, <4>1, <4>2, <4>3 DEF Launch, ServerTypeOK
    <3>3. CASE DropSource
      BY <1>0, <3>3 DEF DropSource, procVars, CtlOK, ServerTypeOK
    <3>4. QED  BY <2>1, <3>1, <3>2, <3>3
  <2>4. ServerTypeOK'
    BY <1>0, <1>2, <2>3 DEF OnSource, ServerTypeOK
  <2>5. PcOK'
    BY <1>0, <2>1 DEF SendBack, Launch, DropSource, Goto, PcOK
  <2>6. CtlOK'
    BY <1>0, <1>2, <2>3 DEF OnSource, CtlOK
  <2>7. QED
    BY <1>0, <1>2, <2>2, <2>4, <2>5, <2>6, PartsType, FrameType DEF OnSource
<1>3. CASE Replace
  <2>1. CtlOK'
    BY <1>0, <1>3 DEF Replace, Starts, Running, CtlOK
  <2>2. PcOK'
    BY <1>3 DEF Replace, Goto, PcOK
  <2>3. QED  BY <1>0, <1>3, <2>1, <2>2, PartsType, FrameType DEF Replace
<1>4. CASE EndPump
  <2>1. PcOK'
    BY <1>4 DEF EndPump, Goto, PcOK
  <2>2. QED  BY <1>0, <1>4, <2>1, PartsType, FrameType DEF EndPump
<1>5. QED  BY <1>1, <1>2, <1>3, <1>4

LEMMA BudgetType ==
  ASSUME budget \in [cmds : 0 .. MaxCmds, asks : 0 .. MaxAsks,
                     sleeps : 0 .. MaxSleeps]
  PROVE  /\ budget.cmds > 0 =>
              [budget EXCEPT !.cmds = @ - 1]
                \in [cmds : 0 .. MaxCmds, asks : 0 .. MaxAsks,
                     sleeps : 0 .. MaxSleeps]
         /\ budget.asks > 0 =>
              [budget EXCEPT !.asks = @ - 1]
                \in [cmds : 0 .. MaxCmds, asks : 0 .. MaxAsks,
                     sleeps : 0 .. MaxSleeps]
         /\ budget.sleeps > 0 =>
              [budget EXCEPT !.sleeps = @ - 1]
                \in [cmds : 0 .. MaxCmds, asks : 0 .. MaxAsks,
                     sleeps : 0 .. MaxSleeps]
  BY ControllerAssumption

\* KIQ, the analyzer, the clocks and the ksys thread.
LEMMA WorldType ==
  ASSUME TypeOK, World
  PROVE  TypeOK'
<1>0. ServerTypeOK /\ BrowserTypeOK /\ CtlOK /\ SleepOK /\ PcOK
  BY PartsType
<1>1. CASE KiqDaemon /\ KiqFrame
  <2>1. /\ rxq' \in Seq(InMsg) /\ txq' \in Seq(InMsg)
        /\ wire' \in [Sockets -> Seq(OutMsg)]
        /\ budget' \in [cmds : 0 .. MaxCmds, asks : 0 .. MaxAsks,
                        sleeps : 0 .. MaxSleeps]
    <3>1. CASE KiqSends
      <4>1. PICK m \in KiqCmds : \/ rxq' = Append(rxq, m) /\ UNCHANGED txq
                                 \/ txq' = Append(txq, m) /\ UNCHANGED rxq
        BY <3>1 DEF KiqSends
      <4>2. m \in InMsg
        BY ControllerAssumption
      <4>3. rxq' \in Seq(InMsg) /\ txq' \in Seq(InMsg)
        BY <1>0, <4>1, <4>2, AppendType DEF ServerTypeOK
      <4>4. budget' \in [cmds : 0 .. MaxCmds, asks : 0 .. MaxAsks,
                         sleeps : 0 .. MaxSleeps]
        BY <1>0, <3>1, BudgetType DEF KiqSends, CtlOK
      <4>5. QED  BY <1>0, <3>1, <4>3, <4>4 DEF KiqSends, ServerTypeOK
    <3>2. CASE KiqTakes
      <4>1. wire["tx"] \in Seq(OutMsg)
        BY <1>0 DEF ServerTypeOK, Sockets
      <4>2. Tail(wire["tx"]) \in Seq(OutMsg)
        BY <3>2, <4>1, TailType DEF KiqTakes
      <4>3. wire' \in [Sockets -> Seq(OutMsg)]
        BY <1>0, <3>2, <4>2 DEF KiqTakes, ServerTypeOK
      <4>4. \A kind : Answer(kind) \in InMsg
        BY DEF Answer, Signal, Info, InMsg, Commands, Values
      <4>5. txq' \in Seq(InMsg)
        <5>1. UNCHANGED txq \/ \E kind : txq' = Append(txq, Answer(kind))
          BY <3>2 DEF KiqTakes
        <5>2. QED  BY <1>0, <4>4, <5>1, AppendType DEF ServerTypeOK
      <4>6. QED
        BY <1>0, <3>2, <4>3, <4>5 DEF KiqTakes, ServerTypeOK, CtlOK
    <3>3. QED  BY <1>1, <3>1, <3>2 DEF KiqDaemon
  <2>2. UNCHANGED <<out, msgs, reply, linked>>
    BY <1>1 DEF KiqDaemon, KiqSends, KiqTakes
  <2>3. ServerTypeOK'
    BY <1>0, <2>1, <2>2 DEF ServerTypeOK
  <2>4. CtlOK'
    BY <1>0, <1>1, <2>1 DEF KiqFrame, procVars, CtlOK
  <2>5. PcOK'
    BY <1>0, <1>1 DEF KiqFrame, PcOK
  <2>6. QED
    BY <1>0, <1>1, <2>3, <2>4, <2>5, PartsType, FrameType DEF KiqFrame
<1>2. CASE Analyzer /\ AnalyzerFrame
  <2>1. /\ rxq' \in Seq(InMsg)
        /\ wire' \in [Sockets -> Seq(OutMsg)]
        /\ proc' \in {"none", "over", "threw"} \cup Running
        /\ budget' \in [cmds : 0 .. MaxCmds, asks : 0 .. MaxAsks,
                        sleeps : 0 .. MaxSleeps]
    <3>0. wire["ax"] \in Seq(OutMsg)
      BY <1>0 DEF ServerTypeOK, Sockets
    <3>1. CASE AnalyzerSends
      <4>1. PICK m \in Asks \cup {Info("analysis", r) : r \in Results} :
              rxq' = Append(rxq, m)
        BY <3>1 DEF AnalyzerSends
      <4>0. m \in InMsg
        <5>1. \A r \in Results : Info("analysis", r) \in InMsg
          BY ControllerAssumption DEF Info, InMsg, Commands
        <5>2. QED  BY <4>1, <5>1, ControllerAssumption
      <4>2. rxq' \in Seq(InMsg)
        BY <1>0, <4>0, <4>1, AppendType DEF ServerTypeOK
      <4>3. budget' \in [cmds : 0 .. MaxCmds, asks : 0 .. MaxAsks,
                         sleeps : 0 .. MaxSleeps]
        BY <1>0, <3>1, BudgetType DEF AnalyzerSends, CtlOK
      <4>4. QED
        BY <1>0, <3>1, <4>2, <4>3 DEF AnalyzerSends, procVars, ServerTypeOK, CtlOK
    <3>2. CASE AnalyzerReceives
      <4>1. Tail(wire["ax"]) \in Seq(OutMsg)
        BY <3>0, <3>2, TailType DEF AnalyzerReceives
      <4>2. wire' \in [Sockets -> Seq(OutMsg)]
        BY <1>0, <3>2, <4>1 DEF AnalyzerReceives, ServerTypeOK
      <4>3. QED
        BY <1>0, <3>2, <4>2 DEF AnalyzerReceives, procVars, ServerTypeOK, CtlOK
    <3>3. CASE AnalyzerEnds
      <4>1. PICK k \in 0 .. Len(wire["ax"]) :
              wire' = [wire EXCEPT !["ax"] = SubSeq(@, k + 1, Len(@))]
        BY <3>3 DEF AnalyzerEnds
      <4>2. SubSeq(wire["ax"], k + 1, Len(wire["ax"])) \in Seq(OutMsg)
        BY <3>0, PartType
      <4>3. wire' \in [Sockets -> Seq(OutMsg)]
        BY <1>0, <4>1, <4>2 DEF ServerTypeOK
      <4>4. proc' \in {"none", "over", "threw"} \cup Running
        BY <3>3 DEF AnalyzerEnds
      <4>5. QED
        BY <1>0, <3>3, <4>3, <4>4 DEF AnalyzerEnds, ServerTypeOK, CtlOK
    <3>4. QED  BY <1>2, <3>1, <3>2, <3>3 DEF Analyzer
  <2>2. UNCHANGED <<out, msgs, reply, linked, txq, job>>
    BY <1>2 DEF Analyzer, AnalyzerSends, AnalyzerReceives, AnalyzerEnds, procVars
  <2>3. ServerTypeOK'
    BY <1>0, <2>1, <2>2 DEF ServerTypeOK
  <2>4. CtlOK'
    BY <1>0, <1>2, <2>1, <2>2 DEF AnalyzerFrame, CtlOK
  <2>5. PcOK'
    BY <1>0, <1>2 DEF AnalyzerFrame, PcOK
  <2>6. QED
    BY <1>0, <1>2, <2>3, <2>4, <2>5, PartsType, FrameType DEF AnalyzerFrame
<1>3. CASE Clock /\ ClockFrame
  <2>1. timer' \in {"stopped", "running", "expired"}
    BY <1>0, <1>3 DEF Clock, TimerExpires, WakeTimerElapses, BucketRefills, CtlOK
  <2>2. token' \in BOOLEAN
    BY <1>0, <1>3 DEF Clock, TimerExpires, WakeTimerElapses, BucketRefills, CtlOK
  <2>3. wakeDue' \in BOOLEAN
    BY <1>0, <1>3
    DEF Clock, TimerExpires, WakeTimerElapses, BucketRefills, SleepOK
  <2>4. CtlOK'
    BY <1>0, <1>3, <2>1, <2>2 DEF ClockFrame, procVars, CtlOK
  <2>5. SleepOK' /\ PcOK'
    BY <1>0, <1>3, <2>3 DEF ClockFrame, SleepOK, PcOK
  <2>6. QED
    BY <1>0, <1>3, <2>4, <2>5, PartsType, FrameType DEF ClockFrame
<1>4. CASE (Suspend \/ Resume) /\ KsysFrame
  <2>1. budget' \in [cmds : 0 .. MaxCmds, asks : 0 .. MaxAsks,
                     sleeps : 0 .. MaxSleeps]
    BY <1>0, <1>4, BudgetType DEF Suspend, Resume, CtlOK
  <2>2. CtlOK'
    BY <1>0, <1>4, <2>1 DEF KsysFrame, procVars, CtlOK
  <2>3. SleepOK'
    BY <1>0, <1>4 DEF Suspend, Resume, SleepOK
  <2>4. PcOK'
    BY <1>0, <1>4 DEF KsysFrame, PcOK
  <2>5. QED
    BY <1>0, <1>4, <2>2, <2>3, <2>4, PartsType, FrameType DEF KsysFrame
<1>5. QED  BY <1>1, <1>2, <1>3, <1>4 DEF World, Outside

LEMMA InitType ==
  ASSUME Init
  PROVE  TypeOK
<1>1. ServerTypeOK
  <2>1. out \in Seq(OutSlot)
    <3>1. out = Hello
      BY DEF Init, ServerInit
    <3>2. QED  BY <3>1, HelloType DEF OutSlot
  <2>2. linked \in BOOLEAN
    BY ServerAssumption DEF Init, ServerInit
  <2>3. msgs = <<>> /\ rxq = <<>> /\ txq = <<>> /\ reply \in BOOLEAN
    BY DEF Init, ServerInit
  <2>4. wire \in [Sockets -> Seq(OutMsg)]
    BY DEF Init, ServerInit
  <2>5. QED  BY <2>1, <2>2, <2>3, <2>4 DEF ServerTypeOK
<1>2. BrowserTypeOK
  <2>1. NoUrl \in Values /\ NoUrl \in Pages
    BY DEF Values, Pages
  <2>2. page = NoUrl /\ nav = NoUrl /\ fetch = 0 /\ got = <<>>
        /\ there = "soon" /\ ends \in 0 .. MaxFrames
    BY BrowserAssumption DEF Init, BrowserInit
  <2>3. top \in BOOLEAN /\ loaded \in BOOLEAN
    BY DEF Init, BrowserInit
  <2>4. QED  BY <2>1, <2>2, <2>3 DEF BrowserTypeOK
<1>3. CtlOK
  <2>1. budget \in [cmds : 0 .. MaxCmds, asks : 0 .. MaxAsks,
                    sleeps : 0 .. MaxSleeps]
    BY ControllerAssumption DEF Init
  <2>2. job \in Jobs
    BY DEF Init, NoJob, Jobs, Pages
  <2>3. /\ appWaiting \in BOOLEAN /\ appRequested \in BOOLEAN
        /\ appActive \in BOOLEAN /\ timerYounger \in BOOLEAN
        /\ token \in BOOLEAN
    BY DEF Init
  <2>4. /\ timer = "stopped" /\ queue = <<>> /\ msgQueue = <<>>
        /\ proc = "none"
    BY DEF Init
  <2>5. QED  BY <2>1, <2>2, <2>3, <2>4 DEF CtlOK
<1>4. SleepOK /\ PcOK
  BY DEF Init, SleepOK, PcOK
<1>5. QED  BY <1>1, <1>2, <1>3, <1>4 DEF TypeOK, CtlOK, SleepOK, PcOK

LEMMA StepType ==
  ASSUME TypeOK, [Next]_vars
  PROVE  TypeOK'
<1>1. CASE Main
  BY <1>1, WorkType, PumpType DEF Main
<1>2. CASE World
  BY <1>2, WorldType
<1>3. CASE UNCHANGED vars
  <2>1. /\ UNCHANGED serverVars /\ UNCHANGED browserVars
        /\ UNCHANGED ctlVars /\ UNCHANGED sleepVars /\ UNCHANGED pc
    BY <1>3 DEF vars, ctlVars
  <2>2. QED  BY <2>1, PartsType, FrameType DEF PcOK
<1>4. QED  BY <1>1, <1>2, <1>3 DEF Next

\* Type correctness of the whole program: whatever KIQ, the analyzer, the
\* browser and the ksys thread do, in particular whatever arguments a command
\* arrives with (:72, :74), every queue holds what its reader expects.
THEOREM TypeCorrect == Spec => []TypeOK
<1>1. Init => TypeOK
  BY InitType
<1>2. TypeOK /\ [Next]_vars => TypeOK'
  BY StepType
<1>3. QED  BY <1>1, <1>2, PTL DEF Spec

=============================================================================
