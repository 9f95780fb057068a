--------------------------- MODULE SentinelProofs ---------------------------
(***************************************************************************)
(* The controller with the analyzer in detail, for any pages, users,       *)
(* commands and bounds: the two together do what Controller allows, so     *)
(* that every theorem about Controller holds of them, and the analyzer's   *)
(* wait for a page is known to the controller.                             *)
(***************************************************************************)
EXTENDS Sentinel, SessionProofs

-----------------------------------------------------------------------------
(* The process by itself.                                                  *)

\* What the analyzer says is a request or its result; it starts at most so
\* often.
AnalyzerInv ==
  /\ apc \in {"off", "boot", "start", "resolve", "user", "page", "strategy",
              "text", "stop", "stuck", "exit"}
  /\ attempts \in 0 .. MaxAttempts
  /\ apc = "boot" => attempts = 0
  /\ apc = "start" => attempts < MaxAttempts
  /\ todo \in Seq(Profiles)
  /\ apc \in {"page", "strategy", "text"} => todo # <<>>
  /\ pipe \in Seq(Requests \cup {Result})

LEMMA SaidIsIn == Requests \cup {Result} \subseteq InMsg
<1>1. Requests \subseteq InMsg
  BY SentinelAssumption, ControllerAssumption
<1>2. Result \in InMsg
  BY DEF Result, Info, InMsg, Commands, Values
<1>3. QED  BY <1>1, <1>2

LEMMA AnalyzerInvType == AnalyzerInv => AnalyzerTypeOK
  BY SaidIsIn, RetypeSeq DEF AnalyzerInv, AnalyzerTypeOK

LEMMA FreshInv ==
  ASSUME NEW where, Await(where), Fresh, where \in {"boot", "off"}
  PROVE  AnalyzerInv'
  BY DEF AnalyzerInv, Await, Fresh, MaxAttempts

LEMMA ThinkInv ==
  ASSUME AnalyzerInv, NEW url, Think(url)
  PROVE  AnalyzerInv'
<1> USE DEF Await, MaxAttempts
<1>1. CASE Boot(url)
  BY <1>1 DEF Boot, AnalyzerInv
<1>2. CASE Start
  BY <1>2 DEF Start, AnalyzerInv
<1>3. CASE Resolve
  <2>1. todo' \in Seq(Profiles)
    BY <1>3 DEF Resolve, AnalyzerInv
  <2>2. QED  BY <1>3, <2>1 DEF Resolve, AnalyzerInv
<1>4. CASE FetchUser
  <2>1. PICK m \in Requests \cup {Result} : pipe' = Append(pipe, m)
    <3>1. todo # <<>> => Info("loadurl", Head(todo)) \in Requests
      BY TailType DEF AnalyzerInv, Requests
    <3>2. QED  BY <1>4, <3>1 DEF FetchUser, Says
  <2>2. pipe' \in Seq(Requests \cup {Result})
    BY <2>1, AppendType DEF AnalyzerInv
  <2>3. QED  BY <1>4, <2>2 DEF FetchUser, AnalyzerInv
<1>5. CASE Strategy
  <2>1. pipe' \in Seq(Requests \cup {Result})
    <3>1. Info("generate", "text") \in Requests \cup {Result}
      BY DEF Requests
    <3>2. QED  BY <1>5, <3>1, AppendType DEF Strategy, Says, AnalyzerInv
  <2>2. todo' \in Seq(Profiles)
    BY <1>5, TailType DEF Strategy, NextUser, AnalyzerInv
  <2>3. QED  BY <1>5, <2>1, <2>2 DEF Strategy, NextUser, AnalyzerInv
<1>6. CASE Stop
  BY <1>6 DEF Stop, AnalyzerInv
<1>7. QED  BY <1>1, <1>2, <1>3, <1>4, <1>5, <1>6 DEF Think

LEMMA ReadInv ==
  ASSUME AnalyzerInv, NEW answer, ReadPage(answer) \/ ReadText
  PROVE  AnalyzerInv'
<1>1. todo # <<>> /\ UNCHANGED <<attempts, pipe>>
  BY DEF ReadPage, ReadText, AnalyzerInv
<1>2. CASE NextUser
  BY <1>1, <1>2, TailType DEF NextUser, Await, AnalyzerInv
<1>3. CASE Await("strategy") /\ UNCHANGED todo
  BY <1>1, <1>3 DEF Await, AnalyzerInv
<1>4. QED  BY <1>2, <1>3 DEF ReadPage, ReadText

-----------------------------------------------------------------------------
(* The two together.                                                       *)

\* The process awaits something exactly while proc_future_ has a thread.
RunsWhileRunning == (apc # "off") = (proc \in Running)

SentinelInv == AnalyzerInv /\ RunsWhileRunning

\* Only its own end ends a process: the main thread joins what is over, and
\* launches when nothing runs.
LEMMA DaemonKeepsProcess ==
  ASSUME SessionInv, Main \/ Outside, proc \in Running
  PROVE  proc' \in Running
<1>1. CASE Outside
  BY <1>1 DEF Outside, KiqFrame, ClockFrame, KsysFrame, procVars
<1>2. CASE Work
  <2>1. CASE CheckAnalyzer
    BY <2>1 DEF CheckAnalyzer, Join, GiveUp, procVars, Running
  <2>2. CASE ~CheckAnalyzer
    BY <1>2, <2>2
    DEF Work, Check, Sleep, FlushStale, Wake, Recover, Send, Receive, Deferred,
        Load, ctlVars, procVars
  <2>3. QED  BY <2>1, <2>2
<1>3. CASE BrowserEvent \/ EndPump
  BY <1>3 DEF BrowserEvent, EndPump, ctlVars, procVars
<1>4. CASE OnSource
  <2>1. PICK s \in Pages : SendBack(s) \/ Launch(s) \/ DropSource
    BY <1>4 DEF OnSource
  <2>2. ~Launch(s)
    BY <1>4, SentinelAssumption
    DEF OnSource, Launch, SessionInv, RunningIsAccountedFor
  <2>3. QED  BY <2>1, <2>2 DEF SendBack, DropSource, procVars
<1>5. CASE Replace
  BY <1>5 DEF Replace, Running
<1>6. QED  BY <1>1, <1>2, <1>3, <1>4, <1>5 DEF Main

\* Every step of the two is a step of Controller, or one of the analyzer by
\* itself.
LEMMA SentinelStep ==
  ASSUME AnalyzerInv, [SentinelNext]_sentinelVars
  PROVE  [Next]_vars
<1>1. CASE Daemon
  BY <1>1 DEF Daemon, Next, World
<1>2. CASE Thinks \/ UNCHANGED sentinelVars
  BY <1>2 DEF Thinks, sentinelVars
<1>3. CASE Arrives
  <2>1. Head(pipe) \in Requests \cup {Result}
    BY <1>3, TailType DEF Arrives, AnalyzerInv
  <2>2. Head(pipe) \in Asks \cup {Info("analysis", r) : r \in Results}
    BY <2>1, SentinelAssumption DEF Result, Info
  <2>3. AnalyzerSends
    BY <1>3, <2>2 DEF Arrives, AnalyzerSends
  <2>4. QED  BY <1>3, <2>3 DEF Arrives, Analyzer, World, Next
<1>4. CASE Receives
  BY <1>4 DEF Receives, AnalyzerReceives, Analyzer, World, Next
<1>5. CASE Exits
  BY <1>5 DEF Exits, Analyzer, World, Next
<1>6. QED  BY <1>1, <1>2, <1>3, <1>4, <1>5 DEF SentinelNext

LEMMA SentinelInvStep ==
  ASSUME SentinelInv, SessionInv, [SentinelNext]_sentinelVars
  PROVE  SentinelInv'
<1> USE DEF SentinelInv, RunsWhileRunning
<1>1. CASE Daemon
  <2>1. CASE ProcessStarts
    BY <1>1, <2>1, FreshInv DEF Daemon, Begin, ProcessStarts, Await
  <2>2. CASE ~ProcessStarts
    <3>1. UNCHANGED analyzerVars
      BY <1>1, <2>2 DEF Daemon
    <3>2. (proc \in Running) = (proc' \in Running)
      BY <1>1, <2>2, DaemonKeepsProcess DEF Daemon, ProcessStarts
    <3>3. QED  BY <3>1, <3>2 DEF analyzerVars, AnalyzerInv
  <2>3. QED  BY <2>1, <2>2
<1>2. CASE Thinks
  <2>1. apc # "off" /\ apc' # "off"
    BY <1>2
    DEF Thinks, Think, Boot, Start, Resolve, FetchUser, Strategy, Stop, NextUser,
        Await
  <2>2. QED  BY <1>2, <2>1, ThinkInv DEF Thinks, vars, procVars
<1>3. CASE Arrives
  <2>1. pipe' \in Seq(Requests \cup {Result})
    BY <1>3, TailType DEF Arrives, AnalyzerInv
  <2>2. QED  BY <1>3, <2>1 DEF Arrives, AnalyzerInv, procVars
<1>4. CASE Receives
  <2>1. apc' # "off" /\ UNCHANGED proc
    BY <1>4 DEF Receives, ReadPage, ReadText, NextUser, Await, procVars
  <2>2. QED  BY <1>4, <2>1, ReadInv DEF Receives
<1>5. CASE Exits
  <2>1. proc' = "over" /\ apc' = "off"
    BY <1>5 DEF Exits, AnalyzerEnds, End, Await
  <2>2. QED  BY <1>5, <2>1, FreshInv DEF Exits, End, Running
<1>6. CASE UNCHANGED sentinelVars
  BY <1>6 DEF sentinelVars, analyzerVars, vars, procVars, AnalyzerInv
<1>7. QED  BY <1>1, <1>2, <1>3, <1>4, <1>5, <1>6 DEF SentinelNext

LEMMA SentinelInvariant == SentinelSpec => [](SentinelInv /\ SessionInv)
<1>1. SentinelInit => SentinelInv /\ SessionInv
  <2> SUFFICES ASSUME SentinelInit PROVE SentinelInv /\ SessionInv
    OBVIOUS
  <2>1. SentinelInv
    BY DEF SentinelInit, AnalyzerInit, Init, SentinelInv, AnalyzerInv,
       RunsWhileRunning, MaxAttempts, Running
  <2>2. SessionInv
    BY SessionInit DEF SentinelInit
  <2>3. QED  BY <2>1, <2>2
<1>2. SentinelInv /\ SessionInv /\ [SentinelNext]_sentinelVars
        => (SentinelInv /\ SessionInv)'
  <2> SUFFICES ASSUME SentinelInv, SessionInv, [SentinelNext]_sentinelVars
               PROVE  (SentinelInv /\ SessionInv)'
    OBVIOUS
  <2>1. SentinelInv'
    BY SentinelInvStep
  <2>2. SessionInv'
    BY SentinelStep, SessionInvStep DEF SentinelInv
  <2>3. QED  BY <2>1, <2>2
<1>3. QED  BY <1>1, <1>2, PTL DEF SentinelSpec

\* Types, and: the process awaits something exactly while proc_future_ has a
\* thread for it (controller.cpp:230-242).
THEOREM SentinelTypeCorrect == SentinelSpec => []SentinelTypeOK
<1>1. SentinelInv => SentinelTypeOK
  BY AnalyzerInvType DEF SentinelInv, RunsWhileRunning, SentinelTypeOK
<1>2. QED  BY <1>1, SentinelInvariant, PTL

\* The analyzer of index.js, twitter.js and socket.js does nothing Controller
\* does not allow of an analyzer: what is proved of Controller holds of both.
THEOREM SentinelImplementsController == SentinelSpec => ImplementsController
<1>1. SentinelInit => Init
  BY DEF SentinelInit
<1>2. SentinelInv /\ [SentinelNext]_sentinelVars => [Next]_vars
  BY SentinelStep DEF SentinelInv
<1>3. QED
  BY <1>1, <1>2, SentinelInvariant, PTL
  DEF SentinelSpec, ImplementsController, Spec

-----------------------------------------------------------------------------
(* The wait for a page.                                                    *)

LEMMA AskingAppend ==
  ASSUME NEW S, NEW s \in Seq(S), NEW e \in S, Asking(s) \/ Asked(e)
  PROVE  Asking(Append(s, e))
<1>1. Len(Append(s, e)) = Len(s) + 1 /\ Append(s, e)[Len(s) + 1] = e
  OBVIOUS
<1>2. \A i \in 1 .. Len(s) : Append(s, e)[i] = s[i] /\ i \in 1 .. Len(s) + 1
  OBVIOUS
<1>3. Len(s) + 1 \in 1 .. Len(s) + 1
  OBVIOUS
<1>4. QED  BY <1>1, <1>2, <1>3 DEF Asking

LEMMA AskingConcat ==
  ASSUME NEW S, NEW s \in Seq(S), NEW t \in Seq(S), Asking(s) \/ Asking(t)
  PROVE  Asking(s \o t)
<1>1. Len(s \o t) = Len(s) + Len(t)
  OBVIOUS
<1>2. CASE Asking(s)
  <2>1. \A i \in 1 .. Len(s) : (s \o t)[i] = s[i] /\ i \in 1 .. Len(s) + Len(t)
    OBVIOUS
  <2>2. QED  BY <1>1, <1>2, <2>1 DEF Asking
<1>3. CASE Asking(t)
  <2>1. \A i \in 1 .. Len(t) : /\ (s \o t)[Len(s) + i] = t[i]
                               /\ Len(s) + i \in 1 .. Len(s) + Len(t)
    OBVIOUS
  <2>2. QED  BY <1>1, <1>3, <2>1 DEF Asking
<1>4. QED  BY <1>2, <1>3

LEMMA AskingTail ==
  ASSUME NEW S, NEW s \in Seq(S), Asking(s)
  PROVE  s # <<>> /\ (Asked(Head(s)) \/ Asking(Tail(s)))
<1>1. PICK i \in 1 .. Len(s) : Asked(s[i])
  BY DEF Asking
<1>2. s # <<>>
  OBVIOUS
<1>3. CASE i = 1
  BY <1>1, <1>2, <1>3
<1>4. CASE i # 1
  <2>1. i - 1 \in 1 .. Len(Tail(s)) /\ Tail(s)[i - 1] = s[i]
    BY <1>2, <1>4
  <2>2. QED  BY <1>1, <1>2, <2>1 DEF Asking
<1>5. QED  BY <1>3, <1>4

\* What can be read where KIQ never asks for a reconnection.
Plain == {m \in InMsg : m.ipc # "status"}

\* No suspension, no reconnection, nor any step towards one.
CalmInv ==
  /\ ~wasSleeping /\ ~shouldFlush /\ ~suspended /\ budget.sleeps = 0
  /\ pc \notin {"flush", "wake", "recover"}
  /\ msgs \in Seq(Plain) /\ rxq \in Seq(Plain) /\ txq \in Seq(Plain)

\* A handler forgets the wait for a new analysis only, and leaves its mark.
WaitKept == /\ appRequested => appRequested'
            /\ appWaiting => appWaiting' \/ appRequested'

LEMMA HandleWait ==
  ASSUME NEW type, NEW args, Handle(type, args)
  PROVE  WaitKept /\ (type = "loadurl" => appWaiting')
<1> USE DEF WaitKept
<1>1. CASE type = "message" /\ OnMessage(args)
  BY <1>1 DEF OnMessage, Ignore, handlerVars
<1>2. CASE type = "query" /\ OnQuery(args)
  BY <1>2 DEF OnQuery, Ignore, handlerVars
<1>3. CASE type = "loadurl" /\ OnLoadUrl(args)
  BY <1>3 DEF OnLoadUrl
<1>4. CASE type = "analysis" /\ OnAnalysis(args)
  BY <1>4 DEF OnAnalysis
<1>5. CASE type = "generate" /\ OnGenerate(args)
  BY <1>5 DEF OnGenerate
<1>6. CASE type = "generated" /\ OnGenerated(args)
  BY <1>6 DEF OnGenerated
<1>7. CASE type \notin Commands \ {"info"} /\ Ignore
  BY <1>7 DEF Ignore, handlerVars, Commands
<1>8. QED
  BY <1>1, <1>2, <1>3, <1>4, <1>5, <1>6, <1>7 DEF Handle

LEMMA DispatchWait ==
  ASSUME ~wasSleeping, NEW m, m.ipc # "status", Dispatch(m)
  PROVE  WaitKept /\ Recv /\ (Asked(m) => appWaiting')
<1>1. Recv
  BY DEF Dispatch
<1>2. CASE Ignore /\ m.ipc \in {"ok", "undecodable", "malformed"}
  BY <1>1, <1>2 DEF Ignore, handlerVars, WaitKept, Asked
<1>3. CASE OnKeepalive /\ m.ipc = "keepalive"
  BY <1>1, <1>3 DEF OnKeepalive, WaitKept, Asked
<1>4. CASE OnCommand(m)
  <2>1. Handle(m.type, Args(m))
    BY <1>4 DEF OnCommand
  <2>2. QED  BY <1>1, <2>1, HandleWait DEF Asked
<1>5. QED  BY <1>2, <1>3, <1>4 DEF Dispatch

LEMMA ReceiveWait ==
  ASSUME CalmInv, Receive
  PROVE  /\ WaitKept
         /\ Asking(rxq) \/ Asking(msgs) =>
              Asking(rxq') \/ Asking(msgs') \/ appWaiting'
         /\ msgs' \in Seq(Plain) /\ rxq' \in Seq(Plain) /\ txq' \in Seq(Plain)
<1>1. CASE Inbox = <<>> /\ Ignore /\ UNCHANGED <<msgs, rxq, txq>>
  BY <1>1 DEF Ignore, handlerVars, WaitKept, CalmInv
<1>2. CASE Inbox # <<>> /\ Dispatch(Head(Inbox)) /\ msgs' = Tail(Inbox)
  <2>1. First(rxq) \in Seq(Plain) /\ First(txq) \in Seq(Plain)
    BY TailType DEF First, CalmInv
  <2>2. /\ Inbox \in Seq(Plain) /\ msgs \o First(rxq) \in Seq(Plain)
        /\ msgs \in Seq(Plain)
    BY <2>1 DEF Inbox, CalmInv
  <2>3. Head(Inbox).ipc # "status" /\ Tail(Inbox) \in Seq(Plain)
    BY <1>2, <2>2, TailType DEF Plain
  <2>4. WaitKept /\ Recv /\ (Asked(Head(Inbox)) => appWaiting')
    BY <1>2, <2>3, DispatchWait DEF CalmInv
  <2>5. rxq' \in Seq(Plain) /\ txq' \in Seq(Plain)
    BY <2>4, TailType DEF Recv, Rest, CalmInv
  <2>6. Asking(Inbox) => Asking(msgs') \/ appWaiting'
    BY <1>2, <2>2, <2>4, AskingTail
  <2>7. Asking(msgs) \/ Asking(First(rxq)) => Asking(Inbox)
    BY <2>1, <2>2, AskingConcat DEF Inbox
  <2>8. Asking(rxq) => Asking(First(rxq)) \/ Asking(rxq')
    <3>1. ASSUME Asking(rxq) PROVE Asking(First(rxq)) \/ Asking(rxq')
      <4>1. rxq # <<>> /\ (Asked(Head(rxq)) \/ Asking(Tail(rxq)))
        BY <3>1, AskingTail DEF CalmInv
      <4>2. First(rxq) = <<Head(rxq)>> /\ rxq' = Tail(rxq)
        BY <2>4, <4>1 DEF First, Recv, Rest
      <4>3. Asked(Head(rxq)) => Asking(<<Head(rxq)>>)
        BY DEF Asking
      <4>4. QED  BY <4>1, <4>2, <4>3
    <3>2. QED  BY <3>1
  <2>9. QED  BY <1>2, <2>3, <2>4, <2>5, <2>6, <2>7, <2>8
<1>3. QED  BY <1>1, <1>2 DEF Receive

\* The steps of the main thread and of the world around, in the calm.
LEMMA DaemonCalm ==
  ASSUME Calm, SessionInv, CalmInv, Main \/ Outside
  PROVE  CalmInv'
<1>1. CASE Check \/ Sleep \/ FlushStale \/ Wake \/ Recover
  BY <1>1
  DEF CalmInv, Check, Sleep, FlushStale, Wake, Recover, Goto, serverVars, ctlVars,
      sleepVars
<1>2. CASE Send \/ Deferred \/ Load \/ CheckAnalyzer
  BY <1>2
  DEF CalmInv, Send, Deferred, Load, CheckAnalyzer, Goto, serverVars, ctlVars,
      sleepVars
<1>3. CASE Receive
  <2>1. /\ UNCHANGED <<wasSleeping, shouldFlush, suspended, budget>>
        /\ pc' \in {"deferred", "cef"}
    BY <1>3 DEF Receive, Dispatch, Goto, sleepVars
  <2>2. QED  BY <1>3, <2>1, ReceiveWait DEF CalmInv
<1>4. CASE BrowserEvent \/ Replace \/ EndPump
  BY <1>4
  DEF CalmInv, BrowserEvent, Replace, EndPump, Goto, serverVars, ctlVars,
      sleepVars
<1>5. CASE OnSource
  BY <1>5
  DEF CalmInv, OnSource, SendBack, Launch, DropSource, Goto, sleepVars
<1>6. CASE KiqDaemon /\ KiqFrame
  <2>1. CASE KiqSends
    <3>1. PICK m \in KiqCmds : \/ rxq' = Append(rxq, m) /\ UNCHANGED txq
                               \/ txq' = Append(txq, m) /\ UNCHANGED rxq
      BY <2>1 DEF KiqSends
    <3>2. m \in Plain
      BY ControllerAssumption DEF Calm, Plain
    <3>3. rxq' \in Seq(Plain) /\ txq' \in Seq(Plain)
      BY <3>1, <3>2, AppendType DEF CalmInv
    <3>4. UNCHANGED msgs /\ budget'.sleeps = budget.sleeps
      BY <2>1 DEF KiqSends, SessionInv, TypeOK
    <3>5. QED  BY <1>6, <3>3, <3>4 DEF KiqFrame, sleepVars, CalmInv
  <2>2. CASE KiqTakes
    <3>1. \A kind : Answer(kind) \in Plain
      BY DEF Answer, Signal, Info, Plain, InMsg, Commands, Values
    <3>2. UNCHANGED txq \/ \E kind : txq' = Append(txq, Answer(kind))
      BY <2>2 DEF KiqTakes
    <3>3. txq' \in Seq(Plain)
      BY <3>1, <3>2, AppendType DEF CalmInv
    <3>4. UNCHANGED <<msgs, rxq, budget>>
      BY <2>2 DEF KiqTakes
    <3>5. QED  BY <1>6, <3>3, <3>4 DEF KiqFrame, sleepVars, CalmInv
  <2>3. QED  BY <1>6, <2>1, <2>2 DEF KiqDaemon
<1>7. CASE Clock /\ ClockFrame
  BY <1>7 DEF ClockFrame, serverVars, CalmInv
<1>8. CASE (Suspend \/ Resume) /\ KsysFrame
  BY <1>8 DEF Suspend, Resume, CalmInv
<1>9. QED
  BY <1>1, <1>2, <1>3, <1>4, <1>5, <1>6, <1>7, <1>8 DEF Main, Work, Outside

\* They forget no wait while the process runs on.
LEMMA DaemonWait ==
  ASSUME CalmInv, SessionInv, proc \in Running, Main \/ Outside,
         Asking(rxq) \/ Asking(msgs) \/ appWaiting \/ appRequested
  PROVE  Asking(rxq') \/ Asking(msgs') \/ appWaiting' \/ appRequested'
<1>1. CASE UNCHANGED <<rxq, msgs>> /\ WaitKept
  BY <1>1 DEF WaitKept
<1>2. CASE Check \/ Sleep \/ FlushStale \/ Wake \/ Recover \/ Send \/ Load
  BY <1>1, <1>2
  DEF CalmInv, Check, Sleep, FlushStale, Wake, Recover, Send, Load, serverVars,
      ctlVars, WaitKept
<1>3. CASE Receive
  BY <1>3, ReceiveWait DEF WaitKept
<1>4. CASE Deferred
  <2>1. WaitKept
    <3>1. CASE Ignore
      BY <3>1 DEF Ignore, handlerVars, WaitKept
    <3>2. CASE Handle(Head(msgQueue)[1], Head(msgQueue)[2])
      BY <3>2, HandleWait
    <3>3. QED  BY <1>4, <3>1, <3>2 DEF Deferred
  <2>2. QED  BY <1>1, <1>4, <2>1 DEF Deferred
<1>5. CASE CheckAnalyzer
  <2>1. WaitKept
    BY <1>5
    DEF CheckAnalyzer, Join, GiveUp, Running, WaitKept
  <2>2. QED  BY <1>1, <1>5, <2>1 DEF CheckAnalyzer, serverVars
<1>6. CASE BrowserEvent \/ Replace \/ EndPump
  BY <1>1, <1>6
  DEF BrowserEvent, Replace, EndPump, serverVars, ctlVars, WaitKept
<1>7. CASE OnSource
  <2>1. PICK s \in Pages : SendBack(s) \/ Launch(s) \/ DropSource
    BY <1>7 DEF OnSource
  <2>2. ~Launch(s)
    BY <1>7, SentinelAssumption
    DEF OnSource, Launch, SessionInv, RunningIsAccountedFor
  <2>3. UNCHANGED <<rxq, msgs>> /\ WaitKept
    BY <1>7, <2>1, <2>2 DEF OnSource, SendBack, DropSource, WaitKept
  <2>4. QED  BY <1>1, <2>3
<1>8. CASE KiqDaemon /\ KiqFrame
  <2>1. UNCHANGED msgs /\ WaitKept
    BY <1>8 DEF KiqDaemon, KiqSends, KiqTakes, KiqFrame, WaitKept
  <2>2. Asking(rxq) => Asking(rxq')
    <3>1. UNCHANGED rxq \/ \E m \in KiqCmds : rxq' = Append(rxq, m)
      BY <1>8 DEF KiqDaemon, KiqSends, KiqTakes
    <3>2. KiqCmds \subseteq InMsg /\ rxq \in Seq(InMsg)
      BY ControllerAssumption DEF SessionInv, TypeOK, ServerTypeOK
    <3>3. QED  BY <3>1, <3>2, AskingAppend
  <2>3. QED  BY <2>1, <2>2 DEF WaitKept
<1>9. CASE Clock /\ ClockFrame
  BY <1>1, <1>9 DEF ClockFrame, serverVars, WaitKept
<1>10. CASE (Suspend \/ Resume) /\ KsysFrame
  BY <1>1, <1>10 DEF KsysFrame, serverVars, WaitKept
<1>11. QED
  BY <1>2, <1>3, <1>4, <1>5, <1>6, <1>7, <1>8, <1>9, <1>10
  DEF Main, Work, Outside

WaitInv == Calm => CalmInv /\ WaitIsKnown

LEMMA WaitInvStep ==
  ASSUME SentinelInv, SessionInv, WaitInv, [SentinelNext]_sentinelVars
  PROVE  WaitInv'
<1> SUFFICES ASSUME Calm, CalmInv, WaitIsKnown
             PROVE  CalmInv' /\ WaitIsKnown'
  BY DEF WaitInv, Calm, WaitIsKnown
<1>0. apc = "page" => proc \in Running
  BY DEF SentinelInv, RunsWhileRunning
<1>1. CASE Daemon
  <2>1. CalmInv'
    BY <1>1, DaemonCalm DEF Daemon
  <2>2. CASE ProcessStarts
    BY <1>1, <2>1, <2>2 DEF Daemon, Begin, Await, WaitIsKnown
  <2>3. CASE ~ProcessStarts
    <3>1. UNCHANGED <<apc, pipe>>
      BY <1>1, <2>3 DEF Daemon, analyzerVars
    <3>2. QED
      BY <1>0, <1>1, <2>1, <3>1, DaemonWait DEF Daemon, WaitIsKnown, OnItsWay
  <2>4. QED  BY <2>2, <2>3
<1>2. CASE Thinks
  <2>1. CalmInv'
    BY <1>2 DEF Thinks, vars, serverVars, sleepVars, CalmInv
  <2>2. apc' = "page" => OnItsWay'
    <3>1. ASSUME apc' = "page" PROVE Asking(pipe')
      <4>1. FetchUser /\ todo # <<>> /\ Says(Info("loadurl", Head(todo)))
        BY <1>2, <3>1
        DEF Thinks, Think, Boot, Start, Resolve, FetchUser, Strategy, Stop,
            NextUser, Await
      <4>2. Info("loadurl", Head(todo)) \in Requests
        BY <4>1, TailType DEF SentinelInv, AnalyzerInv, Requests
      <4>3. Asked(Info("loadurl", Head(todo)))
        BY DEF Asked, Info
      <4>4. QED
        BY <4>1, <4>2, <4>3, AskingAppend DEF Says, SentinelInv, AnalyzerInv
    <3>2. QED  BY <3>1 DEF OnItsWay
  <2>3. QED  BY <2>1, <2>2 DEF WaitIsKnown
<1>3. CASE Arrives
  <2>1. Head(pipe) \in Plain
    <3>1. Head(pipe) \in InMsg /\ Head(pipe) \in Requests \cup {Result}
      BY <1>3, TailType, SaidIsIn DEF Arrives, SentinelInv, AnalyzerInv
    <3>2. \A m \in Requests \cup {Result} : m.ipc = "info"
      BY DEF Requests, Result, Info
    <3>3. QED  BY <3>1, <3>2 DEF Plain
  <2>2. CalmInv'
    <3>1. rxq' \in Seq(Plain)
      BY <1>3, <2>1, AppendType DEF Arrives, CalmInv
    <3>2. UNCHANGED <<msgs, txq, sleepVars, pc>> /\ budget'.sleeps = budget.sleeps
      BY <1>3 DEF Arrives, AnalyzerFrame, SessionInv, TypeOK
    <3>3. QED  BY <3>1, <3>2 DEF CalmInv, sleepVars
  <2>3. OnItsWay => OnItsWay'
    <3>1. Asking(pipe) => Asking(pipe') \/ Asked(Head(pipe))
      BY <1>3, AskingTail DEF Arrives, SentinelInv, AnalyzerInv
    <3>2. Asking(rxq) \/ Asked(Head(pipe)) => Asking(rxq')
      BY <1>3, <2>1, AskingAppend DEF Arrives, CalmInv
    <3>3. QED  BY <1>3, <3>1, <3>2 DEF Arrives, OnItsWay
  <2>4. QED  BY <1>3, <2>2, <2>3 DEF Arrives, AnalyzerFrame, WaitIsKnown
<1>4. CASE Receives
  <2>1. CalmInv' /\ apc' # "page"
    BY <1>4
    DEF Receives, ReadPage, ReadText, NextUser, Await, AnalyzerFrame, sleepVars,
        CalmInv
  <2>2. QED  BY <2>1 DEF WaitIsKnown
<1>5. CASE Exits
  <2>1. CalmInv' /\ apc' # "page"
    BY <1>5
    DEF Exits, AnalyzerEnds, AnalyzerFrame, End, Await, sleepVars, CalmInv
  <2>2. QED  BY <2>1 DEF WaitIsKnown
<1>6. CASE UNCHANGED sentinelVars
  BY <1>6
  DEF sentinelVars, analyzerVars, vars, serverVars, sleepVars, CalmInv,
      WaitIsKnown, OnItsWay
<1>7. QED  BY <1>1, <1>2, <1>3, <1>4, <1>5, <1>6 DEF SentinelNext

\* Where no suspension and no reconnection drops messages (Calm): while the
\* analyzer waits for a page (twitter.js:299), its request is on the way, or
\* app_waiting_ is set (:198), or a query was accepted since it was started
\* (:120). No interleaving of sources, commands, answers, refused queries and
\* time-outs loses the wait.
THEOREM WaitStaysKnown == SentinelSpec => []WaitIsKnown
<1>1. SentinelInit => WaitInv
  <2> SUFFICES ASSUME SentinelInit, Calm PROVE CalmInv /\ WaitIsKnown
    BY DEF WaitInv
  <2>1. CalmInv
    BY DEF SentinelInit, Init, ServerInit, CalmInv, Calm
  <2>2. QED  BY <2>1 DEF SentinelInit, AnalyzerInit, WaitIsKnown
<1>2. SentinelInv /\ SessionInv /\ WaitInv /\ [SentinelNext]_sentinelVars
        => WaitInv'
  BY WaitInvStep
<1>3. WaitInv => WaitIsKnown
  BY DEF WaitInv, WaitIsKnown
<1>4. QED  BY <1>1, <1>2, <1>3, SentinelInvariant, PTL DEF SentinelSpec

=============================================================================
