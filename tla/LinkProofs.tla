----------------------------- MODULE LinkProofs -----------------------------
(***************************************************************************)
(* The controller and its server, for any pages, commands, answers and     *)
(* bounds: sockets that are closed are on their way to be connected again, *)
(* the promise of Outbox survives every handler, and the reply flag does   *)
(* not outlive the reply.                                                  *)
(***************************************************************************)
EXTENDS ControllerProofs

-----------------------------------------------------------------------------
(* The sockets.                                                            *)

\* The steps between the test of was_sleeping_ (:256) and its reset (:269):
\* the flag is still set, so a flush or a recovery in progress stays one.
Waking == pc \in {"flush", "wake", "recover"} => wasSleeping

LinkInv == Waking /\ LinkDownMeansRecovering

LEMMA LinkStep ==
  ASSUME LinkInv, [Next]_vars
  PROVE  LinkInv'
<1> USE DEF LinkInv, Waking, LinkDownMeansRecovering
<1>0. Reconnect /\ BindOutcomes = {TRUE} => linked'
  <2> SUFFICES ASSUME Reconnect, BindOutcomes = {TRUE} PROVE linked'
    OBVIOUS
  <2>1. linked' = TRUE
    BY DEF Reconnect
  <2>2. QED  BY <2>1
<1>1. CASE Check
  BY <1>1 DEF Check, Goto, serverVars, sleepVars
<1>2. CASE Sleep
  BY <1>2 DEF Sleep, Goto, Disconnect, serverVars, sleepVars
<1>3. CASE FlushStale
  BY <1>3 DEF FlushStale, Goto
<1>4. CASE Wake
  BY <1>4 DEF Wake, Goto, serverVars
<1>5. CASE Recover
  BY <1>0, <1>5 DEF Recover, Goto
<1>6. CASE Send
  BY <1>6 DEF Send, Goto, sleepVars
<1>7. CASE Receive
  <2>1. UNCHANGED <<wasSleeping, shouldFlush>> /\ pc' \in {"deferred", "cef"}
    BY <1>7 DEF Receive, Dispatch, OnCommand, Goto, sleepVars
  <2>2. UNCHANGED linked \/ Reconnect
    BY <1>7 DEF Receive, Dispatch, OnStatus
  <2>3. QED  BY <1>0, <2>1, <2>2
<1>8. CASE Deferred
  BY <1>8 DEF Deferred, Goto, sleepVars
<1>9. CASE Load \/ CheckAnalyzer
  BY <1>9 DEF Load, CheckAnalyzer, Goto, serverVars, sleepVars
<1>10. CASE BrowserEvent \/ OnSource \/ Replace \/ EndPump
  <2>1. /\ UNCHANGED <<linked, wasSleeping, shouldFlush>>
        /\ pc' \notin {"flush", "wake", "recover"}
    BY <1>10
    DEF BrowserEvent, OnSource, SendBack, Launch, DropSource, Replace, EndPump,
        Goto, serverVars, sleepVars
  <2>2. QED  BY <2>1
<1>11. CASE World
  <2>1. CASE KiqDaemon /\ KiqFrame
    BY <2>1 DEF KiqDaemon, KiqSends, KiqTakes, KiqFrame, sleepVars
  <2>2. CASE Analyzer /\ AnalyzerFrame
    BY <2>2 DEF Analyzer, AnalyzerSends, AnalyzerReceives, AnalyzerEnds,
       AnalyzerFrame, sleepVars
  <2>3. CASE Clock /\ ClockFrame
    BY <2>3 DEF ClockFrame, serverVars
  <2>4. CASE (Suspend \/ Resume) /\ KsysFrame
    BY <2>4 DEF Suspend, Resume, KsysFrame, serverVars
  <2>5. QED  BY <1>11, <2>1, <2>2, <2>3, <2>4 DEF World, Outside
<1>12. CASE UNCHANGED vars
  BY <1>12 DEF vars, serverVars, sleepVars
<1>13. QED
  BY <1>1, <1>2, <1>3, <1>4, <1>5, <1>6, <1>7, <1>8, <1>9, <1>10, <1>11, <1>12
  DEF Next, Main, Work

\* As long as binding succeeds, the sockets are closed (:276) only while
\* should_flush_ or was_sleeping_ announces the reconnection of :270: the two
\* flags are written by another thread at any moment, and no interleaving
\* loses both.
THEOREM LinkRecovers == Spec => []LinkDownMeansRecovering
<1>1. Init => LinkInv
  <2> SUFFICES ASSUME Init PROVE LinkInv
    OBVIOUS
  <2>1. Waking
    BY DEF Init, Waking
  <2>2. BindOutcomes = {TRUE} => linked = TRUE
    BY DEF Init, ServerInit
  <2>3. QED  BY <2>1, <2>2 DEF LinkInv, LinkDownMeansRecovering
<1>2. LinkInv /\ [Next]_vars => LinkInv'
  BY LinkStep
<1>3. LinkInv => LinkDownMeansRecovering
  BY DEF LinkInv
<1>4. QED  BY <1>1, <1>2, <1>3, PTL DEF Spec

-----------------------------------------------------------------------------
(* What the program does to the queue of messages to send: the five ways   *)
(* of QueueStep, with what becomes of the flag.                            *)

OutStep ==
  \/ Added /\ (UNCHANGED reply \/ reply' = FALSE)
  \/ \E m \in OutMsg : m.kind \in AnalyzerBound /\ EnqueueReply(m) /\ UNCHANGED wire
  \/ SendNothing \/ SendHead \/ SendThrows
  \/ UNCHANGED <<out, reply>> /\ Taken

LEMMA OutIsQueueStep ==
  ASSUME TypeOK, OutStep
  PROVE  QueueStep
<1>1. ServerTypeOK
  BY DEF TypeOK
<1>2. ASSUME NEW m \in OutMsg, EnqueueReply(m), UNCHANGED wire
      PROVE  Added
  BY <1>1, <1>2, OneAdded DEF EnqueueReply
<1>3. QED  BY <1>2 DEF OutStep, QueueStep

LEMMA StillOut ==
  ASSUME UNCHANGED <<out, reply, wire>>
  PROVE  OutStep
  BY DEF OutStep, Taken

LEMMA OneOut ==
  ASSUME TypeOK, NEW kind \in KiqBound, NEW body \in Values,
         out' = Append(out, Out(kind, body)), UNCHANGED <<reply, wire>>
  PROVE  OutStep
<1>1. Added
  BY OneAdded, OutType DEF TypeOK
<1>2. QED  BY <1>1 DEF OutStep

LEMMA ReplyOut ==
  ASSUME NEW kind \in AnalyzerBound, NEW body \in Values,
         EnqueueReply(Out(kind, body)), UNCHANGED wire
  PROVE  OutStep
<1>1. Out(kind, body) \in OutMsg /\ Out(kind, body).kind \in AnalyzerBound
  BY OutType DEF Out
<1>2. QED  BY <1>1 DEF OutStep

LEMMA HandleOut ==
  ASSUME TypeOK, NEW type, NEW a1 \in Values, NEW a2 \in Values,
         Handle(type, <<a1, a2>>), UNCHANGED wire
  PROVE  OutStep
<1> DEFINE args == <<a1, a2>>
<1>1. CASE Ignore
  BY <1>1, StillOut DEF Ignore, handlerVars
<1>2. CASE OnMessage(args) \/ OnQuery(args) \/ OnLoadUrl(args)
  BY <1>1, <1>2, StillOut DEF OnMessage, OnQuery, OnLoadUrl
<1>3. CASE OnAnalysis(args)
  <2>1. Added
    BY <1>3, OneAdded, OutType DEF OnAnalysis, KiqBound, TypeOK
  <2>2. QED  BY <1>3, <2>1 DEF OnAnalysis, OutStep
<1>4. CASE OnGenerate(args)
  BY <1>4, OneOut DEF OnGenerate, KiqBound
<1>5. CASE OnGenerated(args)
  BY <1>5, ReplyOut DEF OnGenerated, AnalyzerBound
<1>6. QED  BY <1>1, <1>2, <1>3, <1>4, <1>5 DEF Handle

LEMMA OutSteps ==
  ASSUME TypeOK, [Next]_vars
  PROVE  OutStep
<1>0. ServerTypeOK
  BY DEF TypeOK
<1>1. CASE Recover
  BY <1>1, HelloType DEF Recover, Reconnect, Added, OutStep
<1>2. CASE Send
  BY <1>2 DEF Send, OutStep
<1>3. CASE Receive
  <2>1. CASE Ignore /\ UNCHANGED wire
    BY <2>1, StillOut DEF Ignore, handlerVars
  <2>2. CASE OnStatus
    <3>1. Out("okay", "none") \in OutMsg /\ Out("keepalive", "none") \in OutMsg
      BY OutType DEF KiqBound, Values
    <3>2. <<Out("okay", "none")>> \o Hello \o <<Out("keepalive", "none")>>
            \in Seq(OutMsg)
      BY <3>1, HelloType
    <3>3. out' = out \o (<<Out("okay", "none")>> \o Hello
                          \o <<Out("keepalive", "none")>>)
      BY <1>0, <2>2, <3>1, HelloType DEF OnStatus, ServerTypeOK
    <3>4. QED  BY <2>2, <3>2, <3>3 DEF OnStatus, Reconnect, Added, OutStep
  <2>3. CASE OnKeepalive /\ UNCHANGED wire
    BY <2>3, OneOut DEF OnKeepalive, KiqBound, Values
  <2>4. CASE Inbox # <<>> /\ OnCommand(Head(Inbox)) /\ UNCHANGED wire
    <3>1. CASE Ignore
      BY <2>1, <2>4, <3>1
    <3>2. CASE Handle(Head(Inbox).type, Args(Head(Inbox)))
      <4>1. Head(Inbox) \in InMsg
        BY <2>4, InboxType, TailType DEF TypeOK
      <4>2. Head(Inbox).type \in Values /\ Head(Inbox).arg \in Values
        BY <4>1 DEF InMsg, Values
      <4>3. \/ Args(Head(Inbox)) = <<Head(Inbox).type, Head(Inbox).arg>>
            \/ Args(Head(Inbox)) = <<Head(Inbox).arg, Head(Inbox).type>>
        BY DEF Args
      <4>4. QED  BY <2>4, <3>2, <4>2, <4>3, HandleOut
    <3>3. QED  BY <2>4, <3>1, <3>2 DEF OnCommand
  <2>5. QED
    BY <1>3, <2>1, <2>2, <2>3, <2>4, Zenon DEF Receive, Dispatch
<1>4. CASE Deferred
  <2>1. UNCHANGED wire
    BY <1>4 DEF Deferred
  <2>2. CASE Ignore
    BY <2>1, <2>2, StillOut DEF Ignore, handlerVars
  <2>3. CASE /\ msgQueue # <<>>
             /\ Handle(Head(msgQueue)[1], Head(msgQueue)[2])
    <3>1. Head(msgQueue) \in (Commands \cup {"none"}) \X (Values \X Values)
      BY <2>3, TailType DEF TypeOK
    <3>2. PICK a1 \in Values, a2 \in Values : Head(msgQueue)[2] = <<a1, a2>>
      BY <3>1
    <3>3. QED  BY <2>1, <2>3, <3>2, HandleOut
  <2>4. QED  BY <1>4, <2>2, <2>3 DEF Deferred
<1>5. CASE OnSource
  <2>1. PICK s \in Pages : SendBack(s) \/ Launch(s) \/ DropSource
    BY <1>5 DEF OnSource
  <2>2. UNCHANGED wire
    BY <1>5 DEF OnSource
  <2>3. CASE SendBack(s)
    BY <2>2, <2>3, ReplyOut DEF SendBack, AnalyzerBound, Values
  <2>4. QED  BY <2>1, <2>2, <2>3, StillOut DEF Launch, DropSource
<1>6. CASE Sleep
  <2>1. CASE UNCHANGED serverVars
    BY <2>1, StillOut DEF serverVars
  <2>2. CASE Disconnect /\ UNCHANGED <<out, reply>>
    <3>1. out' = out \o <<>> /\ <<>> \in Seq(OutMsg)
      BY <1>0, <2>2 DEF ServerTypeOK
    <3>2. QED  BY <2>2, <3>1 DEF Disconnect, Added, OutStep
  <2>3. QED  BY <1>6, <2>1, <2>2 DEF Sleep
<1>7. CASE Check \/ FlushStale \/ Wake \/ Load \/ CheckAnalyzer
           \/ BrowserEvent \/ Replace \/ EndPump \/ UNCHANGED vars
  <2>1. UNCHANGED <<out, reply, wire>>
    BY <1>7
    DEF Check, FlushStale, Wake, Load, CheckAnalyzer, BrowserEvent, Replace,
        EndPump, vars, serverVars
  <2>2. QED  BY <2>1, StillOut
<1>8. CASE World
  <2>1. UNCHANGED <<out, reply>>
    BY <1>8
    DEF World, Outside, KiqDaemon, KiqSends, KiqTakes, Analyzer, AnalyzerSends,
        AnalyzerReceives, AnalyzerEnds, ClockFrame, KsysFrame, serverVars
  <2>2. CASE UNCHANGED wire
    BY <2>1, <2>2, StillOut
  <2>3. ASSUME NEW s \in Sockets, NEW k \in 0 .. Len(wire[s]),
               wire' = [wire EXCEPT ![s] = SubSeq(@, k + 1, Len(@))]
        PROVE  OutStep
    <3>1. CASE k = 0
      <4>1. wire[s] \in Seq(OutMsg) /\ wire \in [Sockets -> Seq(OutMsg)]
        BY <1>0 DEF ServerTypeOK
      <4>2. SubSeq(wire[s], 0 + 1, Len(wire[s])) = wire[s]
        BY <4>1
      <4>3. QED  BY <2>2, <2>3, <3>1, <4>1, <4>2
    <3>2. CASE k \in 1 .. Len(wire[s])
      BY <2>1, <2>3, <3>2 DEF OutStep, Taken
    <3>3. wire[s] \in Seq(OutMsg)
      BY <1>0 DEF ServerTypeOK
    <3>4. QED  BY <3>1, <3>2, <3>3
  <2>4. ASSUME NEW s \in Sockets, wire[s] # <<>>,
               wire' = [wire EXCEPT ![s] = Tail(@)]
        PROVE  OutStep
    <3>1. wire[s] \in Seq(OutMsg)
      BY <1>0 DEF ServerTypeOK
    <3>2. 1 \in 0 .. Len(wire[s])
          /\ Tail(wire[s]) = SubSeq(wire[s], 1 + 1, Len(wire[s]))
      BY <2>4, <3>1
    <3>3. wire' = [wire EXCEPT ![s] = SubSeq(@, 1 + 1, Len(@))]
      BY <2>4, <3>2
    <3>4. QED  BY <2>3, <3>2, <3>3
  <2>5. QED
    BY <1>8, <2>2, <2>3, <2>4
    DEF World, Outside, KiqDaemon, KiqSends, KiqTakes, Analyzer, AnalyzerSends,
        AnalyzerReceives, AnalyzerEnds, ClockFrame, KsysFrame, serverVars,
        Sockets
<1>9. QED
  BY <1>1, <1>2, <1>3, <1>4, <1>5, <1>6, <1>7, <1>8 DEF Next, Main, Work

\* The null pointer a failed send leaves is only ever the front of out_, in the
\* whole program too.
THEOREM NullIsAtFront == Spec => []NullOnlyAtFront
<1>1. Init => NullOnlyAtFront
  BY OutboxStart DEF Init
<1>2. TypeOK /\ NullOnlyAtFront /\ [Next]_vars => NullOnlyAtFront'
  BY OutSteps, OutIsQueueStep, NullOnlyAtFrontStep DEF TypeOK
<1>3. QED  BY <1>1, <1>2, TypeCorrect, PTL DEF Spec

\* The server's promise under its real caller: across failed sends, failed
\* binds, sleep and reconnections, each message the program enqueues is sent at
\* most once, by one socket, in the order they were enqueued, and is lost
\* before that by a failed send only.
THEOREM ControllerImplementsOutbox == Spec => ImplementsOutbox
<1>1. Init => Box!OutboxInit
  BY OutboxStart DEF Init
<1>2. TypeOK /\ NullOnlyAtFront /\ [Next]_vars
        => [Box!OutboxNext]_<<Backlog, wire>>
  BY OutSteps, OutIsQueueStep, OutboxStep DEF TypeOK
<1>3. QED
  BY <1>1, <1>2, TypeCorrect, NullIsAtFront, PTL
  DEF Spec, ImplementsOutbox, Box!OutboxSpec, Box!outboxVars

-----------------------------------------------------------------------------
(* The reply flag.                                                         *)

\* A reply to the analyzer is still to be sent.
HasReply(s) == \E i \in 1 .. Len(s) : s[i].kind \in AnalyzerBound

LEMMA HasReplyAppend ==
  ASSUME NEW s \in Seq(OutSlot), NEW t \in Seq(OutSlot), HasReply(s)
  PROVE  HasReply(s \o t)
<1>1. PICK i \in 1 .. Len(s) : s[i].kind \in AnalyzerBound
  BY DEF HasReply
<1>2. i \in 1 .. Len(s \o t) /\ (s \o t)[i] = s[i]
  OBVIOUS
<1>3. QED  BY <1>1, <1>2 DEF HasReply

LEMMA HasReplyLast ==
  ASSUME NEW s \in Seq(OutSlot), NEW m \in OutSlot, m.kind \in AnalyzerBound
  PROVE  HasReply(Append(s, m))
<1>1. /\ Len(s) + 1 \in 1 .. Len(Append(s, m))
      /\ Append(s, m)[Len(s) + 1] = m
  OBVIOUS
<1>2. QED  BY <1>1 DEF HasReply

LEMMA HasReplyTail ==
  ASSUME NEW s \in Seq(OutSlot), HasReply(s), s # <<>>, Head(s) = Moved
  PROVE  HasReply(Tail(s))
<1>1. PICK i \in 1 .. Len(s) : s[i].kind \in AnalyzerBound
  BY DEF HasReply
<1>2. i # 1
  BY <1>1 DEF Moved, Out, AnalyzerBound
<1>3. i - 1 \in 1 .. Len(Tail(s)) /\ Tail(s)[i - 1] = s[i]
  BY <1>2
<1>4. QED  BY <1>1, <1>3 DEF HasReply

LEMMA ReplyStep ==
  ASSUME TypeOK, ReplyHasMessage, OutStep
  PROVE  ReplyHasMessage'
<1> SUFFICES ASSUME ~SendFaults, reply' PROVE HasReply(out)'
  BY DEF ReplyHasMessage, HasReply
<1>0. out \in Seq(OutSlot)
  BY DEF TypeOK, ServerTypeOK
<1>1. reply => HasReply(out)
  BY DEF ReplyHasMessage, HasReply
<1>2. CASE UNCHANGED <<out, reply>>
  BY <1>1, <1>2 DEF HasReply
<1>3. CASE Added /\ UNCHANGED reply
  <2>1. PICK t \in Seq(OutMsg) : out' = out \o t
    BY <1>3 DEF Added
  <2>2. t \in Seq(OutSlot)
    BY DEF OutSlot
  <2>3. HasReply(out \o t)
    BY <1>0, <1>1, <1>3, <2>2, HasReplyAppend
  <2>4. QED  BY <2>1, <2>3 DEF HasReply
<1>4. ASSUME NEW m \in OutMsg, m.kind \in AnalyzerBound, EnqueueReply(m)
      PROVE  HasReply(out)'
  <2>1. HasReply(Append(out, m))
    BY <1>0, <1>4, HasReplyLast DEF OutSlot
  <2>2. QED  BY <1>4, <2>1 DEF HasReply, EnqueueReply
<1>5. CASE UNCHANGED reply /\ out # <<>> /\ Head(out) = Moved /\ out' = Tail(out)
  <2>1. HasReply(Tail(out))
    BY <1>0, <1>1, <1>5, HasReplyTail
  <2>2. QED  BY <1>5, <2>1 DEF HasReply
<1>6. QED
  BY <1>2, <1>3, <1>4, <1>5 DEF OutStep, SendNothing, SendHead, SendThrows

\* Where sending does not throw, reply_ never outlives the reply it was set
\* for (:203, :163), however replies, other messages, reconnections and sends
\* follow each other: it is cleared by the first send after it was set, and
\* nothing takes a message away but that send.
THEOREM ReplyIsForAMessage == Spec => []ReplyHasMessage
<1>1. Init => ReplyHasMessage
  BY DEF Init, ServerInit, ReplyHasMessage
<1>2. TypeOK /\ ReplyHasMessage /\ [Next]_vars => ReplyHasMessage'
  BY OutSteps, ReplyStep
<1>3. QED  BY <1>1, <1>2, TypeCorrect, PTL DEF Spec

=============================================================================
