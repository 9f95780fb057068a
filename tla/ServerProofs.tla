---------------------------- MODULE ServerProofs ----------------------------
(***************************************************************************)
(* kiq::server keeps its types, its null pointer and its promise (Outbox)  *)
(* for any messages, any high-water mark, any bounds and any caller.       *)
(***************************************************************************)
EXTENDS ServerCalls, ServerLemmas

LEMMA CallsType ==
  ASSUME ServerTypeOK, [ServerNext]_serverVars
  PROVE  ServerTypeOK'
<1> USE CallsAssumption
<1>1. ASSUME NEW m \in Outgoing, CallEnqueue(m) \/ CallEnqueueReply(m)
      PROVE  ServerTypeOK'
  <2>1. Append(out, m) \in Seq(OutSlot)
    BY <1>1, AppendType DEF ServerTypeOK, OutSlot
  <2>2. QED
    BY <1>1, <2>1 DEF CallEnqueue, CallEnqueueReply, EnqueueReply, ServerTypeOK
<1>2. ASSUME NEW b \in BOOLEAN, CallSetReplyPending(b)
      PROVE  ServerTypeOK'
  BY <1>2 DEF CallSetReplyPending, ServerTypeOK
<1>3. CASE CallReconnect
  <2>1. out \o Hello \in Seq(OutSlot)
    BY HelloType DEF ServerTypeOK, OutSlot
  <2>2. QED  BY <1>3, <2>1, RelinkType DEF CallReconnect, ServerTypeOK
<1>4. CASE CallDisconnect
  BY <1>4, RelinkType DEF CallDisconnect, ServerTypeOK
<1>5. CASE CallFlush
  BY <1>5 DEF CallFlush, Flush, ServerTypeOK
<1>6. CASE RunTx
  BY <1>6, SendType DEF RunTx, ServerTypeOK
<1>7. CASE RunRx
  <2>1. Tail(Inbox) \in Seq(InMsg)
    BY <1>7, InboxType, TailType DEF RunRx
  <2>2. QED  BY <1>7, <2>1, RecvType DEF RunRx, ServerTypeOK
<1>8. ASSUME NEW m \in Incoming, PeerSends(m)
      PROVE  ServerTypeOK'
  <2>1. Append(rxq, m) \in Seq(InMsg) /\ Append(txq, m) \in Seq(InMsg)
    BY AppendType DEF ServerTypeOK
  <2>2. QED  BY <1>8, <2>1 DEF PeerSends, ServerTypeOK
<1>9. ASSUME NEW s \in Sockets, PeerTakes(s)
      PROVE  ServerTypeOK'
  <2>1. Tail(wire[s]) \in Seq(OutMsg)
    BY <1>9, TailType DEF PeerTakes, ServerTypeOK
  <2>2. QED  BY <1>9, <2>1 DEF PeerTakes, ServerTypeOK
<1>10. CASE UNCHANGED serverVars
  BY <1>10 DEF serverVars, ServerTypeOK
<1>11. QED
  BY <1>1, <1>2, <1>3, <1>4, <1>5, <1>6, <1>7, <1>8, <1>9, <1>10
  DEF ServerNext

LEMMA InitType == ServerInit => ServerTypeOK
<1> SUFFICES ASSUME ServerInit PROVE ServerTypeOK
  OBVIOUS
<1>1. out \in Seq(OutSlot)
  BY HelloType DEF ServerInit, OutSlot
<1>2. linked \in BOOLEAN /\ reply \in BOOLEAN
  BY ServerAssumption DEF ServerInit
<1>3. QED  BY <1>1, <1>2 DEF ServerInit, ServerTypeOK

\* Every queue of the server holds what it may hold; in particular no null
\* pointer reaches a socket (server.cpp:98).
THEOREM ServerTypeCorrect == ServerSpec => []TypeOK
<1>1. ServerInit => TypeOK
  BY InitType DEF TypeOK
<1>2. TypeOK /\ [ServerNext]_serverVars => TypeOK'
  BY CallsType DEF TypeOK
<1>3. QED  BY <1>1, <1>2, PTL DEF ServerSpec

-----------------------------------------------------------------------------
(* The promise.                                                            *)

LEMMA CallsQueue ==
  ASSUME ServerTypeOK, [ServerNext]_serverVars
  PROVE  QueueStep
<1> USE CallsAssumption DEF QueueStep
<1>1. ASSUME NEW m \in Outgoing, CallEnqueue(m) \/ CallEnqueueReply(m)
      PROVE  Added
  BY <1>1, OneAdded DEF CallEnqueue, CallEnqueueReply, EnqueueReply
<1>2. CASE CallReconnect
  BY <1>2, HelloType DEF CallReconnect, Reconnect, Added
<1>3. CASE CallDisconnect
  <2>1. out' = out \o <<>> /\ DropUnsent
    BY <1>3 DEF CallDisconnect, Disconnect, ServerTypeOK
  <2>2. <<>> \in Seq(OutMsg)
    OBVIOUS
  <2>3. QED  BY <2>1, <2>2 DEF Added
<1>4. CASE RunTx
  BY <1>4 DEF RunTx
<1>5. ASSUME NEW s \in Sockets, PeerTakes(s)
      PROVE  UNCHANGED out /\ Taken
  <2>1. wire[s] \in Seq(OutMsg) /\ wire[s] # <<>>
    BY <1>5 DEF PeerTakes, ServerTypeOK
  <2>2. 1 \in 1 .. Len(wire[s])
        /\ Tail(wire[s]) = SubSeq(wire[s], 1 + 1, Len(wire[s]))
    BY <2>1
  <2>3. wire' = [wire EXCEPT ![s] = SubSeq(@, 1 + 1, Len(@))]
    BY <1>5, <2>2 DEF PeerTakes
  <2>4. QED  BY <1>5, <2>2, <2>3 DEF PeerTakes, Taken
<1>6. CASE UNCHANGED <<out, wire>>
  BY <1>6 DEF Taken
<1>7. QED
  BY <1>1, <1>2, <1>3, <1>4, <1>5, <1>6
  DEF ServerNext, CallSetReplyPending, CallFlush, RunRx, PeerSends, serverVars

\* The null pointer a failed send leaves is only ever the front of out_.
THEOREM NullStaysAtFront == ServerSpec => []NullOnlyAtFront
<1>1. ServerInit => NullOnlyAtFront
  BY OutboxStart
<1>2. TypeOK /\ NullOnlyAtFront /\ [ServerNext]_serverVars => NullOnlyAtFront'
  BY CallsQueue, NullOnlyAtFrontStep DEF TypeOK
<1>3. QED  BY <1>1, <1>2, ServerTypeCorrect, PTL DEF ServerSpec

\* server.cpp implements Outbox for every caller: a message is sent at most
\* once, by one socket, and never overtakes an older one; where sending does
\* not throw, none is lost before it is sent.
THEOREM ServerImplementsOutbox == ServerSpec => Outbox
<1>1. ServerInit => Box!OutboxInit
  BY OutboxStart
<1>2. /\ TypeOK /\ NullOnlyAtFront /\ [ServerNext]_serverVars
      => [Box!OutboxNext]_<<Backlog, wire>>
  BY CallsQueue, OutboxStep DEF TypeOK
<1>3. QED
  BY <1>1, <1>2, ServerTypeCorrect, NullStaysAtFront, PTL
  DEF ServerSpec, Outbox, Box!OutboxSpec, Box!outboxVars

=============================================================================
