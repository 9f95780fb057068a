---------------------------- MODULE ServerLemmas ----------------------------
(***************************************************************************)
(* What the methods of kiq::server do to the types of its state, for the   *)
(* proofs of every module that composes them.                              *)
(***************************************************************************)
EXTENDS Server, TLAPS

LEMMA MovedIsNoMessage == Moved \notin OutMsg
  BY DEF Moved, Out, OutMsg, AnalyzerBound, KiqBound

LEMMA HelloType == Hello \in Seq(OutMsg)
  BY DEF Hello, Out, OutMsg, AnalyzerBound, KiqBound, Values

LEMMA PartType ==
  ASSUME NEW S, NEW s \in Seq(S), NEW k \in 0 .. Len(s)
  PROVE  /\ SubSeq(s, 1, k) \in Seq(S)
         /\ SubSeq(s, k + 1, Len(s)) \in Seq(S)
  OBVIOUS

LEMMA AppendType ==
  ASSUME NEW S, NEW s \in Seq(S), NEW e \in S
  PROVE  Append(s, e) \in Seq(S)
  OBVIOUS

LEMMA AppendIsConcat ==
  ASSUME NEW S, NEW s \in Seq(S), NEW e \in S
  PROVE  Append(s, e) = s \o <<e>>
  OBVIOUS

LEMMA RetypeSeq ==
  ASSUME NEW S, NEW T, NEW s \in Seq(S), \A i \in 1 .. Len(s) : s[i] \in T
  PROVE  s \in Seq(T)
  OBVIOUS

LEMMA TailType ==
  ASSUME NEW S, NEW s \in Seq(S), s # <<>>
  PROVE  Head(s) \in S /\ Tail(s) \in Seq(S)
  OBVIOUS

LEMMA DropUnsentType ==
  ASSUME wire \in [Sockets -> Seq(OutMsg)], DropUnsent
  PROVE  wire' \in [Sockets -> Seq(OutMsg)]
<1>1. PICK a \in 0 .. Len(wire["ax"]), t \in 0 .. Len(wire["tx"]) :
        wire' = [wire EXCEPT !["ax"] = SubSeq(@, 1, a),
                             !["tx"] = SubSeq(@, 1, t)]
  BY DEF DropUnsent
<1>2. wire["ax"] \in Seq(OutMsg) /\ wire["tx"] \in Seq(OutMsg)
  BY DEF Sockets
<1>3. /\ SubSeq(wire["ax"], 1, a) \in Seq(OutMsg)
      /\ SubSeq(wire["tx"], 1, t) \in Seq(OutMsg)
  BY <1>2, PartType
<1>4. QED  BY <1>1, <1>3 DEF Sockets

LEMMA RelinkType ==
  ASSUME ServerTypeOK, Disconnect \/ Reconnect
  PROVE  /\ rxq' \in Seq(InMsg) /\ txq' \in Seq(InMsg)
         /\ linked' \in BOOLEAN
         /\ wire' \in [Sockets -> Seq(OutMsg)]
<1>1. wire' \in [Sockets -> Seq(OutMsg)]
  BY DropUnsentType DEF ServerTypeOK, Disconnect, Reconnect
<1>2. linked' \in BOOLEAN
  BY ServerAssumption DEF Disconnect, Reconnect
<1>3. rxq' = <<>> /\ txq' = <<>>
  BY DEF Disconnect, Reconnect, DropIncoming
<1>4. QED  BY <1>1, <1>2, <1>3

LEMMA SendType ==
  ASSUME ServerTypeOK, SendNothing \/ SendHead \/ SendThrows
  PROVE  /\ out' \in Seq(OutSlot) /\ reply' \in BOOLEAN
         /\ wire' \in [Sockets -> Seq(OutMsg)]
<1>1. CASE SendNothing
  BY <1>1, TailType DEF SendNothing, ServerTypeOK
<1>2. CASE SendHead
  <2>1. Head(out) \in OutMsg /\ Tail(out) \in Seq(OutSlot)
    BY <1>2, TailType DEF SendHead, ServerTypeOK, OutSlot
  <2>2. Socket \in Sockets
    BY DEF Socket, Sockets
  <2>3. Append(wire[Socket], Head(out)) \in Seq(OutMsg)
    BY <2>1, <2>2, AppendType DEF ServerTypeOK
  <2>4. QED  BY <1>2, <2>1, <2>2, <2>3 DEF SendHead, ServerTypeOK
<1>3. CASE SendThrows
  <2>1. Tail(out) \in Seq(OutSlot) /\ Moved \in OutSlot
    BY <1>3, TailType DEF SendThrows, ServerTypeOK, OutSlot
  <2>2. QED  BY <1>3, <2>1 DEF SendThrows, ServerTypeOK
<1>4. QED  BY <1>1, <1>2, <1>3

LEMMA InboxType ==
  ASSUME ServerTypeOK
  PROVE  Inbox \in Seq(InMsg)
<1>1. First(rxq) \in Seq(InMsg) /\ First(txq) \in Seq(InMsg)
  BY TailType DEF First, ServerTypeOK
<1>2. QED  BY <1>1 DEF Inbox, ServerTypeOK

LEMMA RecvType ==
  ASSUME ServerTypeOK, Recv
  PROVE  rxq' \in Seq(InMsg) /\ txq' \in Seq(InMsg)
  BY TailType DEF Recv, Rest, ServerTypeOK

-----------------------------------------------------------------------------
(* What a step can do to the queue of messages to send and to the sockets: *)
(* its tail grows, while sockets may be closed; its head is sent, or lost; *)
(* or a peer takes what was sent. Whatever is made of these steps keeps the*)
(* promise of Outbox.                                                      *)

Added == \E t \in Seq(OutMsg) : out' = out \o t /\ (UNCHANGED wire \/ DropUnsent)

Taken ==
  \/ UNCHANGED wire
  \/ \E s \in Sockets : \E k \in 1 .. Len(wire[s]) :
       wire' = [wire EXCEPT ![s] = SubSeq(@, k + 1, Len(@))]

QueueStep ==
  Added \/ SendNothing \/ SendHead \/ SendThrows \/ (UNCHANGED out /\ Taken)

LEMMA OneAdded ==
  ASSUME ServerTypeOK, NEW m \in OutMsg, out' = Append(out, m), UNCHANGED wire
  PROVE  Added
<1>1. <<m>> \in Seq(OutMsg)
  OBVIOUS
<1>2. out' = out \o <<m>>
  BY AppendIsConcat DEF ServerTypeOK, OutSlot
<1>3. QED  BY <1>1, <1>2 DEF Added

LEMMA NullOnlyAtFrontStep ==
  ASSUME ServerTypeOK, NullOnlyAtFront, QueueStep
  PROVE  NullOnlyAtFront'
<1>1. CASE Added
  <2>1. PICK t \in Seq(OutMsg) : out' = out \o t
    BY <1>1 DEF Added
  <2>2. \A i \in 1 .. Len(t) : t[i] # Moved
    BY MovedIsNoMessage
  <2>3. QED  BY <2>1, <2>2 DEF NullOnlyAtFront, ServerTypeOK
<1>2. CASE SendThrows
  BY <1>2 DEF SendThrows, NullOnlyAtFront, ServerTypeOK
<1>3. CASE out # <<>> /\ out' = Tail(out)
  <2>1. \A i \in 1 .. Len(out) : out[i] = Moved => i = 1
    BY DEF NullOnlyAtFront
  <2>2. \A i \in 1 .. Len(Tail(out)) : Tail(out)[i] # Moved
    BY <1>3, <2>1 DEF ServerTypeOK
  <2>3. QED  BY <1>3, <2>2 DEF NullOnlyAtFront
<1>4. CASE UNCHANGED out
  BY <1>4 DEF NullOnlyAtFront
<1>5. QED
  BY <1>1, <1>2, <1>3, <1>4 DEF QueueStep, SendNothing, SendHead

\* Backlog grows at its tail with out_, and shrinks at its head when a message
\* is sent or lost.
LEMMA BacklogType ==
  ASSUME ServerTypeOK, NullOnlyAtFront
  PROVE  Backlog \in Seq(OutMsg)
<1>1. CASE out = <<>>
  BY <1>1 DEF Backlog
<1>2. CASE out # <<>> /\ Head(out) = Moved
  <2>1. \A i \in 1 .. Len(Tail(out)) : Tail(out)[i] = out[i + 1]
    BY <1>2 DEF ServerTypeOK
  <2>2. \A i \in 1 .. Len(Tail(out)) : Tail(out)[i] \in OutMsg
    BY <1>2, <2>1 DEF ServerTypeOK, OutSlot, NullOnlyAtFront
  <2>3. Tail(out) \in Seq(OutSlot)
    BY <1>2, TailType DEF ServerTypeOK
  <2>4. Tail(out) \in Seq(OutMsg)
    BY <2>2, <2>3, RetypeSeq
  <2>5. QED  BY <1>2, <2>4 DEF Backlog
<1>3. CASE out # <<>> /\ Head(out) # Moved
  <2>1. \A i \in 1 .. Len(out) : out[i] \in OutMsg
    BY <1>3 DEF ServerTypeOK, OutSlot, NullOnlyAtFront
  <2>2. out \in Seq(OutSlot) /\ Backlog = out
    BY <1>3 DEF Backlog, ServerTypeOK
  <2>3. QED  BY <2>1, <2>2, RetypeSeq
<1>4. QED  BY <1>1, <1>2, <1>3

LEMMA BacklogGrows ==
  ASSUME ServerTypeOK, NEW t \in Seq(OutMsg), out' = out \o t
  PROVE  Backlog' = Backlog \o t
<1>1. CASE out = <<>>
  <2>1. out' = t
    BY <1>1 DEF ServerTypeOK
  <2>2. t # <<>> => Head(t) # Moved
    BY MovedIsNoMessage
  <2>3. QED  BY <1>1, <2>1, <2>2 DEF Backlog
<1>2. CASE out # <<>>
  <2>1. out' # <<>> /\ Head(out') = Head(out) /\ Tail(out') = Tail(out) \o t
    BY <1>2 DEF ServerTypeOK
  <2>2. QED  BY <1>2, <2>1 DEF Backlog
<1>3. QED  BY <1>1, <1>2

LEMMA ConcatContinues ==
  ASSUME NEW s \in Seq(OutMsg), NEW t \in Seq(OutMsg)
  PROVE  s \o t \in Seq(OutMsg) /\ Box!Continues(s \o t, s)
  BY DEF Box!Continues

LEMMA DropUnsentCuts ==
  ASSUME wire \in [Sockets -> Seq(OutMsg)], DropUnsent
  PROVE  /\ \A l \in Sockets : Box!Continues(wire[l], wire'[l])
         /\ DOMAIN wire' = DOMAIN wire
<1>1. PICK a \in 0 .. Len(wire["ax"]), t \in 0 .. Len(wire["tx"]) :
        wire' = [wire EXCEPT !["ax"] = SubSeq(@, 1, a),
                             !["tx"] = SubSeq(@, 1, t)]
  BY DEF DropUnsent
<1>2. wire["ax"] \in Seq(OutMsg) /\ wire["tx"] \in Seq(OutMsg)
  BY DEF Sockets
<1>3. wire'["ax"] = SubSeq(wire["ax"], 1, a)
  BY <1>1 DEF Sockets
<1>4. wire'["tx"] = SubSeq(wire["tx"], 1, t)
  BY <1>1 DEF Sockets
<1>5. /\ Box!Continues(wire["ax"], SubSeq(wire["ax"], 1, a))
      /\ Box!Continues(wire["tx"], SubSeq(wire["tx"], 1, t))
  BY <1>2 DEF Box!Continues
<1>6. QED  BY <1>1, <1>3, <1>4, <1>5 DEF Sockets

LEMMA OutboxStep ==
  ASSUME ServerTypeOK, NullOnlyAtFront, QueueStep
  PROVE  [Box!OutboxNext]_<<Backlog, wire>>
<1>1. Backlog \in Seq(OutMsg)
  BY BacklogType
<1>2. ASSUME NEW t \in Seq(OutMsg), out' = out \o t, UNCHANGED wire
      PROVE  Box!Accept
  <2>1. Backlog' = Backlog \o t
    BY <1>2, BacklogGrows
  <2>2. QED  BY <1>1, <1>2, <2>1, ConcatContinues DEF Box!Accept
<1>3. ASSUME NEW t \in Seq(OutMsg), out' = out \o t, DropUnsent
      PROVE  Box!Cut
  <2>1. Backlog' = Backlog \o t
    BY <1>3, BacklogGrows
  <2>2. Backlog' \in Seq(OutMsg) /\ Box!Continues(Backlog', Backlog)
    BY <1>1, <2>1, ConcatContinues
  <2>3. /\ \A l \in Sockets : Box!Continues(wire[l], wire'[l])
        /\ DOMAIN wire' = DOMAIN wire
    BY <1>3, DropUnsentCuts DEF ServerTypeOK
  <2>4. QED  BY <2>2, <2>3 DEF Box!Cut
<1>4. CASE Added
  BY <1>2, <1>3, <1>4 DEF Added, Box!OutboxNext
<1>5. CASE SendHead
  <2>1. out # <<>> /\ Head(out) # Moved /\ out' = Tail(out)
    BY <1>5 DEF SendHead
  <2>2. Backlog = out
    BY <2>1 DEF Backlog
  <2>3. Backlog' = Tail(out)
    <3>1. CASE Tail(out) = <<>>
      BY <2>1, <3>1 DEF Backlog
    <3>2. CASE Tail(out) # <<>>
      <4>1. Head(Tail(out)) = out[2] /\ 2 \in 1 .. Len(out)
        BY <2>1, <3>2 DEF ServerTypeOK
      <4>2. Head(out') # Moved
        BY <2>1, <4>1 DEF NullOnlyAtFront
      <4>3. QED  BY <2>1, <4>2 DEF Backlog
    <3>3. QED  BY <3>1, <3>2
  <2>4. Socket \in Sockets
    BY DEF Socket, Sockets
  <2>5. wire' = [wire EXCEPT ![Socket] = Append(@, Head(out))]
    BY <1>5 DEF SendHead
  <2>6. QED  BY <2>1, <2>2, <2>3, <2>4, <2>5 DEF Box!Deliver, Box!OutboxNext
<1>6. CASE SendThrows
  <2>1. SendFaults /\ Backlog = out /\ out # <<>> /\ UNCHANGED wire
    BY <1>6 DEF SendThrows, Backlog
  <2>2. Backlog' = Tail(out)
    <3>1. out' = <<Moved>> \o Tail(out) /\ Tail(out) \in Seq(OutSlot)
      BY <1>6, TailType DEF SendThrows, ServerTypeOK
    <3>2. Moved \in OutSlot
      BY DEF OutSlot
    <3>3. out' # <<>> /\ Head(out') = Moved /\ Tail(out') = Tail(out)
      BY <3>1, <3>2
    <3>4. QED  BY <3>3 DEF Backlog
  <2>3. QED  BY <2>1, <2>2 DEF Box!Lose, Box!OutboxNext
<1>7. CASE SendNothing
  <2>1. UNCHANGED wire
    BY <1>7 DEF SendNothing
  <2>2. CASE out = <<>> /\ UNCHANGED out
    BY <2>1, <2>2 DEF Backlog
  <2>3. CASE out # <<>> /\ Head(out) = Moved /\ out' = Tail(out)
    <3>1. Backlog = Tail(out)
      BY <2>3 DEF Backlog
    <3>2. CASE Tail(out) = <<>>
      BY <2>1, <2>3, <3>1, <3>2 DEF Backlog
    <3>3. CASE Tail(out) # <<>>
      <4>1. Head(Tail(out)) = out[2] /\ 2 \in 1 .. Len(out)
        BY <2>3, <3>3 DEF ServerTypeOK
      <4>2. Head(out') # Moved
        BY <2>3, <4>1 DEF NullOnlyAtFront
      <4>3. Backlog' = out'
        BY <4>2 DEF Backlog
      <4>4. QED  BY <2>1, <2>3, <3>1, <4>3
    <3>4. QED  BY <3>2, <3>3
  <2>4. QED  BY <1>7, <2>2, <2>3 DEF SendNothing
<1>8. CASE UNCHANGED out /\ Taken
  <2>1. UNCHANGED Backlog
    BY <1>8 DEF Backlog
  <2>2. Box!Take \/ UNCHANGED wire
    BY <1>8, <2>1 DEF Taken, Box!Take
  <2>3. QED  BY <2>1, <2>2 DEF Box!OutboxNext
<1>9. QED
  BY <1>4, <1>5, <1>6, <1>7, <1>8 DEF QueueStep

LEMMA OutboxStart ==
  ASSUME ServerInit
  PROVE  NullOnlyAtFront /\ Box!OutboxInit
<1>1. NullOnlyAtFront
  BY HelloType, MovedIsNoMessage DEF ServerInit, NullOnlyAtFront
<1>2. Backlog \in Seq(OutMsg)
  BY HelloType, MovedIsNoMessage, TailType DEF ServerInit, Backlog
<1>3. QED  BY <1>1, <1>2 DEF ServerInit, Box!OutboxInit

=============================================================================
