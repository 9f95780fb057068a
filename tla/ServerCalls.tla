---------------------------- MODULE ServerCalls ----------------------------
(***************************************************************************)
(* kiq::server by itself: a caller that uses the public methods in any     *)
(* order, and the peers at the other end of the three sockets. It shows    *)
(* what the class guarantees whoever calls it; the module Controller shows *)
(* what becomes of it under its one real caller.                           *)
(***************************************************************************)
EXTENDS Server

CONSTANTS
  Outgoing,  \* messages the caller enqueues
  Incoming,  \* messages the peers send
  MaxOut,    \* bound: the caller enqueues while fewer are queued
  MaxIn      \* bound: the peers send while fewer are unread

ASSUME CallsAssumption ==
  /\ Outgoing \subseteq OutMsg
  /\ Incoming \subseteq InMsg
  /\ MaxOut \in Nat /\ MaxIn \in Nat

CallEnqueue(m) ==
  /\ Len(out) < MaxOut
  /\ out' = Append(out, m)
  /\ UNCHANGED <<msgs, reply, linked, rxq, txq, wire>>

CallEnqueueReply(m) ==
  /\ Len(out) < MaxOut
  /\ EnqueueReply(m)
  /\ UNCHANGED <<msgs, linked, rxq, txq, wire>>

CallSetReplyPending(b) ==
  /\ reply' = b
  /\ UNCHANGED <<out, msgs, linked, rxq, txq, wire>>

CallReconnect ==
  /\ Len(out) < MaxOut
  /\ Reconnect
  /\ out' = out \o Hello
  /\ UNCHANGED <<msgs, reply>>

CallDisconnect == Disconnect /\ UNCHANGED <<out, msgs, reply>>

CallFlush == Flush /\ UNCHANGED <<out, msgs, reply, linked, txq, wire>>

RunTx ==
  /\ SendNothing \/ SendHead \/ SendThrows
  /\ UNCHANGED <<msgs, linked, rxq, txq>>

RunRx ==
  /\ Inbox # <<>>
  /\ Recv /\ msgs' = Tail(Inbox)
  /\ UNCHANGED <<out, reply, linked, wire>>

PeerSends(m) ==
  /\ linked
  /\ Len(msgs) + Len(rxq) + Len(txq) < MaxIn
  /\ \/ rxq' = Append(rxq, m) /\ UNCHANGED txq
     \/ txq' = Append(txq, m) /\ UNCHANGED rxq
  /\ UNCHANGED <<out, msgs, reply, linked, wire>>

PeerTakes(s) ==
  /\ wire[s] # <<>>
  /\ wire' = [wire EXCEPT ![s] = Tail(@)]
  /\ UNCHANGED <<out, msgs, reply, linked, rxq, txq>>

ServerNext ==
  \/ \E m \in Outgoing : CallEnqueue(m) \/ CallEnqueueReply(m)
  \/ \E b \in BOOLEAN : CallSetReplyPending(b)
  \/ CallReconnect \/ CallDisconnect \/ CallFlush
  \/ RunTx \/ RunRx
  \/ \E m \in Incoming : PeerSends(m)
  \/ \E s \in Sockets : PeerTakes(s)

ServerSpec == ServerInit /\ [][ServerNext]_serverVars

-----------------------------------------------------------------------------
\* Every queue holds what it may hold. In particular the null pointer a
\* failed send leaves in out_ never reaches a socket (the test at
\* server.cpp:98).
TypeOK == ServerTypeOK

\* server.cpp implements Outbox: whatever the caller does, and across failed
\* sends, disconnections and reconnections, a message is sent at most once,
\* by one socket, and never overtakes an older one; only a send that failed
\* loses one.
Outbox == Box!OutboxSpec

=============================================================================
