------------------------------- MODULE Server -------------------------------
(***************************************************************************)
(* kiq::server (server.cpp): three ZMQ sockets, the queue of messages to   *)
(* send, the queue of messages received, and the flag that chooses the     *)
(* socket of the next send. The class runs on the main thread only, so a   *)
(* public method is one step; run() is its two halves, TX then RX.         *)
(*                                                                         *)
(* This module holds the state and the methods, as action fragments: the   *)
(* controller composes them into its handlers, and ServerCalls drives them *)
(* by an arbitrary caller. What a ZMQ socket does (high-water mark, linger,*)
(* bind) is external and follows the options server.cpp sets.              *)
(***************************************************************************)
EXTENDS Messages

CONSTANTS
  Hwm,           \* ZMQ send high-water mark: messages a socket holds
  BindOutcomes,  \* what rx_.bind can do: {TRUE}, or {TRUE, FALSE}
  SendFaults     \* can send_ipc_message throw?

ASSUME ServerAssumption ==
  /\ Hwm \in Nat \ {0}
  /\ BindOutcomes \in SUBSET BOOLEAN
  /\ SendFaults \in BOOLEAN

VARIABLES
  out,     \* out_: messages to send
  msgs,    \* msgs_: messages received, not yet dispatched
  reply,   \* reply_: the next send uses ax_ (the analyzer), not tx_ (KIQ)
  linked,  \* the sockets are bound and connected
  rxq,     \* arrived at rx_, unread
  txq,     \* arrived at tx_, unread
  wire     \* handed to ax_ / tx_, not yet taken by the peer

serverVars == <<out, msgs, reply, linked, rxq, txq, wire>>

Sockets == {"ax", "tx"}

ServerTypeOK ==
  /\ out    \in Seq(OutSlot)
  /\ msgs   \in Seq(InMsg)
  /\ reply  \in BOOLEAN
  /\ linked \in BOOLEAN
  /\ rxq    \in Seq(InMsg)
  /\ txq    \in Seq(InMsg)
  /\ wire   \in [Sockets -> Seq(OutMsg)]

-----------------------------------------------------------------------------
\* What connect() enqueues once the sockets are set up, or failed to be.
Hello == <<Out("status", "none"), Out("keepalive", "none")>>

\* Receiving end of the sockets after close() and re-creation: what had
\* arrived is gone.
DropIncoming == rxq' = <<>> /\ txq' = <<>>

\* Sending end: linger 0, so close() discards what has not left yet.
DropUnsent ==
  \E a \in 0 .. Len(wire["ax"]), t \in 0 .. Len(wire["tx"]) :
    wire' = [wire EXCEPT !["ax"] = SubSeq(@, 1, a), !["tx"] = SubSeq(@, 1, t)]

\* disconnect(): new sockets, neither bound nor connected.
Disconnect == DropIncoming /\ DropUnsent /\ linked' = FALSE

\* connect(true) but for its enqueueing of Hello. The bind comes first: when
\* it throws, tx_ and ax_ are not connected either.
Reconnect == DropIncoming /\ DropUnsent /\ linked' \in BindOutcomes

\* Variant of EnqueueReply: the reply jumps the queue.
EnqueueReplyFirst(m) == reply' = TRUE /\ out' = <<m>> \o out

\* set_reply_pending() followed by enqueue_ipc().
EnqueueReply(m) == reply' = TRUE /\ out' = Append(out, m)

\* flush(): reads rx_, and only rx_, until it is empty.
Flush == rxq' = <<>>

\* socket(): where the next send goes.
Socket == IF reply THEN "ax" ELSE "tx"

\* Variant of SendNothing: an empty queue is waited for, as msgs_ could be.
SendNothingWaits ==
  /\ out # <<>> /\ Head(out) = Moved /\ out' = Tail(out)
  /\ UNCHANGED <<reply, wire>>

\* run(), TX half: nothing to send, or a null front to drop.
SendNothing ==
  /\ \/ out = <<>> /\ UNCHANGED out
     \/ out # <<>> /\ Head(out) = Moved /\ out' = Tail(out)
  /\ UNCHANGED <<reply, wire>>

\* Variants of SendHead with a fault in each: no test for the null pointer, no
\* pop_front(), no on_done().
SendHeadNullToo ==
  /\ out # <<>>
  /\ linked /\ Len(wire[Socket]) < Hwm
  /\ wire' = [wire EXCEPT ![Socket] = Append(@, Head(out))]
  /\ out' = Tail(out)
  /\ reply' = FALSE

SendHeadKept ==
  /\ out # <<>> /\ Head(out) # Moved
  /\ linked /\ Len(wire[Socket]) < Hwm
  /\ wire' = [wire EXCEPT ![Socket] = Append(@, Head(out))]
  /\ UNCHANGED out
  /\ reply' = FALSE

SendHeadNotDone ==
  /\ out # <<>> /\ Head(out) # Moved
  /\ linked /\ Len(wire[Socket]) < Hwm
  /\ wire' = [wire EXCEPT ![Socket] = Append(@, Head(out))]
  /\ out' = Tail(out)
  /\ UNCHANGED reply

\* Variant: a send that does not wait, its failure ignored.
SendHeadUnsent ==
  /\ out # <<>> /\ Head(out) # Moved
  /\ IF linked /\ Len(wire[Socket]) < Hwm
       THEN wire' = [wire EXCEPT ![Socket] = Append(@, Head(out))]
       ELSE UNCHANGED wire
  /\ out' = Tail(out)
  /\ reply' = FALSE

\* run(), TX half: send() and on_done(). A DEALER without a peer, or with a
\* full queue, blocks the calling thread: the step is not enabled.
SendHead ==
  /\ out # <<>> /\ Head(out) # Moved
  /\ linked /\ Len(wire[Socket]) < Hwm
  /\ wire' = [wire EXCEPT ![Socket] = Append(@, Head(out))]
  /\ out' = Tail(out)
  /\ reply' = FALSE

\* Variant: the message that could not be sent goes back to the tail.
SendThrowsToTail ==
  /\ SendFaults
  /\ out # <<>> /\ Head(out) # Moved
  /\ out' = Append(Tail(out), Moved)
  /\ UNCHANGED <<reply, wire>>

\* run(), TX half: send_ipc_message throws. The message was moved out of the
\* queue, its null pointer stays in front; on_done() is not reached.
SendThrows ==
  /\ SendFaults
  /\ out # <<>> /\ Head(out) # Moved
  /\ out' = <<Moved>> \o Tail(out)
  /\ UNCHANGED <<reply, wire>>

\* run(), RX half: poll() and recv() move one message of each readable
\* socket to msgs_, rx_ first; wait_and_pop() takes the oldest of them.
First(q) == IF q = <<>> THEN <<>> ELSE <<Head(q)>>
Rest(q)  == IF q = <<>> THEN <<>> ELSE Tail(q)
Inbox    == msgs \o First(rxq) \o First(txq)

Recv == rxq' = Rest(rxq) /\ txq' = Rest(txq)

\* The queue as its callers see it: the null front is no message.
Backlog == IF out # <<>> /\ Head(out) = Moved THEN Tail(out) ELSE out

ServerInit ==
  /\ out = Hello
  /\ msgs = <<>> /\ rxq = <<>> /\ txq = <<>>
  /\ reply = FALSE
  /\ linked \in BindOutcomes
  /\ wire = [s \in Sockets |-> <<>>]

-----------------------------------------------------------------------------
(* What it promises, whoever calls it.                                     *)

\* The null pointer a failed send leaves is only ever the front of out_, so
\* that run() meets it before any message behind it, and never two of them
\* (server.cpp:97-106).
NullOnlyAtFront ==
  \A i \in 1 .. Len(out) : out[i] = Moved => i = 1

\* Across failed sends, disconnections and reconnections a message is sent at
\* most once, by one socket, and never overtakes an older one; only a send
\* that failed loses one.
Box == INSTANCE Outbox WITH
  Message <- OutMsg, Lane <- Sockets, Losses <- SendFaults,
  pending <- Backlog, lane <- wire

=============================================================================
