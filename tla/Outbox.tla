------------------------------- MODULE Outbox -------------------------------
(***************************************************************************)
(* What the outgoing half of kiq::server promises its caller, whatever the *)
(* caller does: one queue of accepted messages, and one lane per socket.   *)
(* A message leaves the queue from its head, once, and for one lane only.  *)
(* It is never duplicated, invented or overtaken by a message accepted     *)
(* later, and lost on the way out only where handing over can fail. Which  *)
(* lane it takes is NOT promised.                                          *)
(***************************************************************************)
EXTENDS Naturals, Sequences

CONSTANTS
  Message,  \* what callers send
  Lane,     \* the sockets it can leave by
  Losses    \* can handing over fail?

VARIABLES
  pending,  \* accepted, not yet handed to a socket
  lane      \* per socket: handed over, not yet taken by the peer

outboxVars == <<pending, lane>>

\* t continues s: s is a prefix of t.
Continues(t, s) ==
  /\ Len(s) <= Len(t)
  /\ \A i \in 1 .. Len(s) : t[i] = s[i]

OutboxInit ==
  /\ pending \in Seq(Message)
  /\ lane = [l \in Lane |-> <<>>]

\* New messages join the tail of the queue.
Accept ==
  /\ pending' \in Seq(Message)
  /\ Continues(pending', pending)
  /\ UNCHANGED lane

\* The head of the queue is handed to one of the sockets.
Deliver ==
  /\ pending # <<>>
  /\ \E l \in Lane : lane' = [lane EXCEPT ![l] = Append(@, Head(pending))]
  /\ pending' = Tail(pending)

\* The head of the queue is lost.
Lose ==
  /\ Losses /\ pending # <<>>
  /\ pending' = Tail(pending)
  /\ UNCHANGED lane

\* A peer takes the oldest messages of its lane.
Take ==
  /\ \E l \in Lane : \E k \in 1 .. Len(lane[l]) :
       lane' = [lane EXCEPT ![l] = SubSeq(@, k + 1, Len(@))]
  /\ UNCHANGED pending

\* Closing the sockets discards the newest messages of the lanes; the
\* reconnection that may follow announces itself with new messages.
Cut ==
  /\ pending' \in Seq(Message)
  /\ Continues(pending', pending)
  /\ \A l \in Lane : Continues(lane[l], lane'[l])
  /\ DOMAIN lane' = DOMAIN lane

OutboxNext == Accept \/ Deliver \/ Lose \/ Take \/ Cut

OutboxSpec == OutboxInit /\ [][OutboxNext]_outboxVars

=============================================================================
