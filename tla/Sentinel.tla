------------------------------ MODULE Sentinel ------------------------------
(***************************************************************************)
(* The controller with the analyzer process in detail, in place of the one *)
(* Controller sketches: started by the callback of a source, asking over   *)
(* rx_, answered over ax_, ended by itself or after 240 seconds.           *)
(***************************************************************************)
EXTENDS Controller, Analyzer

\* There is one analyzer: without popups, no session is opened over another.
ASSUME SentinelAssumption ==
  Popups = FALSE /\ Requests \subseteq Asks /\ Result.arg \in Results

sentinelVars == <<vars, analyzerVars>>

-----------------------------------------------------------------------------
\* The main thread, and everything else but the analyzer. The process begins
\* when a launch starts it (controller.cpp:230-242).
ProcessStarts == proc \notin Running /\ proc' \in Running

Daemon ==
  /\ Main \/ Outside
  /\ IF ProcessStarts THEN Begin ELSE UNCHANGED analyzerVars

\* The process by itself.
Thinks == proc \in Running /\ Think(job.url) /\ UNCHANGED vars

\* Its oldest message arrives at rx_, while that is bound.
Arrives ==
  /\ linked /\ pipe # <<>> /\ budget.asks > 0
  /\ budget' = [budget EXCEPT !.asks = @ - 1]
  /\ rxq' = Append(rxq, Head(pipe)) /\ pipe' = Tail(pipe)
  /\ UNCHANGED <<out, msgs, reply, linked, txq, wire, procVars, apc, attempts,
                 todo>>
  /\ AnalyzerFrame

\* controller.recv() (socket.js:63-69): the next message there is.
Receives ==
  /\ proc \in Running /\ wire["ax"] # <<>>
  /\ wire' = [wire EXCEPT !["ax"] = Tail(@)]
  /\ ReadPage(Head(wire["ax"])) \/ ReadText
  /\ UNCHANGED <<out, msgs, reply, linked, rxq, txq, procVars, budget>>
  /\ AnalyzerFrame

\* The process ends (index.js:98, :58), or kiq::process ends it, wherever it is;
\* with it go the messages it had received and not read.
Exits ==
  /\ AnalyzerEnds /\ AnalyzerFrame
  /\ ~Bound => UNCHANGED wire
  /\ End

SentinelInit == Init /\ AnalyzerInit

SentinelNext == Daemon \/ Thinks \/ Arrives \/ Receives \/ Exits

SentinelSpec == SentinelInit /\ [][SentinelNext]_sentinelVars

-----------------------------------------------------------------------------
(* What holds.                                                             *)

\* What Controller allows of the analyzer is all the real one does: what is
\* shown of Controller holds of the two together.
ImplementsController == Spec

\* Types, and: the process awaits something exactly while it runs.
SentinelTypeOK ==
  /\ AnalyzerTypeOK
  /\ (apc # "off") = (proc \in Running)

\* The request of a page, or one like it, has not been dispatched yet.
Asked(m)  == m.ipc = "info" /\ m.type = "loadurl"
Asking(s) == \E i \in 1 .. Len(s) : Asked(s[i])
OnItsWay  == Asking(pipe) \/ Asking(rxq) \/ Asking(msgs)

\* Where nothing is lost: no suspension, no reconnection.
Calm == MaxSleeps = 0 /\ \A m \in KiqCmds : m.ipc # "status"

\* While the analyzer waits for a page, its request is on its way, or
\* app_waiting_ is set, so that the next source is sent to it (:198); or a query
\* was accepted since it was started, which has reset app_waiting_ (:120) and
\* left app_requested_ set. Where nothing is dropped on the way, nothing else
\* forgets the wait: no refused query, result, time-out or join.
WaitIsKnown ==
  Calm /\ apc = "page" => OnItsWay \/ appWaiting \/ appRequested

-----------------------------------------------------------------------------
(* What the code says of itself and does not keep; see the README.         *)

\* "Reading user" (twitter.js:67), "Received generation response" (:198):
\* what is received is what was asked for.
AnswerFitsRequest ==
  wire["ax"] # <<>> =>
    /\ apc = "page" => Head(wire["ax"]) = Out("new_url", Head(todo))
    /\ apc = "text" => Head(wire["ax"]).kind = "generated"

=============================================================================
