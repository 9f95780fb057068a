---------------------------- MODULE MCController ----------------------------
(***************************************************************************)
(* What KIQ sends and what the analyzer asks for, per run.                 *)
(***************************************************************************)
EXTENDS Controller

\* Opening a page and asking for its analysis.
PageCmds == {Kiq("message", "home"), Kiq("query", "none")}

\* Whatever else reaches the dispatch table, and all of it.
SignalCmds ==
  {Signal("status"), Signal("keepalive"), Signal("undecodable"),
   Signal("malformed"), Kiq("info", "scroll"), Kiq("none", "none")}
AllCmds == PageCmds \cup SignalCmds

\* Commands that get deferred, in both formats.
DeferredCmds == {Kiq("info", "scroll"), Info("generated", "text")}

LoadUrlOnly == {Info("loadurl", "profile")}

\* A page to open that may come before there is a browser, or after.
LoadHome == {Info("loadurl", "home")}
EndsCmds == PageCmds \cup LoadHome

(***************************************************************************)
(* Where the run with popups looks. A request of an analyzer comes first,  *)
(* and leaves a URL in the queue while there is no browser; then come the  *)
(* commands, all on rx_, and only the first may be a signal. Pages do not  *)
(* fail, sources are of the page in the browser and one at a time, the     *)
(* timer expires under an analysis only.                                   *)
(***************************************************************************)
PopupsBound ==
  /\ budget.asks = MaxAsks \/ there = "soon" => budget.cmds = MaxCmds
  /\ Len(out) <= 2 /\ Len(queue) <= 2 /\ txq = <<>>
  /\ ErrorPage \notin {page, nav} /\ got \in {<<>>, <<Home>>} /\ fetch <= 1
  /\ job \in {NoJob, [url |-> Home, source |-> Home]}
  /\ timer = "expired" => appActive
  /\ budget.cmds < MaxCmds - 1 =>
       SignalCmds \cap {(rxq \o msgs)[i] : i \in 1 .. Len(rxq \o msgs)} = {}

=============================================================================
