----------------------------- MODULE MCSentinel -----------------------------
(***************************************************************************)
(* One page to analyse and the pages of its users.                         *)
(***************************************************************************)
EXTENDS Sentinel

PageCmds == {Kiq("message", "home"), Kiq("query", "none")}
AllAsks     == Requests

(***************************************************************************)
(* Where the passing run looks, so that it can afford a third command: KIQ *)
(* sends its commands to rx_, pages do not fail, and one source at a time  *)
(* is under way.                                                           *)
(***************************************************************************)
SentinelBound ==
  /\ \A i \in 1 .. Len(txq) : txq[i] \notin PageCmds
  /\ ErrorPage \notin {page, nav}
  /\ fetch + Len(got) <= 1

=============================================================================
