------------------------------ MODULE Session ------------------------------
(***************************************************************************)
(* What the controller promises about analyses: a query wants one, one     *)
(* worker does it, the session is closed by its result or by giving up.    *)
(* None is opened in an open session, nor while a worker runs. A worker is *)
(* collected when its session is closed and it has ended; one that has     *)
(* ended may also be replaced by the next, uncollected. Where sessions     *)
(* overlap, one may be opened over a worker that has been let go of: that  *)
(* worker ends before the new one is looked at.                            *)
(***************************************************************************)
CONSTANT Overlaps

VARIABLES
  wanted,   \* a query has been accepted and not been served
  session,  \* "none", "open", or "closed" with a worker left to collect
  worker    \* "none", "running" or "ended"

sessionVars == <<wanted, session, worker>>

SessionInit == wanted = FALSE /\ session = "none" /\ worker = "none"

Want == wanted' = TRUE /\ UNCHANGED <<session, worker>>

\* Only for a query, only when no session is open, and unless they overlap
\* when no worker runs. The worker may fail at once.
Open ==
  /\ wanted /\ session # "open"
  /\ worker = "running" => Overlaps
  /\ wanted' = FALSE /\ session' = "open"
  /\ worker' \in {"running", "ended"}

End == worker = "running" /\ worker' = "ended" /\ UNCHANGED <<wanted, session>>

\* The worker the session was opened over has ended, its own runs.
TakeOver ==
  /\ Overlaps /\ session = "open"
  /\ worker = "ended" /\ worker' = "running"
  /\ UNCHANGED <<wanted, session>>

Close == session = "open" /\ session' = "closed" /\ UNCHANGED <<wanted, worker>>

Collect ==
  /\ session = "closed" /\ worker = "ended"
  /\ session' = "none" /\ worker' = "none"
  /\ UNCHANGED wanted

SessionNext == Want \/ Open \/ End \/ TakeOver \/ Close \/ Collect

SessionSpec == SessionInit /\ [][SessionNext]_sessionVars

=============================================================================
