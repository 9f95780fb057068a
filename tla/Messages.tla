------------------------------ MODULE Messages ------------------------------
(***************************************************************************)
(* The messages KCEF exchanges with the KIQ daemon and with the analyzer.  *)
(* Only what the program branches on is kept: the IPC type, the command   *)
(* name, and which page or text a payload stands for.                     *)
(***************************************************************************)
EXTENDS Naturals, Sequences

CONSTANTS
  Targets,   \* pages KIQ asks the browser to open ("message" commands)
  Profiles,  \* user pages the analyzer asks for ("loadurl" commands)
  Home       \* the page opened at startup

\* No page yet, or no navigation under way.
NoUrl == "no url"

Urls == Targets \cup Profiles

ASSUME UrlAssumption ==
  /\ Home \in Targets
  /\ Targets \cap Profiles = {}
  /\ NoUrl \notin Urls

\* The keys of controller::kiq_handler.
Commands == {"message", "query", "loadurl", "analysis", "info", "generate",
             "generated"}

\* The data: page OnLoadError puts in place of a page that failed to load.
ErrorPage == "error page"

Pages == Urls \cup {ErrorPage, NoUrl}

\* Everything a payload can be: a page, a text, or, when the arguments of a
\* command are mixed up, the name of the command itself.
Values == Pages \cup Commands \cup {"text", "scroll", "none"}

\* Incoming messages: the IPC types the dispatch table of the controller
\* knows, an undecodable message, and one whose dispatch throws.
InMsg ==
  [ipc  : {"status", "keepalive", "ok", "kiq", "info", "undecodable",
           "malformed"},
   type : Commands \cup {"none"},
   arg  : Values]

Signal(ipc) == [ipc |-> ipc, type |-> "none", arg |-> "none"]

\* A kiq_message: JSON {"args": [type, arg]}.
Kiq(type, arg) == [ipc |-> "kiq", type |-> type, arg |-> arg]

\* A platform_info: type() and info().
Info(type, arg) == [ipc |-> "info", type |-> type, arg |-> arg]

\* Outgoing messages. "new_url" and "generated" answer a request of the
\* analyzer, everything else is addressed to KIQ. "moved" is the null
\* unique_ptr left at the front of the queue when a send throws.
AnalyzerBound == {"new_url", "generated"}
KiqBound      == {"status", "keepalive", "okay", "analysis", "generate"}

OutMsg == [kind : AnalyzerBound \cup KiqBound, body : Values]

Out(kind, body) == [kind |-> kind, body |-> body]

Moved   == Out("moved", "none")
OutSlot == OutMsg \cup {Moved}

=============================================================================
