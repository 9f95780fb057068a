------------------------------ MODULE Analyzer ------------------------------
(***************************************************************************)
(* The analyzer process (index.js, twitter.js, socket.js): one thread that *)
(* leaves its control only where it awaits something; apc names the await. *)
(* It asks for one thing at a time and takes whatever arrives next for the *)
(* answer. Language processing, HTML and the web are external: which users *)
(* there are to look up, and what comes of it, is left open.               *)
(*                                                                         *)
(* This module holds the state and the steps, as action fragments:         *)
(* Sentinel composes them with the controller, whose ax_ they read.        *)
(***************************************************************************)
EXTENDS Messages

CONSTANTS
  MaxUsers,    \* bound: users a page gives reason to look up
  PortFaults   \* can the port of rx_ be in use?

ASSUME AnalyzerAssumption == MaxUsers \in Nat /\ PortFaults \in BOOLEAN

VARIABLES
  apc,       \* what the process awaits; "off": there is none
  attempts,  \* start() calls so far
  todo,      \* select, from the user under way on: whose pages to ask for
  pipe       \* sent by its tx_, not left yet

analyzerVars == <<apc, attempts, todo, pipe>>

\* ++attempts < 5
MaxAttempts == 4

AnalyzerTypeOK ==
  /\ apc \in {"off", "boot", "start", "resolve", "user", "page", "strategy",
              "text", "stop", "stuck", "exit"}
  /\ attempts \in 0 .. MaxAttempts
  /\ todo \in Seq(Profiles)
  /\ pipe \in Seq(InMsg)

\* The requests of the analyzer, and its result.
Requests == {Info("loadurl", p) : p \in Profiles} \cup {Info("generate", "text")}
Result   == Info("analysis", "text")

AnalyzerInit == apc = "off" /\ attempts = 0 /\ todo = <<>> /\ pipe = <<>>

Await(where) == apc' = where
Says(m)      == pipe' = Append(pipe, m)

-----------------------------------------------------------------------------
\* The process is started; it is ended from outside, or ends. What had not
\* left its socket is gone.
Fresh == attempts' = 0 /\ todo' = <<>> /\ pipe' = <<>>
Begin == Await("boot") /\ Fresh
End   == Await("off") /\ Fresh

\* index.js: the model is trained and the page is read. There is a handler
\* for the pages of one site only; get_input() may find no users' names.
Boot(url) ==
  /\ apc = "boot"
  /\ \/ url \in Urls /\ Await("start")
     \/ Await("exit")
  /\ UNCHANGED <<attempts, todo, pipe>>

\* Variant of Start: attempts are counted from the failures.
StartOnceMore ==
  /\ apc = "start"
  /\ attempts' = attempts + 1
  /\ \/ Await("resolve")
     \/ PortFaults /\ Await(IF attempts < MaxAttempts THEN "start" ELSE "exit")
  /\ UNCHANGED <<todo, pipe>>

\* controller.start(), tried again after a while.
Start ==
  /\ apc = "start"
  /\ attempts' = attempts + 1
  /\ \/ Await("resolve")
     \/ PortFaults /\ Await(IF attempts' < MaxAttempts THEN "start" ELSE "exit")
  /\ UNCHANGED <<todo, pipe>>

\* compute_resolutions(): analyze() of every candidate. Its promise may never
\* be resolved.
Resolve ==
  /\ apc = "resolve"
  /\ \/ /\ \E n \in 0 .. MaxUsers : todo' \in [1 .. n -> Profiles]
        /\ Await("user")
     \/ Await("stuck") /\ UNCHANGED todo
  /\ UNCHANGED <<attempts, pipe>>

\* Variant of FetchUser: user_url() forgotten.
FetchUserByName ==
  /\ apc = "user"
  /\ \/ todo # <<>> /\ Says(Info("loadurl", "text")) /\ Await("page")
     \/ todo = <<>> /\ Says(Result) /\ Await("stop")
  /\ UNCHANGED <<attempts, todo>>

\* fetch_users(): the page of the next user; after the last, the result.
FetchUser ==
  /\ apc = "user"
  /\ \/ todo # <<>> /\ Says(Info("loadurl", Head(todo))) /\ Await("page")
     \/ todo = <<>> /\ Says(Result) /\ Await("stop")
  /\ UNCHANGED <<attempts, todo>>

NextUser == Await("user") /\ todo' = Tail(todo)

\* recv(), and read_user(): a page may be one of an agitator; one that is not
\* that of a user makes it throw, and the user is passed over.
ReadPage(answer) ==
  /\ apc = "page"
  /\ \/ NextUser
     \/ answer.kind = "new_url" /\ Await("strategy") /\ UNCHANGED todo
  /\ UNCHANGED <<attempts, pipe>>

\* formulate_strategy(), up to its request: there may be nothing to say, or
\* an exception; analyze() again.
Strategy ==
  /\ apc = "strategy"
  /\ \/ NextUser /\ UNCHANGED pipe
     \/ Says(Info("generate", "text")) /\ Await("text") /\ UNCHANGED todo
     \/ Await("stuck") /\ UNCHANGED <<todo, pipe>>
  /\ UNCHANGED attempts

\* recv(), and the rest of formulate_strategy(): any response will do.
ReadText ==
  /\ apc = "text"
  /\ NextUser
  /\ UNCHANGED <<attempts, pipe>>

\* stop(), at once after the result was handed to the socket: the context
\* does not block, so what has not left is dropped.
Stop ==
  /\ apc = "stop"
  /\ Await("exit") /\ pipe' = <<>>
  /\ UNCHANGED <<attempts, todo>>

\* The steps that neither read a message nor end the process.
Think(url) ==
  Boot(url) \/ Start \/ Resolve \/ FetchUser \/ Strategy \/ Stop

\* rx_ is bound: what the daemon sends has arrived, or may have.
Bound == apc \notin {"off", "boot", "start"}

=============================================================================
