------------------------------ MODULE Browser ------------------------------
(***************************************************************************)
(* KCEFClient (handler.cpp) as the controller meets it: the one browser it *)
(* knows, with one main frame. The methods are action fragments for the    *)
(* controller; the callbacks CEF makes, and what Chromium does between     *)
(* them, are actions of the message pump. CEF is external: a browser is    *)
(* created some time after it was asked for, a navigation commits or fails *)
(* some time after LoadURL, every frame of a committed page ends its load  *)
(* once, and GetSource yields the text of the page that is in the frame    *)
(* when the renderer runs it, delivered later still.                       *)
(*                                                                         *)
(* Client has the map of browsers, popups and the window, and implements   *)
(* this module.                                                            *)
(***************************************************************************)
EXTENDS Messages

CONSTANTS
  Popups,     \* can a page open a browser of its own, or one be closed?
  MaxFrames,  \* bound: frames of a page, each with its OnLoadEnd
  MaxFetch    \* bound: OnLoadEnd asks for sources while fewer are under way

ASSUME BrowserAssumption ==
  /\ Popups \in BOOLEAN
  /\ MaxFrames \in Nat \ {0} /\ MaxFetch \in Nat \ {0}

VARIABLES
  there,   \* has browsers_ an entry? "soon", "yes", "gone"
  page,    \* what get_url() returns
  nav,     \* the navigation under way, or NoUrl
  ends,    \* OnLoadEnd calls the page has still to make
  fetch,   \* GetSource requests the renderer has not served yet
  got,     \* sources on their way to Visit()
  top,     \* xwindow::is_top_
  loaded   \* load_time_ is set

browserVars == <<there, page, nav, ends, fetch, got, top, loaded>>

BrowserTypeOK ==
  /\ there \in {"soon", "yes", "gone"}
  /\ page \in Pages
  /\ nav \in Values
  /\ ends \in 0 .. MaxFrames
  /\ fetch \in Nat
  /\ got \in Seq(Pages)
  /\ top \in BOOLEAN
  /\ loaded \in BOOLEAN

BrowserInit ==
  /\ there = "soon"
  /\ page = NoUrl /\ nav = NoUrl /\ ends = 0
  /\ fetch = 0 /\ got = <<>>
  /\ top = FALSE /\ loaded = FALSE

-----------------------------------------------------------------------------
\* Methods the controller calls. get_url() and set_url() throw unless there
\* is a browser; their callers say what follows.

\* set_url(): a navigation under way is aborted; OnLoadError ignores that.
SetUrl(url) == nav' = url

\* focus() and on_finish().
Focus    == top' = TRUE
OnFinish == top' = FALSE

\* query(): one more GetSource, on an event of its own. scroll() comes first,
\* and throws without a browser.
Query == fetch' = IF there = "yes" THEN fetch + 1 ELSE fetch

-----------------------------------------------------------------------------
\* What happens while CefDoMessageLoopWork() runs.

\* OnAfterCreated(): the browser asked for at startup.
Create ==
  /\ there = "soon" /\ there' = "yes"
  /\ nav' = Home
  /\ UNCHANGED <<page, ends, fetch, got, top, loaded>>

\* The navigation commits. Something that is no URL does not.
Commit ==
  /\ nav \in Urls \cup {ErrorPage}
  /\ page' = nav /\ nav' = NoUrl
  /\ ends' \in 1 .. MaxFrames
  /\ UNCHANGED <<there, fetch, got, top, loaded>>

\* The navigation fails. OnLoadError loads an error page in its place, but
\* not for an aborted one, and not under the Chrome runtime.
LoadFails ==
  /\ nav # NoUrl
  /\ nav' \in {ErrorPage, NoUrl}
  /\ UNCHANGED <<there, page, ends, fetch, got, top, loaded>>

\* OnLoadEnd(), for any frame: with code 200 it asks for the source of the
\* main frame, with any code it notes the time.
OnLoadEnd ==
  /\ ends > 0
  /\ ends' = ends - 1
  /\ loaded' = TRUE
  /\ \/ UNCHANGED fetch
     \/ fetch + Len(got) < MaxFetch /\ fetch' = fetch + 1
  /\ UNCHANGED <<there, page, nav, got, top>>

\* The renderer serves a GetSource: of the page there is, or of one that was
\* asked before the browser was replaced.
Capture ==
  /\ fetch > 0
  /\ fetch' = fetch - 1
  /\ \E p \in IF Popups THEN Pages ELSE {page} : got' = Append(got, p)
  /\ UNCHANGED <<there, page, nav, ends, top, loaded>>

\* A popup takes the place of the browser, or the browser is closed: CEF has
\* nothing more to say of it to a caller that asks for "the" browser.
Replaced ==
  /\ Popups /\ there # "soon"
  /\ \/ there' = "yes" /\ nav' \in Urls
     \/ there' = "gone" /\ nav' = NoUrl
  /\ page' = NoUrl /\ ends' = 0
  /\ fetch' \in 0 .. fetch
  /\ UNCHANGED <<got, top, loaded>>

\* The browsers that were replaced go on calling, and what was asked of them may
\* come to nothing.
Others ==
  /\ Popups
  /\ loaded' \in {loaded, TRUE}
  /\ \/ fetch' \in 0 .. fetch
     \/ fetch + Len(got) < MaxFetch /\ fetch' = fetch + 1
  /\ UNCHANGED <<there, page, nav, ends, got, top>>

Pump == Create \/ Commit \/ LoadFails \/ OnLoadEnd \/ Capture
        \/ Replaced \/ Others

\* The source Visit() hands to the controller's callback.
Visit(s) ==
  /\ got # <<>> /\ s = Head(got) /\ got' = Tail(got)
  /\ UNCHANGED <<there, page, nav, ends, fetch, top, loaded>>

-----------------------------------------------------------------------------
(* The browser under any caller: what Client is shown to implement.        *)

Called ==
  \/ /\ there = "yes" /\ \E url \in Values : SetUrl(url)
     /\ UNCHANGED <<there, page, ends, fetch, got, top, loaded>>
  \/ /\ Focus \/ OnFinish
     /\ UNCHANGED <<there, page, nav, ends, fetch, got, loaded>>
  \/ /\ Query
     /\ UNCHANGED <<there, page, nav, ends, got, top, loaded>>

BrowserNext == Pump \/ (\E s \in Pages : Visit(s)) \/ Called

BrowserSpec == BrowserInit /\ [][BrowserNext]_browserVars

=============================================================================
