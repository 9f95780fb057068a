------------------------------- MODULE Client -------------------------------
(***************************************************************************)
(* KCEFClient (handler.cpp), the window it lives in (window.hpp), and how  *)
(* the two come to be (app.cpp, main.cpp), under any caller of its methods.*)
(* Every browser, popups too, is kept under the one key DEFAULT_KCEF_ID;   *)
(* the GetSource requests are events that look that key up when they run.  *)
(* CEF and the X server are external.                                      *)
(***************************************************************************)
EXTENDS Messages, SequencesExt

CONSTANTS
  Browsers,      \* the browsers CEF may create, the first and its popups
  Popups,        \* does a page open popups, or somebody close a browser?
  Given,         \* what callers of set_url() give it, no URLs among it maybe
  Widths,        \* sizes of a window
  DefaultWidth,  \* width_ at construction
  MaxFrames, MaxFetch,  \* bounds, as in Browser
  MaxXEvents     \* bound: X events unread when the window is resized again

None == "none"

ASSUME ClientAssumption ==
  /\ None \notin Browsers /\ Popups \in BOOLEAN /\ Given \subseteq Values
  /\ DefaultWidth \in Widths
  /\ MaxFrames \in Nat \ {0} /\ MaxFetch \in Nat \ {0} /\ MaxXEvents \in Nat

VARIABLES
  stage,     \* of main(): "initialize", "loop"; "down": crashed, or at an end
  instance,  \* g_instance is set
  used,      \* the browsers created so far
  open,      \* those not destroyed
  closing,   \* those DoClose() was called for
  known,     \* browsers_[DEFAULT_KCEF_ID], or None
  isClosing, \* is_closing_
  page, nav, \* per browser: the page in its main frame, the navigation
  due,       \* per browser: OnLoadEnd calls still to come
  events,    \* GetSource events that have not run
  asked,     \* the browsers whose renderers have a source to deliver
  got,       \* sources on their way to Visit()
  top,       \* xwindow::is_top_
  loaded,    \* load_time_ is set
  frame,     \* the size of the window, as the X server knows it
  width,     \* width_ (and height_)
  cefwin,    \* cefwin_, the window of a browser, or None
  size,      \* per browser: the size of its window
  xevents,   \* ConfigureNotify events to be read
  heard      \* one of them came after the constructor

browsersVars == <<used, open, closing, known, isClosing, page, nav, due, asked>>
flagVars     == <<events, got, top, loaded>>
windowVars   == <<frame, width, cefwin, size, xevents, heard>>
clientVars   == <<stage, instance, browsersVars, flagVars, windowVars>>

-----------------------------------------------------------------------------
(* Startup.                                                                *)

ClientInit ==
  /\ stage = "initialize" /\ instance = FALSE
  /\ used = {} /\ open = {} /\ closing = {}
  /\ known = None /\ isClosing = FALSE
  /\ page = [b \in Browsers |-> NoUrl] /\ nav = [b \in Browsers |-> NoUrl]
  /\ due = [b \in Browsers |-> 0]
  /\ events = 0 /\ asked = <<>> /\ got = <<>>
  /\ top = FALSE /\ loaded = FALSE
  /\ frame = DefaultWidth /\ width = DefaultWidth
  /\ cefwin = None /\ size = [b \in Browsers |-> DefaultWidth]
  /\ xevents = <<>> /\ heard = FALSE

\* CEF has initialised its context: the client and its window are created.
\* The window manager may have resized the window by the time it is mapped;
\* the constructor reads those events and drops them (window.hpp:24-27).
OnContextInitialized ==
  /\ stage = "initialize" /\ ~instance
  /\ instance' = TRUE
  /\ frame' \in Widths
  /\ UNCHANGED <<stage, browsersVars, flagVars, width, cefwin, size, xevents,
                 heard>>

\* CefInitialize() returns, and the controller calls init() through the
\* pointer GetInstance() gives: null if the context was not yet initialised.
BuildController ==
  /\ stage = "initialize"
  /\ stage' = IF instance THEN "loop" ELSE "down"
  /\ UNCHANGED <<instance, browsersVars, flagVars, windowVars>>

Up == stage # "down" /\ instance

-----------------------------------------------------------------------------
(* The life of browsers.                                                   *)

\* insert_or_assign() under the one key, and set_cef().
OnAfterCreated(b, url) ==
  /\ b \notin used
  /\ used' = used \cup {b} /\ open' = open \cup {b}
  /\ known' = b
  /\ cefwin' = b /\ size' = [size EXCEPT ![b] = width]
  /\ nav' = [nav EXCEPT ![b] = url]
  /\ UNCHANGED <<stage, instance, closing, isClosing, page, due, asked,
                 flagVars, frame, width, xevents, heard>>

\* The browser asked for at startup; one that a page of another opens.
Create == Up /\ used = {} /\ \E b \in Browsers : OnAfterCreated(b, Home)
PopUp  == Up /\ Popups /\ open # {} /\ \E b \in Browsers, url \in Urls :
                                         OnAfterCreated(b, url)

\* DoClose(): browsers_ has one entry or none, however many are open.
DoClose(b) ==
  /\ Up /\ Popups /\ b \in open \ closing
  /\ closing' = closing \cup {b}
  /\ isClosing' = (isClosing \/ known # None)
  /\ UNCHANGED <<stage, instance, used, open, known, page, nav, due, asked,
                 flagVars, windowVars>>

\* Variant of OnBeforeClose: the entry stays.
OnBeforeCloseKept(b) ==
  /\ Up /\ b \in closing
  /\ open' = open \ {b} /\ closing' = closing \ {b}
  /\ page' = [page EXCEPT ![b] = NoUrl] /\ nav' = [nav EXCEPT ![b] = NoUrl]
  /\ due' = [due EXCEPT ![b] = 0]
  /\ stage' = IF open = {b} THEN "down" ELSE stage
  /\ UNCHANGED <<instance, used, known, isClosing, asked, flagVars, windowVars>>

\* OnBeforeClose(): the entry is erased if it is this browser (IsSame). With
\* the last browser CEF lets go of the client, to which the controller has a
\* plain pointer; CefQuitMessageLoop() does nothing to a loop of
\* CefDoMessageLoopWork().
OnBeforeClose(b) ==
  /\ Up /\ b \in closing
  /\ open' = open \ {b} /\ closing' = closing \ {b}
  /\ known' = IF known = b THEN None ELSE known
  /\ page' = [page EXCEPT ![b] = NoUrl] /\ nav' = [nav EXCEPT ![b] = NoUrl]
  /\ due' = [due EXCEPT ![b] = 0]
  /\ stage' = IF open = {b} THEN "down" ELSE stage
  /\ UNCHANGED <<instance, used, isClosing, asked, flagVars, windowVars>>

-----------------------------------------------------------------------------
(* Pages and their sources.                                                *)

Commit(b) ==
  /\ Up /\ b \in open
  /\ nav[b] \in Urls \cup {ErrorPage}
  /\ page' = [page EXCEPT ![b] = nav[b]] /\ nav' = [nav EXCEPT ![b] = NoUrl]
  /\ \E n \in 1 .. MaxFrames : due' = [due EXCEPT ![b] = n]
  /\ UNCHANGED <<stage, instance, used, open, closing, known, isClosing, asked,
                 flagVars, windowVars>>

\* OnLoadError(): an error page, unless the load was aborted or the Chrome
\* runtime shows its own.
OnLoadError(b) ==
  /\ Up /\ b \in open /\ nav[b] # NoUrl
  /\ \E url \in {ErrorPage, NoUrl} : nav' = [nav EXCEPT ![b] = url]
  /\ UNCHANGED <<stage, instance, used, open, closing, known, isClosing, page,
                 due, asked, flagVars, windowVars>>

Pending == events + Len(asked) + Len(got)

OnLoadEnd(b) ==
  /\ Up /\ due[b] > 0
  /\ due' = [due EXCEPT ![b] = @ - 1]
  /\ loaded' = TRUE
  /\ \/ UNCHANGED events
     \/ Pending < MaxFetch /\ events' = events + 1
  /\ UNCHANGED <<stage, instance, used, open, closing, known, isClosing, page,
                 nav, asked, got, top, windowVars>>

\* Variant of RunEvent: the entry it makes is taken for a browser.
RunEventUnchecked ==
  /\ Up /\ events > 0
  /\ events' = events - 1 /\ asked' = Append(asked, known)
  /\ UNCHANGED <<stage, instance, used, open, closing, known, isClosing, page,
                 nav, due, got, top, loaded, windowVars>>

\* The event of OnLoadEnd() and query(): operator[] on the map. Without the
\* entry it makes one, and calls through the null reference in it.
RunEvent ==
  /\ Up /\ events > 0
  /\ \/ /\ known # None
        /\ events' = events - 1 /\ asked' = Append(asked, known)
        /\ UNCHANGED stage
     \/ /\ known = None
        /\ stage' = "down"
        /\ UNCHANGED <<events, asked>>
  /\ UNCHANGED <<instance, used, open, closing, known, isClosing, page, nav,
                 due, got, top, loaded, windowVars>>

\* A renderer serves the oldest request made of it; each browser has its own.
\* Of a browser that is gone no source comes.
Capture ==
  /\ Up
  /\ \E i \in 1 .. Len(asked) :
       /\ \A j \in 1 .. i - 1 : asked[j] # asked[i]
       /\ got' = IF asked[i] \in open THEN Append(got, page[asked[i]]) ELSE got
       /\ asked' = RemoveAt(asked, i)
  /\ UNCHANGED <<stage, instance, used, open, closing, known, isClosing, page,
                 nav, due, events, top, loaded, windowVars>>

\* Visit(): the controller's callback asks for the URL if it waits for a
\* source; get_url() without a browser throws through CEF.
Visit ==
  /\ Up /\ got # <<>>
  /\ got' = Tail(got)
  /\ \/ UNCHANGED stage
     \/ known = None /\ stage' = "down"
  /\ UNCHANGED <<instance, browsersVars, events, top, loaded, windowVars>>

-----------------------------------------------------------------------------
(* The methods the controller calls (interface.hpp). set_url() and query() *)
(* throw without a browser, and change nothing then.                       *)

Called == stage = "loop"

SetUrl ==
  /\ Called /\ known # None
  /\ \E url \in Given : nav' = [nav EXCEPT ![known] = url]
  /\ UNCHANGED <<stage, instance, used, open, closing, known, isClosing, page,
                 due, asked, flagVars, windowVars>>

\* Variant of Query: the source is asked for at once, and by the event.
QueryTwice ==
  /\ Called /\ known # None /\ Pending < MaxFetch
  /\ events' = events + 1 /\ asked' = Append(asked, known)
  /\ UNCHANGED <<stage, instance, used, open, closing, known, isClosing, page,
                 nav, due, got, top, loaded, windowVars>>

\* Another: without the scroll, which throws where there is no browser.
QueryUnscrolled ==
  /\ Called /\ Pending < MaxFetch
  /\ events' = events + 1
  /\ UNCHANGED <<stage, instance, browsersVars, got, top, loaded, windowVars>>

Query ==
  /\ Called /\ known # None /\ Pending < MaxFetch
  /\ events' = events + 1
  /\ UNCHANGED <<stage, instance, browsersVars, got, top, loaded, windowVars>>

Focus ==
  /\ Called /\ top' = TRUE
  /\ UNCHANGED <<stage, instance, browsersVars, events, got, loaded, windowVars>>

OnFinish ==
  /\ Called /\ top' = FALSE
  /\ UNCHANGED <<stage, instance, browsersVars, events, got, loaded, windowVars>>

\* Variant of Run: the size is noted only while there is a browser to resize.
RunWithBrowser ==
  /\ Called /\ xevents # <<>> /\ xevents' = <<>>
  /\ width' = IF cefwin = None THEN width ELSE Last(xevents)
  /\ size' = IF cefwin # None /\ \E i \in 1 .. Len(xevents) : xevents[i] # width
             THEN [size EXCEPT ![cefwin] = Last(xevents)] ELSE size
  /\ UNCHANGED <<stage, instance, browsersVars, flagVars, frame, cefwin, heard>>

\* run(): all events that are there. One that brings another size than the
\* last resizes the window of the browser; a window that is gone is an error
\* of X, which is logged.
Run ==
  /\ Called /\ xevents # <<>> /\ xevents' = <<>>
  /\ width' = Last(xevents)
  /\ size' = IF cefwin # None /\ \E i \in 1 .. Len(xevents) : xevents[i] # width
             THEN [size EXCEPT ![cefwin] = Last(xevents)] ELSE size
  /\ UNCHANGED <<stage, instance, browsersVars, flagVars, frame, cefwin, heard>>

\* The user, or the window manager, resizes the window.
Resize ==
  /\ Up /\ Len(xevents) < MaxXEvents
  /\ \E w \in Widths \ {frame} : frame' = w /\ xevents' = Append(xevents, w)
  /\ heard' = TRUE
  /\ UNCHANGED <<stage, instance, browsersVars, flagVars, width, cefwin, size>>

-----------------------------------------------------------------------------

Startup  == OnContextInitialized \/ BuildController
Callback ==
  \/ Create \/ PopUp \/ RunEvent \/ Capture \/ Visit
  \/ \E b \in Browsers : \/ DoClose(b) \/ OnBeforeClose(b)
                         \/ Commit(b) \/ OnLoadError(b) \/ OnLoadEnd(b)
Method   == SetUrl \/ Query \/ Focus \/ OnFinish \/ Run

ClientNext == Startup \/ Callback \/ Method \/ Resize

ClientSpec == ClientInit /\ [][ClientNext]_clientVars

-----------------------------------------------------------------------------
(* What holds.                                                             *)

TypeOK ==
  /\ stage \in {"initialize", "loop", "down"} /\ instance \in BOOLEAN
  /\ used \subseteq Browsers /\ open \subseteq used /\ closing \subseteq open
  /\ known \in Browsers \cup {None} /\ isClosing \in BOOLEAN
  /\ page \in [Browsers -> Pages] /\ nav \in [Browsers -> Values]
  /\ due \in [Browsers -> 0 .. MaxFrames]
  /\ events \in Nat /\ asked \in Seq(Browsers) /\ got \in Seq(Pages)
  /\ top \in BOOLEAN /\ loaded \in BOOLEAN
  /\ frame \in Widths /\ width \in Widths
  /\ cefwin \in Browsers \cup {None} /\ size \in [Browsers -> Widths]
  /\ xevents \in Seq(Widths) /\ heard \in BOOLEAN

\* browsers_ never holds a browser that has been destroyed: what is looked up
\* under the key can be called (:72, :94), in whatever order popups come and
\* browsers close.
KnownIsOpen == known # None => known \in open

\* Only a context that came late, or a browser that was closed, brings the
\* program down: no order of startup, queries, popups, loads and late events
\* looks up a browser before there is one (:72, :210, main.cpp:75).
DownHasCause == stage = "down" => ~instance \/ used # open

\* Whatever comes first, the browser, the resize or the event that tells of
\* it: when run() has read the events, the window of the last browser has the
\* size of the frame (window.hpp:67, :93). Only before the first event after
\* the constructor may the frame have another size than width_.
WindowFollows ==
  xevents = <<>> =>
    /\ heard => width = frame
    /\ cefwin # None => size[cefwin] = width

\* handler.cpp implements Browser, the one browser its caller sees.
Seen == INSTANCE Browser WITH
  there  <- IF known # None THEN "yes" ELSE IF used = {} THEN "soon"
            ELSE "gone",
  page   <- IF known = None THEN NoUrl ELSE page[known],
  nav    <- IF known = None THEN NoUrl ELSE nav[known],
  ends   <- IF known = None THEN 0 ELSE due[known],
  fetch  <- events + Len(asked)

ImplementsBrowser == Seen!BrowserSpec

=============================================================================
