---------------------------- MODULE ClientProofs ----------------------------
(***************************************************************************)
(* KCEFClient and its window, for any browsers, pages and sizes: what is   *)
(* in the map can be called, the window follows, and a caller sees the one *)
(* browser that the controller's model assumes.                            *)
(***************************************************************************)
EXTENDS Client, TLAPS

LEMMA UrlTypes == /\ Home \in Urls /\ NoUrl \in Pages /\ ErrorPage \in Pages
                  /\ Urls \subseteq Pages /\ Pages \subseteq Values
  BY UrlAssumption DEF Urls, Pages, Values

LEMMA RemoveType ==
  ASSUME NEW S, NEW s \in Seq(S), NEW i \in 1 .. Len(s)
  PROVE  RemoveAt(s, i) \in Seq(S) /\ Len(RemoveAt(s, i)) = Len(s) - 1
<1> DEFINE t == SubSeq(s, 1, i - 1)
           u == SubSeq(s, i + 1, Len(s))
<1>1. /\ t \in Seq(S) /\ Len(t) = i - 1
      /\ u \in Seq(S) /\ Len(u) = Len(s) - i
  OBVIOUS
<1>2. RemoveAt(s, i) = t \o u
  BY DEF RemoveAt
<1> HIDE DEF t, u
<1>3. t \o u \in Seq(S) /\ Len(t \o u) = Len(t) + Len(u)
  BY <1>1
<1>4. QED  BY <1>1, <1>2, <1>3

LEMMA TailType ==
  ASSUME NEW S, NEW s \in Seq(S), s # <<>>
  PROVE  Head(s) \in S /\ Tail(s) \in Seq(S) /\ s[Len(s)] \in S
  OBVIOUS

LEMMA AppendType ==
  ASSUME NEW S, NEW s \in Seq(S), NEW e \in S
  PROVE  /\ Append(s, e) \in Seq(S) /\ Append(s, e) # <<>>
         /\ Len(Append(s, e)) = Len(s) + 1 /\ Last(Append(s, e)) = e
  BY DEF Last

-----------------------------------------------------------------------------
(* Types.                                                                  *)

\* The types in parts, for the frames of the actions; the flags by themselves,
\* for the provers.
BoolsOK ==
  /\ instance \in BOOLEAN /\ isClosing \in BOOLEAN
  /\ top \in BOOLEAN /\ loaded \in BOOLEAN /\ heard \in BOOLEAN

SetsOK ==
  /\ stage \in {"initialize", "loop", "down"}
  /\ used \subseteq Browsers /\ open \subseteq used /\ closing \subseteq open
  /\ known \in Browsers \cup {None}

PagesOK ==
  /\ page \in [Browsers -> Pages] /\ nav \in [Browsers -> Values]
  /\ due \in [Browsers -> 0 .. MaxFrames]

SourcesOK == events \in Nat /\ asked \in Seq(Browsers) /\ got \in Seq(Pages)

WindowOK ==
  /\ frame \in Widths /\ width \in Widths
  /\ cefwin \in Browsers \cup {None} /\ size \in [Browsers -> Widths]
  /\ xevents \in Seq(Widths)

LEMMA PartsType ==
  /\ TypeOK => BoolsOK /\ SetsOK /\ PagesOK /\ SourcesOK /\ WindowOK
  /\ BoolsOK' /\ SetsOK' /\ PagesOK' /\ SourcesOK' /\ WindowOK' => TypeOK'
<1>1. TypeOK => BoolsOK /\ SetsOK /\ PagesOK /\ SourcesOK /\ WindowOK
  BY Zenon DEF TypeOK, BoolsOK, SetsOK, PagesOK, SourcesOK, WindowOK
<1>2. BoolsOK' /\ SetsOK' /\ PagesOK' /\ SourcesOK' /\ WindowOK' => TypeOK'
  BY Zenon DEF TypeOK, BoolsOK, SetsOK, PagesOK, SourcesOK, WindowOK
<1>3. QED  BY <1>1, <1>2

LEMMA InitType == ClientInit => TypeOK
<1> SUFFICES ASSUME ClientInit PROVE TypeOK
  OBVIOUS
<1>1. BoolsOK
  BY Zenon DEF ClientInit, BoolsOK
<1>2. SetsOK /\ PagesOK
  BY UrlTypes, ClientAssumption DEF ClientInit, SetsOK, PagesOK
<1>3. SourcesOK /\ WindowOK
  BY ClientAssumption DEF ClientInit, SourcesOK, WindowOK
<1>4. QED
  BY <1>1, <1>2, <1>3, Zenon
  DEF TypeOK, BoolsOK, SetsOK, PagesOK, SourcesOK, WindowOK

LEMMA BoolsType ==
  ASSUME BoolsOK, [ClientNext]_clientVars
  PROVE  BoolsOK'
<1> USE DEF BoolsOK
<1>1. CASE Startup
  BY <1>1, Zenon
  DEF Startup, OnContextInitialized, BuildController, browsersVars, flagVars,
      windowVars
<1>2. CASE Method \/ Resize
  BY <1>2, Zenon
  DEF Method, SetUrl, Query, Focus, OnFinish, Run, Resize, browsersVars,
      flagVars, windowVars
<1>3. CASE Create \/ PopUp
  BY <1>3, Zenon DEF Create, PopUp, OnAfterCreated, flagVars
<1>4. CASE RunEvent \/ Capture \/ Visit
  BY <1>4, Zenon DEF RunEvent, Capture, Visit, browsersVars, windowVars
<1>5. ASSUME NEW b \in Browsers, DoClose(b) \/ OnBeforeClose(b)
      PROVE  BoolsOK'
  BY <1>5, Zenon DEF DoClose, OnBeforeClose, flagVars, windowVars
<1>6. ASSUME NEW b \in Browsers, Commit(b) \/ OnLoadError(b) \/ OnLoadEnd(b)
      PROVE  BoolsOK'
  BY <1>6, Zenon DEF Commit, OnLoadError, OnLoadEnd, flagVars, windowVars
<1>7. CASE UNCHANGED clientVars
  BY <1>7, Zenon DEF clientVars, browsersVars, flagVars, windowVars
<1>8. QED
  BY <1>1, <1>2, <1>3, <1>4, <1>5, <1>6, <1>7, Zenon DEF ClientNext, Callback

LEMMA SetsType ==
  ASSUME SetsOK, [ClientNext]_clientVars
  PROVE  SetsOK'
<1> USE DEF SetsOK
<1>1. CASE Startup \/ Method \/ Resize \/ UNCHANGED clientVars
  BY <1>1
  DEF Startup, OnContextInitialized, BuildController, Method, SetUrl, Query,
      Focus, OnFinish, Run, Resize, browsersVars, clientVars
<1>2. CASE Create \/ PopUp
  <2>1. PICK b \in Browsers, url \in Urls : OnAfterCreated(b, url)
    BY <1>2, UrlTypes DEF Create, PopUp
  <2>2. QED  BY <2>1 DEF OnAfterCreated
<1>3. CASE RunEvent \/ Capture \/ Visit
  BY <1>3 DEF RunEvent, Capture, Visit, browsersVars
<1>4. ASSUME NEW b \in Browsers, DoClose(b) \/ OnBeforeClose(b)
      PROVE  SetsOK'
  BY <1>4 DEF DoClose, OnBeforeClose
<1>5. ASSUME NEW b \in Browsers, Commit(b) \/ OnLoadError(b) \/ OnLoadEnd(b)
      PROVE  SetsOK'
  BY <1>5 DEF Commit, OnLoadError, OnLoadEnd
<1>6. QED
  BY <1>1, <1>2, <1>3, <1>4, <1>5 DEF ClientNext, Callback

LEMMA PagesType ==
  ASSUME SetsOK, PagesOK, [ClientNext]_clientVars
  PROVE  PagesOK'
<1> USE DEF PagesOK
<1>1. CASE UNCHANGED <<page, nav, due>>
  BY <1>1
<1>2. CASE Startup \/ Resize \/ UNCHANGED clientVars
  BY <1>1, <1>2
  DEF Startup, OnContextInitialized, BuildController, Resize, browsersVars,
      clientVars
<1>3. CASE Query \/ Focus \/ OnFinish \/ Run \/ RunEvent \/ Capture \/ Visit
  BY <1>1, <1>3
  DEF Query, Focus, OnFinish, Run, RunEvent, Capture, Visit, browsersVars
<1>4. CASE SetUrl
  BY <1>4, ClientAssumption DEF SetUrl, SetsOK
<1>5. CASE Create \/ PopUp
  <2>1. PICK b \in Browsers, url \in Urls : OnAfterCreated(b, url)
    BY <1>5, UrlTypes DEF Create, PopUp
  <2>2. QED  BY <2>1, UrlTypes DEF OnAfterCreated
<1>6. ASSUME NEW b \in Browsers, DoClose(b)
      PROVE  PagesOK'
  BY <1>6, <1>1 DEF DoClose
<1>7. ASSUME NEW b \in Browsers, OnBeforeClose(b)
      PROVE  PagesOK'
  BY <1>7, UrlTypes, ClientAssumption DEF OnBeforeClose
<1>8. ASSUME NEW b \in Browsers, Commit(b) \/ OnLoadError(b) \/ OnLoadEnd(b)
      PROVE  PagesOK'
  BY <1>8, UrlTypes, ClientAssumption DEF Commit, OnLoadError, OnLoadEnd
<1>9. QED
  BY <1>2, <1>3, <1>4, <1>5, <1>6, <1>7, <1>8 DEF ClientNext, Callback, Method

\* What a step does to the GetSource requests and the sources: one renderer
\* serves one request, or a request moves on or is added, or all is as it was.
LEMMA SourcesType ==
  ASSUME SetsOK, PagesOK, SourcesOK, [ClientNext]_clientVars
  PROVE  SourcesOK'
<1> USE DEF SourcesOK
<1>1. CASE UNCHANGED <<events, asked, got>>
  BY <1>1
<1>2. CASE Startup \/ Resize \/ UNCHANGED clientVars
  BY <1>1, <1>2
  DEF Startup, OnContextInitialized, BuildController, Resize, browsersVars,
      flagVars, clientVars
<1>3. CASE SetUrl \/ Focus \/ OnFinish \/ Run
  BY <1>1, <1>3 DEF SetUrl, Focus, OnFinish, Run, browsersVars, flagVars
<1>4. CASE Query
  BY <1>4 DEF Query, browsersVars
<1>5. CASE Create \/ PopUp
  BY <1>1, <1>5, UrlTypes DEF Create, PopUp, OnAfterCreated, flagVars
<1>6. ASSUME NEW b \in Browsers,
             DoClose(b) \/ OnBeforeClose(b) \/ Commit(b) \/ OnLoadError(b)
      PROVE  SourcesOK'
  BY <1>1, <1>6 DEF DoClose, OnBeforeClose, Commit, OnLoadError, flagVars
<1>7. ASSUME NEW b \in Browsers, OnLoadEnd(b)
      PROVE  SourcesOK'
  BY <1>7 DEF OnLoadEnd
<1>8. CASE RunEvent
  BY <1>8, AppendType DEF RunEvent, SetsOK
<1>9. CASE Capture
  <2>1. PICK i \in 1 .. Len(asked) :
          /\ got' = IF asked[i] \in open THEN Append(got, page[asked[i]])
                    ELSE got
          /\ asked' = RemoveAt(asked, i)
    BY <1>9 DEF Capture
  <2>2. page[asked[i]] \in Pages
    BY DEF PagesOK
  <2>3. got' \in Seq(Pages)
    BY <2>1, <2>2, AppendType
  <2>4. asked' \in Seq(Browsers)
    BY <2>1, RemoveType
  <2>5. QED  BY <1>9, <2>3, <2>4 DEF Capture
<1>10. CASE Visit
  BY <1>10, TailType DEF Visit, browsersVars
<1>11. QED
  BY <1>2, <1>3, <1>4, <1>5, <1>6, <1>7, <1>8, <1>9, <1>10
  DEF ClientNext, Callback, Method

LEMMA WindowType ==
  ASSUME SetsOK, WindowOK, [ClientNext]_clientVars
  PROVE  WindowOK'
<1> USE DEF WindowOK
<1>1. CASE UNCHANGED windowVars
  BY <1>1 DEF windowVars
<1>2. CASE BuildController \/ SetUrl \/ Query \/ Focus \/ OnFinish
           \/ RunEvent \/ Capture \/ Visit \/ UNCHANGED clientVars
  BY <1>1, <1>2
  DEF BuildController, SetUrl, Query, Focus, OnFinish, RunEvent, Capture, Visit,
      clientVars
<1>3. ASSUME NEW b \in Browsers,
             \/ DoClose(b) \/ OnBeforeClose(b)
             \/ Commit(b) \/ OnLoadError(b) \/ OnLoadEnd(b)
      PROVE  WindowOK'
  BY <1>1, <1>3 DEF DoClose, OnBeforeClose, Commit, OnLoadError, OnLoadEnd
<1>4. CASE OnContextInitialized
  BY <1>4 DEF OnContextInitialized
<1>5. CASE Create \/ PopUp
  <2>1. PICK b \in Browsers, url \in Urls : OnAfterCreated(b, url)
    BY <1>5, UrlTypes DEF Create, PopUp
  <2>2. QED  BY <2>1 DEF OnAfterCreated
<1>6. CASE Run
  <2>1. Last(xevents) \in Widths
    BY <1>6, TailType DEF Run, Last
  <2>2. QED  BY <1>6, <2>1 DEF Run
<1>7. CASE Resize
  BY <1>7, AppendType DEF Resize
<1>8. QED
  BY <1>2, <1>3, <1>4, <1>5, <1>6, <1>7
  DEF ClientNext, Callback, Method, Startup

\* TypeOK, for any browsers, pages, sizes and bounds.
THEOREM ClientTypeCorrect == ClientSpec => []TypeOK
<1>1. TypeOK /\ [ClientNext]_clientVars => TypeOK'
  BY PartsType, BoolsType, SetsType, PagesType, SourcesType, WindowType
<1>2. QED  BY InitType, <1>1, PTL DEF ClientSpec


-----------------------------------------------------------------------------
(* The map and the window.                                                 *)

\* KnownIsOpen, whatever is created and closed.
LEMMA KnownStep ==
  ASSUME SetsOK, KnownIsOpen, [ClientNext]_clientVars
  PROVE  KnownIsOpen'
<1> USE DEF KnownIsOpen
<1>1. CASE UNCHANGED <<open, known>>
  BY <1>1
<1>2. CASE Startup \/ Method \/ Resize \/ UNCHANGED clientVars
  BY <1>1, <1>2
  DEF Startup, OnContextInitialized, BuildController, Method, SetUrl, Query,
      Focus, OnFinish, Run, Resize, browsersVars, clientVars
<1>3. CASE Create \/ PopUp
  BY <1>3, UrlTypes DEF Create, PopUp, OnAfterCreated
<1>4. CASE RunEvent \/ Capture \/ Visit
  BY <1>1, <1>4 DEF RunEvent, Capture, Visit, browsersVars
<1>5. ASSUME NEW b \in Browsers, OnBeforeClose(b)
      PROVE  KnownIsOpen'
  BY <1>5 DEF OnBeforeClose
<1>6. ASSUME NEW b \in Browsers,
             DoClose(b) \/ Commit(b) \/ OnLoadError(b) \/ OnLoadEnd(b)
      PROVE  KnownIsOpen'
  BY <1>1, <1>6 DEF DoClose, Commit, OnLoadError, OnLoadEnd
<1>7. QED
  BY <1>2, <1>3, <1>4, <1>5, <1>6 DEF ClientNext, Callback

LEMMA TypeStep ==
  ASSUME TypeOK, [ClientNext]_clientVars
  PROVE  TypeOK'
  BY PartsType, BoolsType, SetsType, PagesType, SourcesType, WindowType

\* KnownIsOpen, for any browsers: what the map holds has not been destroyed.
THEOREM KnownStaysOpen == ClientSpec => []KnownIsOpen
<1>1. ClientInit => KnownIsOpen
  BY DEF ClientInit, KnownIsOpen
<1>2. TypeOK /\ KnownIsOpen /\ [ClientNext]_clientVars
        => TypeOK' /\ KnownIsOpen'
  BY TypeStep, KnownStep, PartsType
<1>3. QED  BY InitType, <1>1, <1>2, PTL DEF ClientSpec

\* Why the window follows: the last event unread has the size of the frame;
\* without one width_ has it, once an event has come; the window of the browser
\* has the size width_ tells.
WindowInv ==
  /\ xevents # <<>> => Last(xevents) = frame
  /\ xevents = <<>> /\ heard => width = frame
  /\ ~instance => ~heard /\ xevents = <<>>
  /\ cefwin # None => size[cefwin] = width

LEMMA WindowInvStep ==
  ASSUME TypeOK, WindowInv, [ClientNext]_clientVars
  PROVE  WindowInv'
<1>0. WindowOK
  BY PartsType
<1> USE DEF WindowInv, WindowOK
<1>1. CASE UNCHANGED <<instance, windowVars>>
  BY <1>1 DEF windowVars
<1>2. CASE BuildController \/ SetUrl \/ Query \/ Focus \/ OnFinish
           \/ RunEvent \/ Capture \/ Visit \/ UNCHANGED clientVars
  BY <1>1, <1>2
  DEF BuildController, SetUrl, Query, Focus, OnFinish, RunEvent, Capture, Visit,
      clientVars
<1>3. ASSUME NEW b \in Browsers,
             \/ DoClose(b) \/ OnBeforeClose(b)
             \/ Commit(b) \/ OnLoadError(b) \/ OnLoadEnd(b)
      PROVE  WindowInv'
  BY <1>1, <1>3 DEF DoClose, OnBeforeClose, Commit, OnLoadError, OnLoadEnd
<1>4. CASE OnContextInitialized
  BY <1>4 DEF OnContextInitialized
<1>5. CASE Create \/ PopUp
  <2>1. PICK b \in Browsers, url \in Urls : OnAfterCreated(b, url)
    BY <1>5, UrlTypes DEF Create, PopUp
  <2>2. QED  BY <1>0, <2>1 DEF OnAfterCreated
<1>6. CASE Run
  <2>1. Last(xevents) \in Widths /\ width' = frame /\ xevents' = <<>>
    BY <1>0, <1>6, TailType DEF Run, Last
  <2>2. ASSUME cefwin # None
        PROVE  size'[cefwin] = width'
    <3>1. CASE \E i \in 1 .. Len(xevents) : xevents[i] # width
      BY <1>0, <1>6, <2>2, <3>1 DEF Run
    <3>2. CASE \A i \in 1 .. Len(xevents) : xevents[i] = width
      <4>1. Last(xevents) = width
        BY <1>0, <1>6, <3>2 DEF Run, Last
      <4>2. QED  BY <1>6, <2>2, <3>2, <4>1 DEF Run
    <3>3. QED  BY <3>1, <3>2
  <2>3. instance' = instance /\ heard' = heard /\ frame' = frame
        /\ cefwin' = cefwin
    BY <1>6 DEF Run
  <2>4. QED  BY <1>6, <2>1, <2>2, <2>3 DEF Run
<1>7. CASE Resize
  <2>1. PICK w \in Widths : frame' = w /\ xevents' = Append(xevents, w)
    BY <1>7 DEF Resize
  <2>2. xevents' # <<>> /\ Last(xevents') = frame'
    BY <1>0, <2>1, AppendType
  <2>3. QED  BY <1>7, <2>2 DEF Resize, Up
<1>8. QED
  BY <1>2, <1>3, <1>4, <1>5, <1>6, <1>7
  DEF ClientNext, Callback, Method, Startup

\* WindowFollows, for any browsers, sizes and number of unread events.
THEOREM WindowStaysRight == ClientSpec => []WindowFollows
<1>1. ClientInit => WindowInv
  BY DEF ClientInit, WindowInv
<1>2. TypeOK /\ WindowInv /\ [ClientNext]_clientVars => TypeOK' /\ WindowInv'
  BY TypeStep, WindowInvStep
<1>3. WindowInv => WindowFollows
  BY DEF WindowInv, WindowFollows
<1>4. QED  BY InitType, <1>1, <1>2, <1>3, PTL DEF ClientSpec


-----------------------------------------------------------------------------
(* Client implements Browser.                                              *)

\* What the refinement rests on. A browser not yet created has nothing to show
\* of it; requests are made of created ones; and without popups and closing
\* the one browser created is the one in the map.
SeenInv ==
  /\ KnownIsOpen
  /\ \A b \in Browsers \ used : page[b] = NoUrl /\ nav[b] = NoUrl /\ due[b] = 0
  /\ asked \in Seq(used)
  /\ ~Popups => closing = {} /\ \A b \in used : b = known

LEMMA SeqWidens ==
  ASSUME NEW S, NEW T, S \subseteq T, NEW s \in Seq(S)
  PROVE  s \in Seq(T)
  OBVIOUS

LEMMA SeenInvStep ==
  ASSUME TypeOK, SeenInv, [ClientNext]_clientVars
  PROVE  SeenInv'
<1>0. SetsOK /\ PagesOK /\ KnownIsOpen'
  BY PartsType, KnownStep DEF SeenInv
<1> USE <1>0 DEF SeenInv, SetsOK, PagesOK
<1>1. CASE UNCHANGED browsersVars
  BY <1>1 DEF browsersVars
<1>2. CASE Startup \/ Visit \/ Query \/ Focus \/ OnFinish \/ Run \/ Resize
           \/ UNCHANGED clientVars
  BY <1>1, <1>2
  DEF Startup, OnContextInitialized, BuildController, Visit, Query, Focus,
      OnFinish, Run, Resize, clientVars
<1>3. CASE Create \/ PopUp
  <2>1. PICK b \in Browsers, url \in Urls : OnAfterCreated(b, url)
    BY <1>3, UrlTypes DEF Create, PopUp
  <2>2. asked' \in Seq(used')
    BY <2>1, SeqWidens DEF OnAfterCreated
  <2>3. ~Popups => used' = {b} /\ known' = b
    BY <1>3, <2>1 DEF Create, PopUp, OnAfterCreated
  <2>4. \A c \in Browsers \ used' :
          page'[c] = NoUrl /\ nav'[c] = NoUrl /\ due'[c] = 0
    BY <2>1 DEF OnAfterCreated
  <2>5. QED  BY <2>1, <2>2, <2>3, <2>4 DEF OnAfterCreated
<1>4. CASE RunEvent
  <2>1. known # None => known \in used
    BY DEF KnownIsOpen
  <2>2. asked' \in Seq(used)
    <3>1. UNCHANGED asked \/ (known \in used /\ asked' = Append(asked, known))
      BY <1>4, <2>1 DEF RunEvent
    <3>2. CASE known \in used /\ asked' = Append(asked, known)
      <4>1. asked \in Seq(used)
        OBVIOUS
      <4>2. Append(asked, known) \in Seq(used)
        BY <3>2, <4>1, AppendType
      <4>3. QED  BY <3>2, <4>2
    <3>3. QED  BY <3>1, <3>2
  <2>3. QED  BY <1>4, <2>2 DEF RunEvent
<1>5. CASE Capture
  <2>1. PICK i \in 1 .. Len(asked) : asked' = RemoveAt(asked, i)
    BY <1>5 DEF Capture
  <2>2. asked' \in Seq(used)
    BY <2>1, RemoveType
  <2>3. QED  BY <1>5, <2>2 DEF Capture
<1>6. ASSUME NEW b \in Browsers, DoClose(b)
      PROVE  SeenInv'
  BY <1>6 DEF DoClose
<1>7. ASSUME NEW b \in Browsers, OnBeforeClose(b)
      PROVE  SeenInv'
  BY <1>7 DEF OnBeforeClose
<1>8. ASSUME NEW b \in Browsers, Commit(b) \/ OnLoadError(b)
      PROVE  SeenInv'
  BY <1>8 DEF Commit, OnLoadError
<1>9. ASSUME NEW b \in Browsers, OnLoadEnd(b)
      PROVE  SeenInv'
  BY <1>9 DEF OnLoadEnd
<1>10. CASE SetUrl
  BY <1>10 DEF SetUrl, KnownIsOpen
<1>11. QED
  BY <1>2, <1>3, <1>4, <1>5, <1>6, <1>7, <1>8, <1>9, <1>10
  DEF ClientNext, Callback, Method

LEMMA SeenInvariant == ClientSpec => [](TypeOK /\ SeenInv)
<1>1. ClientInit => SeenInv
  BY DEF ClientInit, SeenInv, KnownIsOpen
<1>2. TypeOK /\ SeenInv /\ [ClientNext]_clientVars => TypeOK' /\ SeenInv'
  BY TypeStep, SeenInvStep
<1>3. QED  BY InitType, <1>1, <1>2, PTL DEF ClientSpec

LEMMA LenTypes ==
  ASSUME SourcesOK
  PROVE  events \in Nat /\ Len(asked) \in Nat /\ Len(got) \in Nat
  BY DEF SourcesOK

\* The data is the same in both.
LEMMA SeenData ==
  /\ Seen!NoUrl = NoUrl /\ Seen!ErrorPage = ErrorPage
  /\ Seen!Urls = Urls /\ Seen!Pages = Pages
  /\ Values = Seen!Values
<1>1. Seen!NoUrl = NoUrl
  BY Zenon DEF NoUrl, Seen!NoUrl
<1>2. Seen!ErrorPage = ErrorPage
  BY Zenon DEF ErrorPage, Seen!ErrorPage
<1>3. Seen!Urls = Urls
  BY Zenon DEF Urls, Seen!Urls
<1>4. Seen!Pages = Pages
  BY <1>1, <1>2, <1>3, Zenon DEF Pages, Seen!Pages
<1>5. Values = Seen!Values
  BY <1>4, Zenon DEF Values, Seen!Values, Commands, Seen!Commands
<1>6. QED  BY <1>1, <1>2, <1>3, <1>4, <1>5

LEMMA InitSeen == ClientInit => Seen!BrowserInit
  BY SeenData DEF ClientInit, Seen!BrowserInit

\* Steps that concern the browser in the map, or that is about to be.
LEMMA NewSeen ==
  ASSUME TypeOK, SeenInv, Create \/ PopUp
  PROVE  Seen!BrowserNext
<1>0. SetsOK /\ PagesOK /\ SourcesOK
  BY PartsType
<1>1. PICK b \in Browsers, url \in Urls :
        OnAfterCreated(b, url) /\ (Create => url = Home)
  BY UrlTypes DEF Create, PopUp
<1>2. /\ b \in Browsers \ used /\ used' # {} /\ known' = b /\ b # None
      /\ page'[b] = NoUrl /\ nav'[b] = url /\ due'[b] = 0
      /\ UNCHANGED <<events, asked, got, top, loaded>>
  BY <1>0, <1>1, ClientAssumption
  DEF SetsOK, PagesOK, OnAfterCreated, SeenInv, flagVars
<1>3. CASE Create
  <2>1. known = None /\ used = {}
    BY <1>0, <1>3 DEF Create, SetsOK, SeenInv, KnownIsOpen
  <2>2. Seen!Create
    BY <1>1, <1>2, <1>3, <2>1, SeenData DEF Seen!Create
  <2>3. QED  BY <2>2 DEF Seen!BrowserNext, Seen!Pump
<1>4. CASE PopUp
  <2>1. Popups /\ used # {}
    BY <1>0, <1>4 DEF PopUp, SetsOK
  <2>2. events + Len(asked) \in 0 .. events + Len(asked)
    BY <1>0, LenTypes
  <2>3. Seen!Replaced
    BY <1>2, <2>1, <2>2, SeenData DEF Seen!Replaced
  <2>4. QED  BY <2>3 DEF Seen!BrowserNext, Seen!Pump
<1>5. QED  BY <1>3, <1>4

LEMMA CloseSeen ==
  ASSUME TypeOK, SeenInv, NEW b \in Browsers, OnBeforeClose(b)
  PROVE  Seen!BrowserNext \/ UNCHANGED Seen!browserVars
<1>0. SetsOK /\ PagesOK /\ SourcesOK
  BY PartsType
<1>1. Popups /\ used # {} /\ used' = used
      /\ UNCHANGED <<events, asked, got, top, loaded>>
  BY <1>0 DEF SetsOK, SeenInv, OnBeforeClose, flagVars
<1>2. CASE known = b
  <2>1. known' = None
    BY <1>2 DEF OnBeforeClose
  <2>2. events + Len(asked) \in 0 .. events + Len(asked)
    BY <1>0, LenTypes
  <2>3. Seen!Replaced
    BY <1>1, <1>2, <2>1, <2>2, SeenData DEF Seen!Replaced
  <2>4. QED  BY <2>3 DEF Seen!BrowserNext, Seen!Pump
<1>3. CASE known # b
  <2>1. known' = known /\ (known # None => /\ page'[known] = page[known]
                                           /\ nav'[known] = nav[known]
                                           /\ due'[known] = due[known])
    BY <1>0, <1>3 DEF OnBeforeClose, SetsOK, PagesOK
  <2>2. UNCHANGED Seen!browserVars
    BY <1>1, <2>1 DEF Seen!browserVars
  <2>3. QED  BY <2>2
<1>4. QED  BY <1>2, <1>3


\* Pages of the browser in the map, and of others, which exist with popups only.
LEMMA PageSeen ==
  ASSUME TypeOK, SeenInv, NEW b \in Browsers,
         Commit(b) \/ OnLoadError(b) \/ OnLoadEnd(b)
  PROVE  Seen!BrowserNext \/ UNCHANGED Seen!browserVars
<1>0. /\ SetsOK /\ PagesOK /\ SourcesOK
      /\ events \in Nat /\ Len(asked) \in Nat /\ Len(got) \in Nat
      /\ b # None
  BY PartsType, LenTypes, ClientAssumption
<1>1. UNCHANGED <<known, used, asked, got, top>>
  BY DEF Commit, OnLoadError, OnLoadEnd, flagVars
<1>2. CASE known = b
  <2>1. CASE Commit(b)
    <3>1. Seen!Commit
      BY <1>0, <1>1, <1>2, <2>1, SeenData
      DEF Commit, Seen!Commit, PagesOK, flagVars
    <3>2. QED  BY <3>1 DEF Seen!BrowserNext, Seen!Pump
  <2>2. CASE OnLoadError(b)
    <3>1. Seen!LoadFails
      BY <1>0, <1>1, <1>2, <2>2, SeenData
      DEF OnLoadError, Seen!LoadFails, PagesOK, flagVars
    <3>2. QED  BY <3>1 DEF Seen!BrowserNext, Seen!Pump
  <2>3. CASE OnLoadEnd(b)
    <3>1. Seen!OnLoadEnd
      BY <1>0, <1>1, <1>2, <2>3
      DEF OnLoadEnd, Seen!OnLoadEnd, PagesOK, Pending
    <3>2. QED  BY <3>1 DEF Seen!BrowserNext, Seen!Pump
  <2>4. QED  BY <2>1, <2>2, <2>3
<1>3. CASE known # b
  <2>1. known # None => /\ page'[known] = page[known]
                        /\ nav'[known] = nav[known] /\ due'[known] = due[known]
    BY <1>0, <1>3 DEF Commit, OnLoadError, OnLoadEnd, SetsOK, PagesOK
  <2>2. CASE Commit(b) \/ OnLoadError(b)
    <3>1. UNCHANGED Seen!browserVars
      BY <1>1, <2>1, <2>2 DEF Commit, OnLoadError, flagVars, Seen!browserVars
    <3>2. QED  BY <3>1
  <2>3. CASE OnLoadEnd(b)
    <3>1. Popups
      BY <1>0, <1>3, <2>3 DEF OnLoadEnd, SeenInv
    <3>2. \/ events' + Len(asked') \in 0 .. events + Len(asked)
          \/ /\ events + Len(asked) + Len(got) < MaxFetch
             /\ events' + Len(asked') = events + Len(asked) + 1
      BY <1>0, <1>1, <2>3 DEF OnLoadEnd, Pending
    <3>3. Seen!Others
      BY <1>1, <2>1, <2>3, <3>1, <3>2 DEF OnLoadEnd, Seen!Others
    <3>4. QED  BY <3>3 DEF Seen!BrowserNext, Seen!Pump
  <2>4. QED  BY <2>2, <2>3
<1>4. QED  BY <1>2, <1>3

\* A source that is delivered, or will not be, as its browser is gone.
LEMMA CaptureSeen ==
  ASSUME TypeOK, SeenInv, Capture
  PROVE  Seen!BrowserNext
<1>0. /\ SetsOK /\ PagesOK /\ SourcesOK
      /\ events \in Nat /\ Len(asked) \in Nat /\ Len(got) \in Nat
  BY PartsType, LenTypes
<1>1. PICK i \in 1 .. Len(asked) :
        /\ got' = IF asked[i] \in open THEN Append(got, page[asked[i]]) ELSE got
        /\ asked' = RemoveAt(asked, i)
  BY DEF Capture
<1>2. asked[i] \in used /\ asked[i] \in Browsers /\ page[asked[i]] \in Pages
  BY <1>0 DEF SeenInv, SetsOK, PagesOK
<1>3. Len(asked') = Len(asked) - 1 /\ Len(asked) > 0
  BY <1>0, <1>1, RemoveType DEF SourcesOK
<1>4. /\ UNCHANGED <<used, known, page, nav, due, events, top, loaded>>
      /\ events' + Len(asked') = events + Len(asked) - 1
  BY <1>0, <1>3 DEF Capture
<1>5. CASE asked[i] \in open
  <2>1. ~Popups => asked[i] = known /\ known # None
    BY <1>2, ClientAssumption DEF SeenInv
  <2>2. Seen!Capture
    BY <1>0, <1>1, <1>2, <1>3, <1>4, <1>5, <2>1, SeenData DEF Seen!Capture
  <2>3. QED  BY <2>2 DEF Seen!BrowserNext, Seen!Pump
<1>6. CASE asked[i] \notin open
  <2>1. Popups
    BY <1>2, <1>6, ClientAssumption DEF SeenInv, KnownIsOpen
  <2>2. events' + Len(asked') \in 0 .. events + Len(asked)
    BY <1>0, <1>3, <1>4
  <2>3. Seen!Others
    BY <1>1, <1>4, <1>6, <2>1, <2>2 DEF Seen!Others
  <2>4. QED  BY <2>3 DEF Seen!BrowserNext, Seen!Pump
<1>7. QED  BY <1>5, <1>6

\* The methods.
LEMMA MethodSeen ==
  ASSUME TypeOK, SeenInv, Method
  PROVE  Seen!BrowserNext \/ UNCHANGED Seen!browserVars
<1>0. /\ SetsOK /\ PagesOK /\ SourcesOK
      /\ events \in Nat /\ Len(asked) \in Nat
  BY PartsType, LenTypes
<1>1. CASE SetUrl
  <2>1. PICK url \in Given : nav' = [nav EXCEPT ![known] = url]
    BY <1>1 DEF SetUrl
  <2>2. known # None /\ nav'[known] = url /\ url \in Seen!Values
    BY <1>0, <1>1, <2>1, SeenData, ClientAssumption
    DEF SetUrl, SetsOK, PagesOK
  <2>3. Seen!Called
    BY <1>1, <2>2 DEF SetUrl, flagVars, Seen!Called, Seen!SetUrl
  <2>4. QED  BY <2>3 DEF Seen!BrowserNext
<1>2. CASE Query
  <2>1. Seen!Called
    BY <1>0, <1>2 DEF Query, browsersVars, Seen!Called, Seen!Query
  <2>2. QED  BY <2>1 DEF Seen!BrowserNext
<1>3. CASE Focus \/ OnFinish
  <2>1. Seen!Called
    BY <1>3 DEF Focus, OnFinish, browsersVars, Seen!Called, Seen!Focus,
                Seen!OnFinish
  <2>2. QED  BY <2>1 DEF Seen!BrowserNext
<1>4. CASE Run
  BY <1>4 DEF Run, browsersVars, flagVars, Seen!browserVars
<1>5. QED  BY <1>1, <1>2, <1>3, <1>4 DEF Method

LEMMA StepSeen ==
  ASSUME TypeOK, SeenInv, [ClientNext]_clientVars
  PROVE  [Seen!BrowserNext]_Seen!browserVars
<1>0. /\ SetsOK /\ PagesOK /\ SourcesOK
      /\ events \in Nat /\ Len(asked) \in Nat /\ Len(got) \in Nat
  BY PartsType, LenTypes
<1>1. CASE Startup \/ Resize \/ UNCHANGED clientVars
  BY <1>1
  DEF Startup, OnContextInitialized, BuildController, Resize, browsersVars,
      flagVars, clientVars, Seen!browserVars
<1>2. CASE RunEvent
  <2>1. events' + Len(asked') = events + Len(asked)
    BY <1>0, <1>2 DEF RunEvent, SourcesOK
  <2>2. QED  BY <1>2, <2>1 DEF RunEvent, Seen!browserVars
<1>3. CASE Visit
  <2>1. Head(got) \in Pages
    BY <1>0, <1>3, TailType DEF Visit, SourcesOK
  <2>2. Seen!Visit(Head(got))
    BY <1>3 DEF Visit, browsersVars, Seen!Visit
  <2>3. QED  BY <2>1, <2>2, SeenData DEF Seen!BrowserNext
<1>4. ASSUME NEW b \in Browsers, DoClose(b)
      PROVE  UNCHANGED Seen!browserVars
  BY <1>4 DEF DoClose, flagVars, Seen!browserVars
<1>5. QED
  BY <1>1, <1>2, <1>3, <1>4, NewSeen, CloseSeen, PageSeen, CaptureSeen,
     MethodSeen
  DEF ClientNext, Callback

\* ImplementsBrowser, for any browsers and pages, with popups and without: what
\* the controller is told of its browser is what Browser lets it be told.
THEOREM ClientImplementsBrowser == ClientSpec => ImplementsBrowser
<1>1. TypeOK /\ SeenInv /\ [ClientNext]_clientVars
        => [Seen!BrowserNext]_Seen!browserVars
  BY StepSeen
<1>2. QED
  BY InitSeen, <1>1, SeenInvariant, PTL
  DEF ClientSpec, ImplementsBrowser, Seen!BrowserSpec

-----------------------------------------------------------------------------
(* What brings the program down.                                           *)

\* The map is empty only before the first browser and after one was closed;
\* and whatever may be looked up for, events and sources, comes after the
\* first.
CauseInv ==
  /\ DownHasCause
  /\ known = None => used = {} \/ used # open
  /\ events > 0 \/ got # <<>> => used # {}

LEMMA CauseInvStep ==
  ASSUME TypeOK, SeenInv, CauseInv, [ClientNext]_clientVars
  PROVE  CauseInv'
<1>0. /\ SetsOK /\ PagesOK /\ SourcesOK /\ KnownIsOpen
      /\ events \in Nat /\ Len(asked) \in Nat
  BY PartsType, LenTypes DEF SeenInv
<1> USE DEF CauseInv, DownHasCause
<1>1. CASE OnContextInitialized \/ BuildController
  BY <1>1
  DEF OnContextInitialized, BuildController, browsersVars, flagVars
<1>2. CASE Focus \/ OnFinish \/ Run \/ Resize \/ UNCHANGED clientVars
  BY <1>2
  DEF Focus, OnFinish, Run, Resize, clientVars, browsersVars, flagVars
<1>3. CASE SetUrl
  BY <1>3 DEF SetUrl, flagVars
<1>4. CASE Query
  <2>1. used # {}
    BY <1>0, <1>4 DEF Query, KnownIsOpen, SetsOK
  <2>2. QED  BY <1>4, <2>1 DEF Query, browsersVars
<1>5. CASE Create \/ PopUp
  <2>1. PICK b \in Browsers, url \in Urls : OnAfterCreated(b, url)
    BY <1>5, UrlTypes DEF Create, PopUp
  <2>2. /\ b \notin used /\ b # None /\ known' = b
        /\ used' = used \cup {b} /\ open' = open \cup {b}
        /\ UNCHANGED <<stage, instance>>
    BY <2>1, ClientAssumption DEF OnAfterCreated
  <2>3. ASSUME used # open
        PROVE  used' # open'
    <3>1. PICK c \in used : c \notin open
      BY <1>0, <2>3 DEF SetsOK
    <3>2. c \in used' /\ c \notin open'
      BY <2>2, <3>1
    <3>3. QED  BY <3>2
  <2>4. known' # None /\ used' # {}
    BY <2>2
  <2>5. QED  BY <2>2, <2>3, <2>4
<1>6. CASE RunEvent
  <2>1. used # {} /\ UNCHANGED <<used, open, known, instance, got>>
    BY <1>6 DEF RunEvent
  <2>2. known = None => used # open
    BY <2>1
  <2>3. known # None => UNCHANGED stage
    BY <1>6 DEF RunEvent
  <2>4. QED  BY <2>1, <2>2, <2>3
<1>7. CASE Capture
  <2>1. asked # <<>> /\ used # {}
    BY <1>7 DEF Capture, SeenInv
  <2>2. QED  BY <1>7, <2>1 DEF Capture
<1>8. CASE Visit
  <2>1. used # {} /\ UNCHANGED <<used, open, known, instance, events>>
    BY <1>8 DEF Visit, browsersVars
  <2>2. known # None => UNCHANGED stage
    BY <1>8 DEF Visit
  <2>3. QED  BY <2>1, <2>2
<1>9. ASSUME NEW b \in Browsers, DoClose(b)
      PROVE  CauseInv'
  BY <1>9 DEF DoClose, flagVars
<1>10. ASSUME NEW b \in Browsers, OnBeforeClose(b)
       PROVE  CauseInv'
  <2>1. b \in used /\ b \notin open' /\ used' = used
    BY <1>0, <1>10 DEF OnBeforeClose, SetsOK
  <2>2. used' # open' /\ used' # {}
    BY <2>1
  <2>3. QED  BY <2>2
<1>11. ASSUME NEW b \in Browsers, Commit(b) \/ OnLoadError(b)
       PROVE  CauseInv'
  BY <1>11 DEF Commit, OnLoadError, flagVars
<1>12. ASSUME NEW b \in Browsers, OnLoadEnd(b)
       PROVE  CauseInv'
  <2>1. b \in used
    BY <1>12 DEF OnLoadEnd, SeenInv
  <2>2. QED  BY <1>12, <2>1 DEF OnLoadEnd
<1>13. QED
  BY <1>1, <1>2, <1>3, <1>4, <1>5, <1>6, <1>7, <1>8, <1>9, <1>10, <1>11, <1>12
  DEF ClientNext, Startup, Callback, Method

\* While no browser was closed, and if the context was ready in time, neither
\* an event that comes late (:210) nor a source (:214) nor the controller's
\* first call (main.cpp:75) finds nothing where it looks.
THEOREM DownOnlyForCause == ClientSpec => []DownHasCause
<1>1. ClientInit => CauseInv
  BY DEF ClientInit, CauseInv, DownHasCause
<1>2. TypeOK /\ SeenInv /\ CauseInv /\ [ClientNext]_clientVars => CauseInv'
  BY CauseInvStep
<1>3. CauseInv => DownHasCause
  BY DEF CauseInv
<1>4. QED  BY <1>1, <1>2, <1>3, SeenInvariant, PTL DEF ClientSpec

=============================================================================
