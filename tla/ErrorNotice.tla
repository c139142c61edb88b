---------------------------- MODULE ErrorNotice ----------------------------
(***************************************************************************)
(* The notice of failed requests (web/static/errors.js) on a page whose    *)
(* elements come and go under it: a panel that polls and renders a card    *)
(* afresh, a button in the card and one in the card's dialog, whose        *)
(* replies may replace the card.  htmx sends one request per element at a  *)
(* time; its events of an element that has left the page reach nobody.     *)
(***************************************************************************)
EXTENDS Dom

\* The elements of the page, and the notice.
ASSUME PageAssumption ==
    Nodes = {"body", "main", "title", "panel", "card", "act", "dialog", "article",
             "header", "send", "card2", "act2", "notice"}

VARIABLES
    tree, open,     \* the page, and whether the dialog in the card is open
    notice,         \* the script's notice, source, and the notice's text and hidden
    inflight,       \* the elements whose request is under way
    last            \* history: how the last request of each element ended

noticeVars == <<tree, open, notice, inflight, last>>

Buttons == {"act", "send", "act2"}
Senders == Buttons \cup {"panel"}
Failures == {"refused", "unreachable"}

\* A message tells whose request failed (NoNode: a fetch of a script) and how.
Messages == [from : Senders \cup {NoNode}, why : Failures]
NoMessage == [from |-> NoNode, why |-> "none"]

Page ==
    [NewTree EXCEPT !["body"] = <<"main">>, !["main"] = <<"title", "panel">>,
                    !["panel"] = <<"card">>, !["card"] = <<"act", "dialog">>,
                    !["dialog"] = <<"article">>, !["article"] = <<"header", "send">>,
                    !["card2"] = <<"act2">>]

InPage(t, n) == Holds(t, "body", n)
OpenDialog == IF open THEN {"dialog"} ELSE {}

NoticeTypeOK ==
    /\ tree \in Trees
    /\ open \in BOOLEAN
    /\ notice \in [made : BOOLEAN, hidden : BOOLEAN, text : Messages \cup {NoMessage},
                   source : Senders \cup {NoNode}]
    /\ inflight \subseteq Senders
    /\ last \in [Senders -> Failures \cup {"none", "worked"}]

-----------------------------------------------------------------------------
\* ensureNotice: the first time, a hidden notice at the top of main.
EnsureNotice(t) ==
    IF notice.made THEN t ELSE InsertBefore(t, "main", "notice", FirstChild(t, "main"))

\* placeNotice: under the header of the open dialog the element is in, or at
\* the top of the page; untouched when it is there already.
PlaceNotice(t, from) ==
    LET dialog == Closest(t, from, OpenDialog)
        article == QuerySelector(t, dialog, {"article"})
        host == IF dialog = NoNode THEN "main"
                ELSE IF article = NoNode THEN dialog ELSE article
        header == IF dialog = NoNode THEN NoNode ELSE QuerySelector(t, host, {"header"})
        before == IF header # NoNode THEN NextSibling(t, header) ELSE FirstChild(t, host)
    IN IF before = "notice" THEN t ELSE InsertBefore(t, host, "notice", before)

ShowErrorKeepingSource(message, from) ==    \* faulty variant of ShowError
    /\ tree' = PlaceNotice(EnsureNotice(tree), from)
    /\ notice' = [made |-> TRUE, hidden |-> FALSE, text |-> message,
                  source |-> IF notice.source = NoNode THEN from ELSE notice.source]

ShowError(message, from) ==
    /\ tree' = PlaceNotice(EnsureNotice(tree), from)
    /\ notice' = [made |-> TRUE, hidden |-> FALSE, text |-> message, source |-> from]

HideError == notice' = [notice EXCEPT !.hidden = TRUE, !.source = NoNode]

\* ignored: the panel's trigger is "every ...".
Ignored(e) == e = "panel"

AfterAnyRequest(elt) ==     \* faulty variant of AfterRequest
    IF notice.source # NoNode THEN HideError ELSE UNCHANGED notice

\* afterRequest of a request that worked, heard of the element elt.
AfterRequest(elt) ==
    IF notice.source # NoNode /\ elt = notice.source THEN HideError ELSE UNCHANGED notice

\* What the reply of e puts into the page: the panel is rendered afresh with a
\* new card, a button's card is replaced by one, or neither changes.
Replies(e) ==
    {tree} \cup
    (IF e = "act2" \/ ~InPage(tree, "card") THEN {} ELSE {Replaced(tree, "card", "card2")})

-----------------------------------------------------------------------------
NoticeInit ==
    /\ tree = Page
    /\ open = FALSE
    /\ notice = [made |-> FALSE, hidden |-> TRUE, text |-> NoMessage, source |-> NoNode]
    /\ inflight = {}
    /\ last = [e \in Senders |-> "none"]

\* A click, or the panel's poll.  An open dialog is modal: only what is in it
\* can be clicked.
SendRequest(e) ==
    /\ InPage(tree, e) /\ e \notin inflight
    /\ e \in Buttons => (open /\ InPage(tree, "dialog")) = (e = "send")
    /\ inflight' = inflight \cup {e}
    /\ UNCHANGED <<tree, open, notice, last>>

Ended(e, how) ==
    /\ e \in inflight
    /\ inflight' = inflight \ {e}
    /\ last' = [last EXCEPT ![e] = how]
    /\ UNCHANGED open

\* The reply is swapped in, then the element hears of it, or, when it is gone,
\* the nearest of its old ancestors that is left.
RequestWorks(e) ==
    \E t \in Replies(e) :
        /\ Ended(e, "worked")
        /\ tree' = t
        /\ AfterRequest(IF InPage(t, e) THEN e ELSE "panel")

\* htmx:responseError: the server refused.
ResponseError(e) ==
    /\ Ended(e, "refused")
    /\ IF Ignored(e) \/ ~InPage(tree, e) THEN UNCHANGED <<tree, notice>>
       ELSE ShowError([from |-> e, why |-> "refused"], e)

\* htmx:sendError: no server was reached.
SendError(e) ==
    /\ Ended(e, "unreachable")
    /\ IF Ignored(e) \/ ~InPage(tree, e) THEN UNCHANGED <<tree, notice>>
       ELSE ShowError([from |-> e, why |-> "unreachable"], e)

\* A fetch of a script fails: apiCall knows no element.
ApiCallFails(why) ==
    /\ ShowError([from |-> NoNode, why |-> why], NoNode)
    /\ UNCHANGED <<open, inflight, last>>

CloseClick ==
    /\ ~notice.hidden /\ InPage(tree, "notice")
    /\ HideError
    /\ UNCHANGED <<tree, open, inflight, last>>

ToggleDialog ==
    /\ InPage(tree, "dialog")
    /\ open' = ~open
    /\ UNCHANGED <<tree, notice, inflight, last>>

NoticeNext ==
    \/ \E e \in Senders :
        SendRequest(e) \/ RequestWorks(e) \/ ResponseError(e) \/ SendError(e)
    \/ \E why \in Failures : ApiCallFails(why)
    \/ CloseClick \/ ToggleDialog

NoticeSpec == NoticeInit /\ [][NoticeNext]_noticeVars

-----------------------------------------------------------------------------
\* The notice never tells of a failure that is over: while it shows one of an
\* element that is still on the page, that element's last request did fail, and
\* in the way it says.  (An element that was rendered afresh meanwhile can no
\* longer clear it: its success is another element's.)
NoticeTrue ==
    ~notice.hidden /\ notice.source # NoNode /\ InPage(tree, notice.source)
        => /\ notice.text.from = notice.source
           /\ last[notice.source] = notice.text.why

\* A failed request of an element on the page is told, where the user can see
\* it: first under the header of the dialog that is open around the element, or
\* else first on the page, and never at two places.  A request that ends hides
\* the notice only if it is a later success of the very element it tells of.
NoticeShownAndKept ==
    /\ \A e \in Buttons :
        e \in inflight \ inflight' /\ last'[e] \in Failures /\ InPage(tree, e)
            => /\ ~notice'.hidden /\ notice'.text = [from |-> e, why |-> last'[e]]
               /\ IF open /\ e = "send" THEN tree'["article"] = <<"header", "notice", "send">>
                  ELSE tree'["main"][1] = "notice"
               /\ {p \in Nodes : \E i \in DOMAIN tree'[p] : tree'[p][i] = "notice"} =
                     {IF open /\ e = "send" THEN "article" ELSE "main"}
    /\ inflight # inflight' /\ ~notice.hidden /\ notice'.hidden
        => /\ notice.source \in inflight \ inflight'
           /\ last'[notice.source] = "worked"

NoticeKept == [][NoticeShownAndKept]_noticeVars
=============================================================================
