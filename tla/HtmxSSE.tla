------------------------------ MODULE HtmxSSE ------------------------------
(***************************************************************************)
(* htmx's extension for server-sent events, web/static/htmx-sse.js: an     *)
(* element with sse-connect gets a LiveStream, the elements with sse-swap  *)
(* and hx-trigger="sse:..." listen to it, and a refused stream is tried    *)
(* again after a while.                                                    *)
(*                                                                         *)
(* There is one element with sse-connect, "top", and one inside it, "kid". *)
(* The attributes are the layout.  The pages of this repository have       *)
(* sse-swap on the connecting element itself, and no hx-trigger of the     *)
(* kind; the extension promises the same for elements inside it.           *)
(***************************************************************************)
EXTENDS LiveStream

VARIABLES
    layout,         \* the attributes, or that a page's script uses the stream
    attached,       \* the elements in their parents: top in the page, kid in top
    timer,          \* the number of the retry that waits for its timeout
    text            \* what the panel shows: the lines, by their number

Elements == {"top", "kid"}

\* script: a page's script has the stream, and htmx has nothing to do with it.
\* listens: the types of events in an element's sse-swap.  triggers: those in the
\* hx-trigger of kid.  closes: sse-close="done".  replay: data-sse-replay.  appends:
\* hx-swap="beforeend".
Layout == [script : BOOLEAN, listens : [Elements -> SUBSET Types], triggers : SUBSET Types,
           closes : BOOLEAN, replay : BOOLEAN, appends : BOOLEAN]

NoTimer == 0

\* api.bodyContains
BodyContains(e) == {"top", e} \subseteq attached

HasEventSource(e) == e = "top" /\ ~layout.script

\* What a listener of registerSSE is for, and the element it belongs to.
Askers == Elements \cup {"trigger"}

AsksFor(o) == IF o = "trigger" THEN layout.triggers ELSE layout.listens[o]

ElementOf(o) == IF o = "trigger" THEN "kid" ELSE o

\* registerSSE: each call adds a listener for each type the element asks for, to
\* the stream of the closest element that has one.
RegisterSSE(w, e) ==
    IF ~\E o \in {e, "top"} : HasEventSource(o) THEN w
    ELSE LET v == AddListeners(w, AsksFor(e), e)
         IN IF e = "kid" THEN AddListeners(v, AsksFor("trigger"), "trigger") ELSE v

\* htmx.createEventSource: the extension puts its own in when there is none, and
\* live-stream.js, which a page loads next, a LiveStream in its place.
InitCreator(creator) == IF creator = "none" THEN "native" ELSE creator

LiveCreator(creator) == "LiveStream"

Creator == LiveCreator(InitCreator("none"))

\* The extension's own would connect in a hidden tab too.
CreateEventSource(sources, retry) == Create(sources, retry, FALSE)

\* ensureEventSource; "close" owns the listener of sse-close.
EnsureEventSource(sources, retry, hid) ==
    LET w == IF Creator = "LiveStream" THEN Create(sources, retry, hid)
             ELSE CreateEventSource(sources, retry)
    IN IF layout.closes THEN AddListeners(w, {"done"}, "close") ELSE w

EnsureEventSourceOnElement(sources, retry, hid) ==
    RegisterSSE(EnsureEventSource(sources, retry, hid), "top")

\* The stream of a page that was just loaded: of the script, or of the elements as
\* htmx processes them one by one.
FirstStream(sources, hid) ==
    IF layout.script THEN Create(sources, 0, hid)
    ELSE RegisterSSE(EnsureEventSourceOnElement(sources, 0, hid), "kid")

\* source.onopen.  retryCount is reset, so that later openings of this stream
\* register nothing again.
OnOpenKeepingCount(w) ==
    IF w.stream.retry > 0 /\ "kid" \in attached THEN RegisterSSE(w, "kid") ELSE w

OnOpen(w) ==
    IF w.stream.retry = 0 THEN w
    ELSE [IF "kid" \in attached THEN RegisterSSE(w, "kid") ELSE w EXCEPT !.stream.retry = 0]

NextRetry(n) == IF n = 0 THEN 1 ELSE IF 2 * n > 128 THEN 128 ELSE 2 * n

\* source.onerror: the stream of an element that is gone is closed
\* (maybeCloseSSESource), and a refused one is tried again.
RetryAfter(w) ==
    IF "top" \in attached /\ w.stream.state = "closed" THEN NextRetry(w.stream.retry) ELSE NoTimer

OnError(w) == IF "top" \in attached THEN w ELSE Close(w)

\* The listeners of a type hear an event.  Those of registerSSE close the stream
\* when the connecting element is gone, and go when their own is (the one of
\* hx-trigger does not return then, and triggers once more on the lost element: what
\* htmx makes of its triggers is not followed).
Hear(w, type) ==
    LET owners == Hearers(w, type)
    IN IF owners \cap Askers # {} /\ "top" \notin attached THEN Close(w)
       ELSE LET v == RemoveListeners(w, type, {o \in Askers : ~BodyContains(ElementOf(o))})
            IN IF "close" \in owners THEN Close(v) ELSE v

\* swap, once for each listener whose element is in the page.
Swapped(type, line) ==
    LET copies(e) == IF BodyContains(e) THEN stream.listeners[type][e] ELSE 0
        shown == copies("top") + copies("kid")
    IN IF layout.appends THEN text \o [i \in 1..shown |-> line]
       ELSE IF shown = 0 THEN text ELSE <<line>>

\* What the events of a stream do to the tab, for both kinds of consumer.
Set(w) == stream' = w.stream /\ native' = w.native

\* Open: the native stream has its answer.  The panel starts empty.
OpenEvent(s) ==
    /\ Heeded(s)
    /\ Set(IF layout.script THEN Opened(s) ELSE OnOpen(Opened(s)))
    /\ text' = IF layout.script \/ (layout.replay /\ "top" \in attached) THEN <<>> ELSE text

\* A line comes, under the name of an event.
LineEvent(s, type, line) ==
    IF ~Heeded(s) \/ (type \notin BuiltIn /\ type \notin native[s].types)
    THEN UNCHANGED <<stream, native, text>>
    ELSE /\ Set(Hear(Tab, type))
         /\ text' = IF layout.script THEN Append(text, line)
                    ELSE Swapped(type, line)

\* "done" is passed on, and then the stream is closed.
DoneEvent(s) == Heeded(s) /\ Set(Close(Hear(Tab, "done")))

\* The connection is lost, and the native stream tries again.
LostEvent(s) ==
    /\ Heeded(s)
    /\ Set(IF layout.script THEN Lost(s) ELSE OnError(Lost(s)))

\* The server refuses the stream.
RefusedEvent(s) ==
    /\ Heeded(s)
    /\ IF layout.script THEN Set(Refused(s)) /\ UNCHANGED timer
       ELSE LET w == Refused(s) IN
            /\ Set([OnError(w) EXCEPT !.stream.retry = IF RetryAfter(w) = NoTimer THEN @ ELSE RetryAfter(w)])
            /\ timer' = RetryAfter(w)

\* The timeout: the element gets a new stream, whether it is still there or not.
TimerEvent ==
    /\ timer # NoTimer /\ timer' = NoTimer
    /\ Unused(Tab) # {}
    /\ Set(EnsureEventSourceOnElement(native, timer, hidden))

\* htmx takes the element out of the page, and closes its stream
\* (htmx:beforeCleanupElement).
CleanupEvent ==
    /\ "top" \in attached /\ ~layout.script
    /\ attached' = attached \ {"top"}
    /\ Set(Close(Tab))

\* A script takes it out, which htmx does not see.
RemoveEvent ==
    /\ "top" \in attached /\ ~layout.script
    /\ attached' = attached \ {"top"}
    /\ UNCHANGED <<stream, native>>

KidGone ==
    /\ "kid" \in attached
    /\ attached' = attached \ {"kid"}
=============================================================================
