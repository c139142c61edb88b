----------------------------- MODULE LiveStream -----------------------------
(***************************************************************************)
(* A server-sent event stream of a page that holds its connection only     *)
(* while it is needed, web/static/live-stream.js.                          *)
(*                                                                         *)
(* A LiveStream opens a native EventSource (a source) when the tab is      *)
(* shown, closes it when the tab is hidden, and is closed for good by the  *)
(* server's "done" event or by a refusal.  JavaScript handles one event at *)
(* a time, and one event calls several of these functions: they are        *)
(* operators from the state of the stream and the sources, w, to the next. *)
(* A page makes a new stream for a panel only when the old one is closed   *)
(* for good, so one variable holds the stream in use.                      *)
(***************************************************************************)
EXTENDS Integers, Sequences

CONSTANTS
    Sources,        \* EventSource objects; bounds those that are open or late
    None

VARIABLES
    hidden,         \* document.hidden
    stream,         \* the LiveStream
    native          \* the EventSource objects, which the browser runs

\* The types of events a page listens to: log lines, the end, and a named type.
Types == {"message", "done", "progress"}

\* Who adds listeners: in htmx-sse.js the sse-swap of its elements, the hx-trigger of
\* the inner one, and sse-close.
Owners == {"top", "kid", "trigger", "close"}

\* builtIn: the native stream has on* properties for these (and for open, error).
BuiltIn == {"message"}

\* A source: what the browser does with it, and the types it has listeners for.
\* "late" is a source that was closed while events of it were under way.
Source == [state : {"none", "connecting", "open", "late"}, types : SUBSET Types]

NoSource == [state |-> "none", types |-> {}]

\* Each call of addEventListener passes a new function, so that two of one owner
\* are two listeners: they are counted.  known: the types that were ever added.
\* retry belongs to htmx-sse.js, which keeps it in the closure of a stream.
Stream == [finished : BOOLEAN, state : {"connecting", "open", "closed"},
           source : Sources \cup {None}, known : SUBSET Types,
           listeners : [Types -> [Owners -> Nat]], retry : 0..128]

Fresh(retry) == [finished |-> FALSE, state |-> "connecting", source |-> None, known |-> {},
                 listeners |-> [t \in Types |-> [o \in Owners |-> 0]], retry |-> retry]

Tab == [stream |-> stream, native |-> native]

Unused(w) == {s \in Sources : w.native[s].state = "none"}


\* _disconnect
Disconnect(w) ==
    LET s == w.stream.source
    IN IF s = None THEN w
       ELSE [stream |-> [w.stream EXCEPT !.source = None],
             native |-> [w.native EXCEPT ![s] =
                 IF @.state = "open" THEN [@ EXCEPT !.state = "late"] ELSE NoSource]]

Hearers(w, type) == {o \in Owners : w.stream.listeners[type][o] > 0}

\* The listeners of the stream are heard by the new source too.
Connect(w) ==
    LET s == CHOOSE x \in Unused(w) : TRUE
    IN [stream |-> [w.stream EXCEPT !.source = s],
        native |-> [w.native EXCEPT ![s] =
            [state |-> "connecting",
             types |-> {"done"} \cup (w.stream.known \ BuiltIn)]]]

SyncFinishedToo(w, hid) ==
    IF hid THEN Disconnect(w) ELSE IF w.stream.source = None THEN Connect(w) ELSE w

\* _sync: connects or disconnects to match the tab's visibility.
Sync(w, hid) ==
    IF w.stream.finished THEN w
    ELSE IF hid THEN [Disconnect(w) EXCEPT !.stream.state = "connecting"]
    ELSE IF w.stream.source = None THEN Connect(w)
    ELSE w

CloseOnly(w) == [w EXCEPT !.stream.finished = TRUE, !.stream.state = "closed"]

\* close, and what is done after "done" and after a refusal.  A stream that is
\* finished no longer watches the tab (_forget).
Close(w) == [Disconnect(w) EXCEPT !.stream.finished = TRUE, !.stream.state = "closed"]

\* addEventListener, once for each of the types.  A type is heard by the source from
\* its first listener on.
AddListeners(w, types, owner) ==
    LET s == w.stream.source
        new == types \ (w.stream.known \cup BuiltIn)
        had == w.stream.listeners
    IN [stream |-> [w.stream EXCEPT !.known = @ \cup types,
            !.listeners = [t \in Types |-> IF t \in types THEN [had[t] EXCEPT ![owner] = @ + 1] ELSE had[t]]],
        native |-> IF s = None THEN w.native ELSE [w.native EXCEPT ![s].types = @ \cup new]]

\* removeEventListener, for every listener of the owners.
RemoveListeners(w, type, owners) ==
    [w EXCEPT !.stream.listeners[type] = [o \in Owners |-> IF o \in owners THEN 0 ELSE @[o]]]

\* new LiveStream, beside the sources there are, in a tab that may be hidden.
Create(sources, retry, hid) == Sync([stream |-> Fresh(retry), native |-> sources], hid)

\* Handlers of a source that is no longer the stream's do nothing.
Heeded(s) == stream.source = s

\* src.onopen, src.onerror.
Opened(s) == [stream |-> [stream EXCEPT !.state = "open"],
              native |-> [native EXCEPT ![s].state = "open"]]

Lost(s) == [stream |-> [stream EXCEPT !.state = "connecting"],
            native |-> [native EXCEPT ![s].state = "connecting"]]

Refused(s) == Close([Tab EXCEPT !.native[s].state = "none"])
=============================================================================
