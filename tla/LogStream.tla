----------------------------- MODULE LogStream -----------------------------
(***************************************************************************)
(* A log from the server's Broadcaster to a panel of a page: the handlers  *)
(* that stream it (StreamLines in internal/api/sse.go and its callers), a  *)
(* connection that fails or is refused, and the tab's LiveStream, used by  *)
(* htmx-sse.js or by a page's script.                                      *)
(*                                                                         *)
(* The values that are broadcast are the numbers of the lines.  A handler  *)
(* notices at once that its connection is gone; what the browser has not   *)
(* read yet is still in the channel.                                       *)
(***************************************************************************)
EXTENDS HtmxSSE, BroadcasterSizes

CONSTANTS
    Pages,          \* which pages, of those below
    MaxLines,       \* bound: lines written
    MaxFaults,      \* bound: connections lost or refused
    MaxFlips        \* bound: how often the tab is hidden or shown

VARIABLES
    feed,           \* whose log it is
    history, subs, chan,
    handler,        \* the server's goroutine of each connection
    ended,          \* the end of the log: "no", "ending" (startLog.ended is set), "yes"
    slipped,        \* history: readers that subscribed after the end, not knowing of it
    clearing,       \* a press of Clear, and the server's answer under way
    lines,          \* history: how many lines were written
    blank,          \* history: how many were when a Clear last emptied something
    missed,         \* history: a line did not fit into the channel of the stream
    heard,          \* history: an event came after the element was gone
    faults, flips

serverVars == <<feed, history, subs, chan, handler, ended, slipped>>
pageVars == <<layout, attached, timer, text>>
vars == <<hidden, stream, native, pageVars, serverVars, clearing, lines, blank, missed,
          heard, faults, flips>>

Log == INSTANCE Broadcaster WITH Readers <- Sources, Values <- 1..MaxLines

Nobody == [top |-> {}, kid |-> {}]

\* The panels of the pages: of the server log, whose stream a script has; of a build;
\* of a build that starts; and "parts", elements inside the connecting one.
ScriptPanel == [script |-> TRUE, listens |-> Nobody, triggers |-> {}, closes |-> FALSE,
                replay |-> FALSE, appends |-> TRUE]

BuildPanel == [script |-> FALSE, listens |-> [Nobody EXCEPT !.top = {"message", "done"}],
               triggers |-> {}, closes |-> FALSE, replay |-> TRUE, appends |-> TRUE]

StartPanel == [script |-> FALSE, listens |-> [Nobody EXCEPT !.top = {"message"}],
               triggers |-> {}, closes |-> TRUE, replay |-> TRUE, appends |-> TRUE]

PartsPanel == [script |-> FALSE, listens |-> [Nobody EXCEPT !.kid = {"progress"}],
               triggers |-> {"progress", "done"}, closes |-> FALSE, replay |-> FALSE,
               appends |-> FALSE]

Panel == [script |-> ScriptPanel, build |-> BuildPanel, start |-> StartPanel,
          parts |-> PartsPanel]

\* A page has a panel; the browser can connect; every log is kept (logHistory,
\* buildLogHistorySize, 1 for downloads).
ASSUME StreamsAssumption ==
    /\ Pages \subseteq DOMAIN Panel
    /\ Sources # {} /\ None \notin Sources
    /\ MaxLines \in Nat /\ HistSize > 0

Feed == [script |-> "router", build |-> "build", start |-> "start", parts |-> "progress"]

\* The name under which a line is sent: StreamLines sends its lines without one, and
\* parts listen to events that have one.
EventType == IF feed = "progress" THEN "progress" ELSE "message"

\* What a connection's goroutine is about to do: nothing (there is none), to subscribe
\* to a log, to subscribe to one it saw ended, to leave that one, to send lines.
Handler == {"none", "running", "ended", "leaving", "streaming"}

Connected(n, s) == n[s].state \in {"connecting", "open"}

TypeOK ==
    /\ hidden \in BOOLEAN
    /\ stream \in Stream
    /\ native \in [Sources -> Source]
    /\ layout \in Layout /\ attached \subseteq Elements /\ timer \in 0..128
    /\ text \in Seq(1..MaxLines)
    /\ Log!BroadcasterTypeOK
    /\ handler \in [Sources -> Handler]
    /\ \A s \in Sources : handler[s] # "none" => Connected(native, s)
    /\ ended \in {"no", "ending", "yes"}
    /\ clearing \in {"no", "asked", "cleared"}
    /\ stream.finished => stream.source = None

Init ==
    \E page \in Pages :
        /\ feed = Feed[page] /\ layout = Panel[page]
        /\ hidden \in BOOLEAN
        /\ LET w == FirstStream([s \in Sources |-> NoSource], hidden)
           IN stream = w.stream /\ native = w.native
        /\ attached = Elements /\ timer = NoTimer /\ text = <<>>
        /\ Log!BroadcasterInit
        /\ handler = [s \in Sources |-> "none"]
        /\ ended = "no" /\ slipped = {} /\ clearing = "no"
        /\ lines = 0 /\ blank = 0 /\ missed = FALSE /\ heard = FALSE
        /\ faults = 0 /\ flips = 0

-----------------------------------------------------------------------------
(* The server.                                                             *)

\* The goroutine that writes the log.
Write ==
    /\ lines < MaxLines /\ ended = "no"
    /\ lines' = lines + 1
    /\ Log!Broadcast(lines')
    /\ missed' = (missed \/ (stream.source \in subs /\ Len(chan'[stream.source].values)
                                                       = Len(chan[stream.source].values)))
    /\ UNCHANGED <<hidden, stream, native, pageVars, feed, handler, ended, slipped, clearing,
                   blank, heard, faults, flips>>

ClientOnly == UNCHANGED <<hidden, stream, native, pageVars, clearing, lines, blank, heard,
                          faults, flips>>

\* startLogs.end, in two steps; a build's log ends in one.
EndBegins ==
    /\ feed = "start" /\ ended = "no"
    /\ ended' = "ending"
    /\ UNCHANGED <<feed, history, subs, chan, handler, slipped, missed>> /\ ClientOnly

End ==
    /\ feed \in {"build", "start"} /\ ended = (IF feed = "start" THEN "ending" ELSE "no")
    /\ ended' = "yes"
    /\ Log!CloseSubscribers
    /\ UNCHANGED <<feed, handler, slipped, missed>> /\ ClientOnly

\* SubscribeStart looks whether the log has ended, and then subscribes.
Look(s) ==
    /\ feed = "start" /\ native[s].state = "connecting" /\ handler[s] = "none"
    /\ handler' = [handler EXCEPT ![s] = IF ended = "no" THEN "running" ELSE "ended"]
    /\ UNCHANGED <<feed, history, subs, chan, ended, slipped, missed>> /\ ClientOnly

Accept(s) ==
    /\ native[s].state = "connecting"
    /\ handler[s] = "running" \/ (feed # "start" /\ handler[s] = "none")
    /\ handler' = [handler EXCEPT ![s] = "streaming"]
    /\ Log!Subscribe(s)
    /\ slipped' = IF ended = "yes" THEN slipped \cup {s} ELSE slipped
    /\ missed' = FALSE
    /\ UNCHANGED <<feed, ended>> /\ ClientOnly

\* A log that was seen to have ended: its lines, in a channel like any other.
AcceptEnded(s) ==
    /\ native[s].state = "connecting" /\ handler[s] = "ended"
    /\ handler' = [handler EXCEPT ![s] = "leaving"]
    /\ Log!Subscribe(s)
    /\ UNCHANGED <<feed, ended, slipped, missed>> /\ ClientOnly

\* The reader leaves the subscribers, after which nobody else has the channel, and
\* closes it.
CloseEnded(s) ==
    /\ native[s].state = "connecting" /\ handler[s] = "leaving" /\ ~chan[s].closed
    /\ handler' = [handler EXCEPT ![s] = "streaming"]
    /\ subs' = subs \ {s}
    /\ chan' = [chan EXCEPT ![s].closed = TRUE]
    /\ missed' = FALSE
    /\ UNCHANGED <<feed, history, ended, slipped>> /\ ClientOnly

\* Handlers whose connection is gone leave (the context of the request), and
\* unsubscribe.
HandlersLeave(keeping) ==
    /\ handler' = [s \in Sources |-> IF s \in keeping THEN handler[s] ELSE "none"]
    /\ subs' = subs \cap keeping
    /\ slipped' = slipped \cap keeping
    /\ UNCHANGED <<feed, history, ended>>

StillConnected == {s \in Sources : Connected(native', s)}

-----------------------------------------------------------------------------
(* The connection.                                                         *)

NoteHeard == heard' = (heard \/ "top" \notin attached)

Open(s) ==
    /\ native[s].state = "connecting" /\ handler[s] = "streaming"
    /\ OpenEvent(s)
    /\ UNCHANGED <<hidden, layout, attached, timer, serverVars, clearing, lines, blank, missed,
                   heard, faults, flips>>

\* StreamLines sends the next line, and the browser hands it to the stream.
Deliver(s) ==
    /\ native[s].state = "open" /\ handler[s] = "streaming" /\ chan[s].values # <<>>
    /\ LineEvent(s, EventType, Head(chan[s].values))
    /\ NoteHeard
    /\ chan' = [chan EXCEPT ![s].values = Tail(@)]
    /\ HandlersLeave(StillConnected)
    /\ UNCHANGED <<hidden, layout, attached, timer, clearing, lines, blank, missed, faults, flips>>

\* The channel is closed and empty: StreamLines sends "done" and returns.
Done(s) ==
    /\ native[s].state = "open" /\ chan[s].closed /\ chan[s].values = <<>>
    /\ DoneEvent(s)
    /\ HandlersLeave(StillConnected)
    /\ UNCHANGED <<hidden, pageVars, chan, clearing, lines, blank, missed, heard, faults, flips>>

\* A line of a connection the page has closed comes late.
Late(s) ==
    /\ native[s].state = "late"
    /\ IF chan[s].values = <<>> THEN UNCHANGED text
       ELSE text' = IF Heeded(s) THEN Append(text, Head(chan[s].values)) ELSE text
    /\ native' = [native EXCEPT ![s] = NoSource]
    /\ chan' = [chan EXCEPT ![s] = Log!NoChannel]
    /\ UNCHANGED <<hidden, stream, layout, attached, timer, feed, history, subs, handler, ended,
                   slipped, clearing, lines, blank, missed, heard, faults, flips>>

Fault == faults < MaxFaults /\ faults' = faults + 1

Lose(s) ==
    /\ Fault
    /\ Connected(native, s)
    /\ LostEvent(s)
    /\ NoteHeard
    /\ HandlersLeave({})
    /\ UNCHANGED <<hidden, pageVars, chan, clearing, lines, blank, missed, flips>>

Refuse(s) ==
    /\ Fault
    /\ native[s].state = "connecting" /\ handler[s] = "none"
    /\ RefusedEvent(s)
    /\ NoteHeard
    /\ UNCHANGED <<hidden, layout, attached, text, serverVars, clearing, lines, blank, missed,
                   flips>>

\* end has closed the channel that CloseEnded is about to close: the handler panics
\* before it has answered, and the Recoverer of the server answers with an error.
Panic(s) ==
    /\ native[s].state = "connecting" /\ handler[s] = "leaving" /\ chan[s].closed
    /\ RefusedEvent(s)
    /\ NoteHeard
    /\ handler' = [handler EXCEPT ![s] = "none"]
    /\ chan' = [chan EXCEPT ![s] = Log!NoChannel]
    /\ UNCHANGED <<hidden, layout, attached, text, feed, history, subs, ended, slipped, clearing,
                   lines, blank, missed, faults, flips>>

-----------------------------------------------------------------------------
(* The user and the page.                                                  *)

\* The tab is hidden or shown: visibilitychange.
Flip ==
    /\ flips < MaxFlips /\ flips' = flips + 1
    /\ Unused(Tab) # {}
    /\ hidden' = ~hidden
    /\ Set(Sync(Tab, hidden'))
    /\ HandlersLeave(StillConnected)
    /\ UNCHANGED <<pageVars, chan, clearing, lines, blank, missed, heard, faults>>

Timer ==
    /\ TimerEvent
    /\ UNCHANGED <<hidden, layout, attached, text, serverVars, clearing, lines, blank, missed,
                   faults, flips>>
    /\ heard' = FALSE

Cleanup ==
    /\ CleanupEvent
    /\ HandlersLeave(StillConnected)
    /\ UNCHANGED <<hidden, layout, timer, text, chan, clearing, lines, blank, missed, heard,
                   faults, flips>>

\* The panel of a build that failed to start.
RemovePanel ==
    /\ feed = "start"
    /\ RemoveEvent
    /\ UNCHANGED <<hidden, layout, timer, text, serverVars, clearing, lines, blank, missed, heard,
                   faults, flips>>

RemoveKid ==
    /\ feed = "progress"
    /\ KidGone
    /\ UNCHANGED <<hidden, stream, native, layout, timer, text, serverVars, clearing, lines, blank,
                   missed, heard, faults, flips>>

BesideClear == UNCHANGED <<hidden, stream, native, layout, attached, timer, feed, subs, chan,
                           handler, ended, slipped, lines, missed, heard, faults, flips>>

\* Clear, with a buffer on the server: asked for, done there, answered.
ClearClick ==
    /\ feed = "router" /\ clearing = "no" /\ blank = 0
    /\ clearing' = "asked"
    /\ UNCHANGED <<text, history, blank>> /\ BesideClear

ClearLogs ==
    /\ clearing = "asked" /\ clearing' = "cleared"
    /\ Log!ClearHistory
    /\ blank' = lines
    /\ UNCHANGED <<hidden, stream, native, pageVars, feed, handler, ended, slipped, lines, missed,
                   heard, faults, flips>>

ClearAnswered ==
    /\ clearing = "cleared" /\ clearing' = "no"
    /\ text' = <<>>
    /\ blank' = lines
    /\ UNCHANGED history /\ BesideClear

\* The request fails, or its answer is lost: the page shows an error.
ClearFails ==
    /\ clearing # "no" /\ clearing' = "no"
    /\ UNCHANGED <<text, history, blank>> /\ BesideClear

-----------------------------------------------------------------------------
SourceStep(s) == Look(s) \/ Accept(s) \/ AcceptEnded(s) \/ CloseEnded(s) \/ Panic(s) \/ Open(s)
                 \/ Deliver(s) \/ Done(s) \/ Late(s)

Next ==
    \/ \E s \in Sources : SourceStep(s) \/ Lose(s) \/ Refuse(s)
    \/ Write \/ EndBegins \/ End \/ Flip \/ Timer \/ Cleanup \/ RemovePanel \/ RemoveKid
    \/ ClearClick \/ ClearLogs \/ ClearAnswered \/ ClearFails

Spec == Init /\ [][Next]_vars

\* The server answers, the network delivers and timeouts come; nobody has to write,
\* to end a log or to touch the page.
FairSpec == Spec /\ WF_vars(Timer) /\ \A s \in Sources : WF_vars(SourceStep(s))

-----------------------------------------------------------------------------
Live == {s \in Sources : Connected(native, s)}

Showing == stream.state = "open" /\ stream.source # None

\* A page holds one of the browser's few connections only while it needs it: one at
\* most, none while the tab is hidden, none once the stream is finished, and none
\* for an element that was gone when an event last came.
HeldOnlyWhileNeeded ==
    /\ \A s, t \in Live : s = t
    /\ hidden \/ stream.finished \/ (heard /\ layout.listens["kid"] = {}) => Live = {}

\* The panel shows the log as it is, however connections come and go: with what is
\* under way to it, its lines follow each other without gap or repetition up to the
\* last one written, unless the page was too slow for the server's channel.
Shown ==
    (IF layout.script \/ layout.replay THEN text ELSE <<>>) \o chan[stream.source].values

PanelFaithful ==
    Showing /\ "top" \in attached /\ ~missed =>
        /\ \A i \in 2..Len(Shown) : Shown[i] = Shown[i - 1] + 1
        /\ Shown # <<>> => Shown[Len(Shown)] = lines
        /\ lines > blank /\ (layout.script \/ layout.replay) => Shown # <<>>

\* Each element of an open stream hears each event it asked for, once, however often
\* the stream was refused, lost and opened again.
HeardOnce ==
    Showing /\ ~layout.script => \A o \in Askers, t \in Types : ElementOf(o) \in attached =>
        /\ stream.listeners[t][o] = IF t \in AsksFor(o) THEN 1 ELSE 0
        /\ t \in AsksFor(o) => t \in BuiltIn \cup native[stream.source].types

\* A panel that is shown catches up, again and again, unless its log is over for it.
CaughtUp == []<>(\/ hidden \/ "top" \notin attached
                 \/ stream.finished /\ (layout.script \/ ended # "no")
                 \/ Showing /\ chan[stream.source].values = <<>>)

\* Every reader of a log that has ended is told, and lets its connection go, but for
\* those that had looked before the end and subscribed after it.
EndIsTold == \A s \in Sources :
    ended = "yes" /\ handler[s] = "streaming" /\ s \notin slipped
        ~> handler[s] # "streaming"


\* "later ones get the lines and then the end" (end, start_log.go): a reader of a log
\* that has ended has a closed channel before it, whenever it came.
LaterGetTheEnd ==
    ended = "yes" => \A s \in Sources : handler[s] = "streaming" => chan[s].closed
=============================================================================
