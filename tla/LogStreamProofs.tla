-------------------------- MODULE LogStreamProofs --------------------------
(***************************************************************************)
(* Proofs about LogStream, for any number of connections, of lines, of     *)
(* faults and of hidings of the tab, and all sizes of the history and of   *)
(* the channels: a page holds a connection only while it needs it, each    *)
(* element hears each event once, and the panel shows the log as it is.    *)
(***************************************************************************)
EXTENDS LogStream, SequenceTheorems, TLAPS

\* The tab's state as the functions of LiveStream take and return it.
Tabs == [stream : Stream, native : [Sources -> Source]]

\* The stream's source is the one that is connected, it has the listeners of the
\* stream's types, and it is open when the stream is.
Linked(w) ==
    /\ \A s \in Sources : Connected(w.native, s) <=> w.stream.source = s
    /\ w.stream.finished => w.stream.source = None
    /\ w.stream.state = "closed" => w.stream.finished
    /\ w.stream.state = "open" =>
          w.stream.source # None /\ w.native[w.stream.source].state = "open"
    /\ w.stream.source # None =>
          w.stream.known \ BuiltIn \subseteq w.native[w.stream.source].types

\* How many listeners an element has: one of each type it asks for, and the inner
\* element only once the stream is open, when it is one that was tried again.
Asked(o, t) == IF t \in AsksFor(o) THEN 1 ELSE 0

TopHears(w) ==
    /\ AsksFor("top") \subseteq w.stream.known
    /\ \A t \in Types : w.stream.listeners[t]["top"] = Asked("top", t)

KidHears(w) ==
    /\ w.stream.retry = 0 => AsksFor("kid") \cup AsksFor("trigger") \subseteq w.stream.known
    /\ \A t \in Types, o \in {"kid", "trigger"} :
          w.stream.listeners[t][o] = IF w.stream.retry = 0 THEN Asked(o, t) ELSE 0

Registered(w) ==
    ~layout.script /\ ~w.stream.finished =>
        /\ TopHears(w) /\ ("kid" \in attached => KidHears(w))
        /\ w.stream.state = "open" => w.stream.retry = 0

TabInv ==
    /\ Linked(Tab) /\ Registered(Tab)
    /\ hidden => stream.source = None
    /\ timer # NoTimer => stream.finished
    /\ heard /\ layout.listens["kid"] = {} => stream.finished

PageInv ==
    /\ \E page \in Pages : layout = Panel[page] /\ feed = Feed[page]
    /\ layout.script => attached = Elements /\ timer = NoTimer
    /\ clearing # "no" => feed = "router"

\* The lines in q follow each other, up to line n.
EndsAt(q, n) == \A i \in 1..Len(q) : q[i] = n - Len(q) + i

\* What is kept are the last lines, some if any were written since the last Clear;
\* and while lines may come, every reader is subscribed.
LogInv ==
    /\ lines \in 0..MaxLines /\ blank \in 0..lines
    /\ EndsAt(history, lines)
    /\ lines > blank => history # <<>>
    /\ \A s \in Sources : /\ handler[s] \in {"ended", "leaving"} => ended # "no"
                          /\ handler[s] = "streaming" /\ ended = "no" => s \in subs

Keeps == layout.script \/ layout.replay

\* The panel and the channel of connection s, together, hold the last lines.
Good(s) ==
    /\ EndsAt(chan[s].values, lines)
    /\ Keeps /\ native[s].state = "open" => EndsAt(text, lines - Len(chan[s].values))
    /\ Keeps /\ lines > blank =>
          chan[s].values # <<>> \/ (native[s].state = "open" /\ text # <<>>)

PanelInv ==
    \A s \in Sources :
        stream.source = s /\ handler[s] = "streaming" /\ "top" \in attached /\ ~missed => Good(s)

IInv == TypeOK /\ TabInv /\ PageInv /\ LogInv /\ PanelInv

\* A reader that found its log ended has all of it in its channel.
LeavingInv ==
    \A s \in Sources : /\ handler[s] \in {"ended", "leaving"} => feed = "start"
                       /\ handler[s] = "leaving" => chan[s].values = history

-----------------------------------------------------------------------------
(* What the functions of LiveStream do to a tab.                           *)

\* A tab with a stream that is finished and holds no connection.
Closed(w) ==
    /\ w \in Tabs /\ w.stream.finished /\ w.stream.source = None /\ w.stream.state = "closed"
    /\ \A s \in Sources : ~Connected(w.native, s)

LEMMA ClosedFits ==
    ASSUME NEW w, Closed(w)
    PROVE  w \in Tabs /\ Linked(w) /\ Registered(w)
  BY StreamsAssumption DEF Closed, Linked, Registered

\* Only the stream's own source can be connected.
LEMMA LinkedFacts ==
    ASSUME NEW w, Linked(w)
    PROVE  /\ \A s \in Sources : Connected(w.native, s) => w.stream.source = s
           /\ w.stream.source = None => \A s \in Sources : ~Connected(w.native, s)
  BY StreamsAssumption DEF Linked

\* _disconnect leaves no connection.
LEMMA DisconnectFacts ==
    ASSUME NEW w \in Tabs, \A s \in Sources : Connected(w.native, s) => w.stream.source = s
    PROVE  /\ Disconnect(w) \in Tabs
           /\ Disconnect(w).stream = [w.stream EXCEPT !.source = None]
           /\ \A s \in Sources : ~Connected(Disconnect(w).native, s)
<1> DEFINE s == w.stream.source
<1>1. w.stream \in Stream /\ w.native \in [Sources -> Source] /\ s \in Sources \cup {None}
  BY DEF Tabs, Stream
<1>2. CASE s = None
  BY <1>1, <1>2, StreamsAssumption DEF Disconnect, Stream
<1>3. CASE s \in Sources
  <2> DEFINE x == IF w.native[s].state = "open" THEN [w.native[s] EXCEPT !.state = "late"] ELSE NoSource
  <2>1. x \in Source /\ x.state \in {"none", "late"}
    BY <1>1, <1>3 DEF Source, NoSource
  <2>2. Disconnect(w) = [stream |-> [w.stream EXCEPT !.source = None],
                         native |-> [w.native EXCEPT ![s] = x]]
    BY <1>3, StreamsAssumption DEF Disconnect
  <2> HIDE DEF x
  <2>3. [w.stream EXCEPT !.source = None] \in Stream
    BY <1>1 DEF Stream
  <2> QED BY <1>1, <1>3, <2>1, <2>2, <2>3 DEF Tabs, Connected
<1> QED BY <1>1, <1>2, <1>3

\* close ends the stream for good.
LEMMA CloseFacts ==
    ASSUME NEW w \in Tabs, \A s \in Sources : Connected(w.native, s) => w.stream.source = s
    PROVE  Closed(Close(w)) /\ Close(w).stream.retry = w.stream.retry
<1> DEFINE v == Disconnect(w)
<1>1. /\ v \in Tabs /\ v.stream = [w.stream EXCEPT !.source = None]
      /\ \A s \in Sources : ~Connected(v.native, s)
  BY DisconnectFacts
<1>2. w.stream \in Stream /\ v.stream \in Stream /\ v.native \in [Sources -> Source]
  BY <1>1 DEF Tabs
<1>3. Close(w) = [v EXCEPT !.stream.finished = TRUE, !.stream.state = "closed"]
  BY DEF Close
<1> HIDE DEF v
<1>4. /\ Close(w).native = v.native
      /\ Close(w).stream = [v.stream EXCEPT !.finished = TRUE, !.state = "closed"]
      /\ Close(w) = [stream |-> Close(w).stream, native |-> Close(w).native]
  BY <1>1, <1>3 DEF Tabs
<1>5. Close(w).stream \in Stream
  BY <1>2, <1>4 DEF Stream
<1>6. /\ Close(w).stream.finished /\ Close(w).stream.source = None
      /\ Close(w).stream.state = "closed" /\ Close(w).stream.retry = w.stream.retry
  BY <1>1, <1>2, <1>4 DEF Stream
<1>7. Close(w) \in Tabs
  BY <1>2, <1>4, <1>5 DEF Tabs
<1> QED BY <1>1, <1>4, <1>6, <1>7 DEF Closed

\* A stream without a source gets one that was not in use.
LEMMA ConnectFacts ==
    ASSUME NEW w \in Tabs, Unused(w) # {}, w.stream.state = "connecting", ~w.stream.finished,
           \A s \in Sources : ~Connected(w.native, s)
    PROVE  /\ Connect(w) \in Tabs /\ Linked(Connect(w))
           /\ \E s \in Sources : Connect(w).stream = [w.stream EXCEPT !.source = s]
<1> DEFINE s == CHOOSE x \in Unused(w) : TRUE
           new == [state |-> "connecting", types |-> {"done"} \cup (w.stream.known \ BuiltIn)]
<1>1. s \in Sources /\ s # None
  BY StreamsAssumption DEF Unused
<1>2. w.stream \in Stream /\ w.native \in [Sources -> Source]
  BY DEF Tabs
<1>3. Connect(w) = [stream |-> [w.stream EXCEPT !.source = s], native |-> [w.native EXCEPT ![s] = new]]
  BY DEF Connect
<1>4. new \in Source /\ new.state = "connecting"
  BY <1>2 DEF Source, Stream, Types
<1> HIDE DEF s
<1>5. /\ [w.stream EXCEPT !.source = s] \in Stream
      /\ [w.stream EXCEPT !.source = s].source = s
      /\ [w.stream EXCEPT !.source = s].known = w.stream.known
      /\ [w.stream EXCEPT !.source = s].state = "connecting"
      /\ ~[w.stream EXCEPT !.source = s].finished
  BY <1>1, <1>2 DEF Stream
<1>6. /\ [w.native EXCEPT ![s] = new] \in [Sources -> Source]
      /\ [w.native EXCEPT ![s] = new][s] = new
      /\ \A x \in Sources \ {s} : [w.native EXCEPT ![s] = new][x] = w.native[x]
  BY <1>1, <1>2, <1>4
<1>7. \A x \in Sources : Connected(Connect(w).native, x) <=> s = x
  <2> HIDE DEF new
  <2>1. Connected(Connect(w).native, s)
    BY <1>3, <1>4, <1>6 DEF Connected
  <2>2. ASSUME NEW x \in Sources \ {s} PROVE ~Connected(Connect(w).native, x)
    BY <1>3, <1>6 DEF Connected
  <2> QED BY <2>1, <2>2
<1>8. Connect(w) \in Tabs
  BY <1>3, <1>5, <1>6 DEF Tabs
<1>9. Connect(w).stream = [w.stream EXCEPT !.source = s]
      /\ Connect(w).native[s].types = {"done"} \cup (w.stream.known \ BuiltIn)
  BY <1>3, <1>6
<1> HIDE DEF new
<1> QED BY <1>1, <1>5, <1>7, <1>8, <1>9 DEF Linked

\* What _sync leaves alone.
Kept(w, v) ==
    /\ v.stream.finished = w.stream.finished /\ v.stream.retry = w.stream.retry
    /\ v.stream.known = w.stream.known /\ v.stream.listeners = w.stream.listeners
    /\ v.stream.state \in {w.stream.state, "connecting"}

LEMMA KeptRegistered ==
    ASSUME NEW w, NEW v, Kept(w, v), Registered(w)
    PROVE  Registered(v)
  BY DEF Kept, Registered, TopHears, KidHears

\* A tab that is hidden has no connection; one that is shown has one, unless its
\* stream is finished.
LEMMA SyncFacts ==
    ASSUME NEW w \in Tabs, Linked(w), Unused(w) # {}, NEW hid \in BOOLEAN
    PROVE  /\ Sync(w, hid) \in Tabs /\ Linked(Sync(w, hid)) /\ Kept(w, Sync(w, hid))
           /\ hid => Sync(w, hid).stream.source = None
           /\ w.stream.source # None /\ Sync(w, hid).stream.source # None => Sync(w, hid) = w
<1>0. w.stream \in Stream /\ w.native \in [Sources -> Source]
  BY DEF Tabs
<1>1. CASE w.stream.finished
  BY <1>1 DEF Sync, Kept, Linked
<1>2. CASE ~w.stream.finished /\ hid
  <2> DEFINE v == Disconnect(w)
  <2>1. /\ v \in Tabs /\ v.stream = [w.stream EXCEPT !.source = None]
        /\ \A s \in Sources : ~Connected(v.native, s)
    BY LinkedFacts, DisconnectFacts
  <2>2. Sync(w, hid) = [v EXCEPT !.stream.state = "connecting"]
    BY <1>2 DEF Sync
  <2> HIDE DEF v
  <2>3. /\ Sync(w, hid).native = v.native
        /\ Sync(w, hid).stream = [v.stream EXCEPT !.state = "connecting"]
        /\ Sync(w, hid) = [stream |-> Sync(w, hid).stream, native |-> Sync(w, hid).native]
    BY <2>1, <2>2 DEF Tabs
  <2>4. v.stream \in Stream /\ v.native \in [Sources -> Source]
    BY <2>1 DEF Tabs
  <2>5. /\ Sync(w, hid).stream \in Stream /\ Kept(w, Sync(w, hid))
        /\ Sync(w, hid).stream.source = None /\ Sync(w, hid).stream.state = "connecting"
    BY <1>0, <2>1, <2>3, <2>4 DEF Stream, Kept
  <2>6. Sync(w, hid) \in Tabs
    BY <2>3, <2>4, <2>5 DEF Tabs
  <2>7. Linked(Sync(w, hid))
    BY <2>1, <2>3, <2>5, StreamsAssumption DEF Linked
  <2> QED BY <2>5, <2>6, <2>7
<1>3. CASE ~w.stream.finished /\ ~hid /\ w.stream.source = None
  <2>1. w.stream.state = "connecting" /\ \A s \in Sources : ~Connected(w.native, s)
    BY <1>0, <1>3, LinkedFacts DEF Linked, Stream
  <2>2. Sync(w, hid) = Connect(w)
    BY <1>3 DEF Sync
  <2>3. /\ Connect(w) \in Tabs /\ Linked(Connect(w))
        /\ \E s \in Sources : Connect(w).stream = [w.stream EXCEPT !.source = s]
    BY <1>3, <2>1, ConnectFacts
  <2>4. Kept(w, Connect(w)) /\ Connect(w).stream.state = "connecting"
    BY <1>0, <2>1, <2>3 DEF Kept, Stream
  <2> QED BY <1>3, <2>2, <2>3, <2>4
<1>4. CASE ~w.stream.finished /\ ~hid /\ w.stream.source # None
  BY <1>4 DEF Sync, Kept
<1> QED BY <1>1, <1>2, <1>3, <1>4

\* The tab v is w with a listener more of the owner for each of the types.
Added(w, v, types, owner) ==
    /\ v.stream.finished = w.stream.finished /\ v.stream.retry = w.stream.retry
    /\ v.stream.source = w.stream.source /\ v.stream.state = w.stream.state
    /\ v.stream.known = w.stream.known \cup types
    /\ \A s \in Sources : v.native[s].state = w.native[s].state
    /\ \A t \in Types, o \in Owners :
          v.stream.listeners[t][o] =
              w.stream.listeners[t][o] + (IF t \in types /\ o = owner THEN 1 ELSE 0)

LEMMA AddFacts ==
    ASSUME NEW w \in Tabs, Linked(w), NEW types \in SUBSET Types, NEW owner \in Owners
    PROVE  LET v == AddListeners(w, types, owner)
           IN v \in Tabs /\ Linked(v) /\ Added(w, v, types, owner)
<1> DEFINE s == w.stream.source
           new == types \ (w.stream.known \cup BuiltIn)
           counts == [t \in Types |-> IF t \in types
                          THEN [w.stream.listeners[t] EXCEPT ![owner] = @ + 1]
                          ELSE w.stream.listeners[t]]
           str == [w.stream EXCEPT !.known = @ \cup types, !.listeners = counts]
           nat == IF s = None THEN w.native ELSE [w.native EXCEPT ![s].types = @ \cup new]
           v == AddListeners(w, types, owner)
<1>1. /\ w.stream \in Stream /\ w.native \in [Sources -> Source] /\ s \in Sources \cup {None}
      /\ w.stream.listeners \in [Types -> [Owners -> Nat]]
  BY DEF Tabs, Stream
<1>2. v = [stream |-> str, native |-> nat]
  BY DEF AddListeners
<1>3. /\ counts \in [Types -> [Owners -> Nat]]
      /\ \A t \in Types, o \in Owners :
            counts[t][o] = w.stream.listeners[t][o] + (IF t \in types /\ o = owner THEN 1 ELSE 0)
  <2>1. ASSUME NEW t \in Types
        PROVE  /\ counts[t] \in [Owners -> Nat]
               /\ \A o \in Owners :
                    counts[t][o] = w.stream.listeners[t][o] + (IF t \in types /\ o = owner THEN 1 ELSE 0)
    <3>1. w.stream.listeners[t] \in [Owners -> Nat]
      BY <1>1
    <3> QED BY <3>1
  <2> QED BY <2>1
<1> HIDE DEF counts
<1>4. /\ str \in Stream
      /\ str.finished = w.stream.finished /\ str.retry = w.stream.retry
      /\ str.source = s /\ str.state = w.stream.state
      /\ str.known = w.stream.known \cup types /\ str.listeners = counts
  BY <1>1, <1>3 DEF Stream
<1>5. /\ nat \in [Sources -> Source]
      /\ \A x \in Sources : nat[x].state = w.native[x].state
      /\ s # None => nat[s].types = w.native[s].types \cup new
  <2>1. CASE s = None
    BY <1>1, <2>1
  <2>2. CASE s # None
    <3>1. w.native[s] \in Source /\ new \subseteq Types
      BY <1>1, <2>2
    <3> HIDE DEF new
    <3>2. [w.native[s] EXCEPT !.types = @ \cup new] \in Source
      BY <3>1 DEF Source
    <3> QED BY <1>1, <2>2, <3>1, <3>2 DEF Source
  <2> QED BY <2>1, <2>2
<1>6. v.stream = str /\ v.native = nat
  BY <1>2
<1>7. v \in Tabs
  BY <1>2, <1>4, <1>5 DEF Tabs
<1>8. Added(w, v, types, owner)
  BY <1>3, <1>4, <1>6 DEF Added
<1> HIDE DEF str, nat, v
<1>9. s # None => v.stream.known \ BuiltIn \subseteq v.native[s].types
  BY <1>4, <1>5, <1>6 DEF Linked
<1>10. Linked(v)
  BY <1>1, <1>4, <1>5, <1>6, <1>9 DEF Linked, Connected
<1> QED BY <1>7, <1>8, <1>10 DEF v

\* An element asks for types of events.
LEMMA LayoutFacts ==
    ASSUME PageInv
    PROVE  /\ layout \in Layout
           /\ \A e \in Elements : layout.listens[e] \in SUBSET Types
           /\ \A o \in Askers : AsksFor(o) \in SUBSET Types
           /\ AsksFor("top") = layout.listens["top"] /\ AsksFor("kid") = layout.listens["kid"]
           /\ layout.script <=> feed = "router"
           /\ ~layout.script /\ layout.listens["kid"] = {} => EventType \in layout.listens["top"]
           /\ layout.replay => /\ ~layout.script /\ layout.appends /\ layout.listens["kid"] = {}
                               /\ EventType = "message" /\ "message" \in layout.listens["top"]
           /\ layout.listens["kid"] = {} \/ layout.script => EventType = "message"
           /\ feed = "progress" => ~layout.script
           /\ feed \in {"router", "build", "start", "progress"}
           /\ EventType \in Types
           /\ feed = "start" => layout.closes
<1>1. PICK page \in DOMAIN Panel : layout = Panel[page] /\ feed = Feed[page]
  BY StreamsAssumption DEF PageInv
<1>2. DOMAIN Panel = {"script", "build", "start", "parts"}
  BY DEF Panel
<1>3. CASE page = "script"
  BY <1>1, <1>3 DEF Panel, ScriptPanel, BuildPanel, StartPanel, PartsPanel, Feed, Nobody, Layout, Elements, Askers, AsksFor, EventType, Types
<1>4. CASE page = "build"
  BY <1>1, <1>4 DEF Panel, ScriptPanel, BuildPanel, StartPanel, PartsPanel, Feed, Nobody, Layout, Elements, Askers, AsksFor, EventType, Types
<1>5. CASE page = "start"
  BY <1>1, <1>5 DEF Panel, ScriptPanel, BuildPanel, StartPanel, PartsPanel, Feed, Nobody, Layout, Elements, Askers, AsksFor, EventType, Types
<1>6. CASE page = "parts"
  BY <1>1, <1>6 DEF Panel, ScriptPanel, BuildPanel, StartPanel, PartsPanel, Feed, Nobody, Layout, Elements, Askers, AsksFor, EventType, Types
<1> QED BY <1>1, <1>2, <1>3, <1>4, <1>5, <1>6

\* The tab v is w with the listeners more that registerSSE adds for e.
Joined(w, v, e) ==
    /\ v.stream.finished = w.stream.finished /\ v.stream.retry = w.stream.retry
    /\ v.stream.source = w.stream.source /\ v.stream.state = w.stream.state
    /\ w.stream.known \cup AsksFor(e) \subseteq v.stream.known
    /\ e = "kid" => AsksFor("trigger") \subseteq v.stream.known
    /\ \A s \in Sources : v.native[s].state = w.native[s].state
    /\ \A t \in Types, o \in Owners :
          v.stream.listeners[t][o] = w.stream.listeners[t][o] +
              (IF o = e \/ (e = "kid" /\ o = "trigger") THEN Asked(o, t) ELSE 0)

\* registerSSE, on a page without a script of its own.
LEMMA RegisterFacts ==
    ASSUME PageInv, ~layout.script, NEW w \in Tabs, Linked(w), NEW e \in Elements
    PROVE  LET v == RegisterSSE(w, e)
           IN v \in Tabs /\ Linked(v) /\ Joined(w, v, e)
<1> DEFINE u == AddListeners(w, AsksFor(e), e)
           v == RegisterSSE(w, e)
<1>1. v = IF e = "kid" THEN AddListeners(u, AsksFor("trigger"), "trigger") ELSE u
  BY DEF RegisterSSE, HasEventSource
<1>2. /\ AsksFor(e) \in SUBSET Types /\ e \in Owners /\ e # "trigger"
      /\ AsksFor("trigger") \in SUBSET Types /\ "trigger" \in Owners
  BY LayoutFacts DEF Elements, Askers, Owners
<1>3. u \in Tabs /\ Linked(u) /\ Added(w, u, AsksFor(e), e)
  BY <1>2, AddFacts
<1>4. \A t \in Types, o \in Owners : /\ w.stream.listeners[t][o] \in Nat
                                    /\ u.stream.listeners[t][o] \in Nat
  BY <1>3 DEF Tabs, Stream
<1> HIDE DEF u, v
<1>5. CASE e # "kid"
  <2>1. v = u
    BY <1>1, <1>5
  <2> QED BY <1>3, <1>4, <1>5, <2>1 DEF Added, Joined, Asked, v
<1>6. CASE e = "kid"
  <2>1. v \in Tabs /\ Linked(v) /\ Added(u, v, AsksFor("trigger"), "trigger")
    BY <1>1, <1>2, <1>3, <1>6, AddFacts
  <2>2. \A t \in Types, o \in Owners :
          v.stream.listeners[t][o] = w.stream.listeners[t][o] +
              (IF o = e \/ (e = "kid" /\ o = "trigger") THEN Asked(o, t) ELSE 0)
    BY <1>2, <1>3, <1>4, <1>6, <2>1 DEF Added, Asked
  <2> QED BY <1>3, <2>1, <2>2 DEF Added, Joined, v
<1> QED BY <1>5, <1>6

\* No source is connected, and there is one to use.
Idle(sources) ==
    /\ sources \in [Sources -> Source] /\ \A s \in Sources : ~Connected(sources, s)
    /\ \E s \in Sources : sources[s].state = "none"

\* A stream that is new, in a tab that may be hidden, and one without a listener yet.
Begun(w, retry, hid) ==
    /\ w \in Tabs /\ Linked(w) /\ ~w.stream.finished /\ w.stream.retry = retry
    /\ w.stream.state = "connecting" /\ (hid => w.stream.source = None)

New(w, retry, hid) ==
    Begun(w, retry, hid) /\ \A t \in Types, o \in Owners : w.stream.listeners[t][o] = 0

LEMMA CreateFacts ==
    ASSUME NEW sources, Idle(sources), NEW retry \in 0..128, NEW hid \in BOOLEAN
    PROVE  New(Create(sources, retry, hid), retry, hid)
<1> DEFINE w == [stream |-> Fresh(retry), native |-> sources]
<1>1. Fresh(retry) \in Stream
  BY DEF Fresh, Stream
<1>2. w \in Tabs /\ Linked(w) /\ Unused(w) # {}
  BY <1>1, StreamsAssumption DEF Idle, Tabs, Linked, Fresh, Unused
<1>3. Create(sources, retry, hid) = Sync(w, hid)
  BY DEF Create
<1>4. /\ w.stream.retry = retry /\ ~w.stream.finished /\ w.stream.state = "connecting"
      /\ \A t \in Types, o \in Owners : w.stream.listeners[t][o] = 0
  BY DEF Fresh
<1> HIDE DEF w
<1> QED BY <1>2, <1>3, <1>4, SyncFacts DEF Kept, New, Begun

\* The stream of an element hears what the element asks for.
LEMMA EnsureFacts ==
    ASSUME PageInv, ~layout.script,
           NEW sources, Idle(sources), NEW retry \in 0..128, NEW hid \in BOOLEAN
    PROVE  LET w == EnsureEventSourceOnElement(sources, retry, hid)
           IN /\ Begun(w, retry, hid) /\ TopHears(w)
              /\ \A t \in Types, o \in {"kid", "trigger"} : w.stream.listeners[t][o] = 0
<1> DEFINE u == Create(sources, retry, hid)
           v == EnsureEventSource(sources, retry, hid)
<1>1. New(u, retry, hid)
  BY CreateFacts
<1>2. v = IF layout.closes THEN AddListeners(u, {"done"}, "close") ELSE u
  BY DEF EnsureEventSource, Creator, LiveCreator
<1> HIDE DEF u, v
<1>3. /\ Begun(v, retry, hid)
      /\ \A t \in Types, o \in Owners : o # "close" => v.stream.listeners[t][o] = 0
  <2>1. CASE layout.closes
    <3>1. {"done"} \in SUBSET Types /\ "close" \in Owners
      BY DEF Types, Owners
    <3>2. v \in Tabs /\ Linked(v) /\ Added(u, v, {"done"}, "close")
      BY <1>1, <1>2, <2>1, <3>1, AddFacts DEF New, Begun
    <3> QED BY <1>1, <3>2 DEF Added, New, Begun
  <2>2. CASE ~layout.closes
    BY <1>1, <1>2, <2>2 DEF New
  <2> QED BY <2>1, <2>2
<1> DEFINE w == EnsureEventSourceOnElement(sources, retry, hid)
<1>4. w = RegisterSSE(v, "top") /\ "top" \in Elements /\ {"top", "kid", "trigger"} \subseteq Owners
  BY DEF EnsureEventSourceOnElement, Elements, Owners, v
<1>5. w \in Tabs /\ Linked(w) /\ Joined(v, w, "top")
  BY <1>3, <1>4, RegisterFacts DEF Begun
<1> HIDE DEF w
<1>6. Begun(w, retry, hid) /\ AsksFor("top") \subseteq w.stream.known
  BY <1>3, <1>5 DEF Joined, Begun
<1>7. \A t \in Types : /\ w.stream.listeners[t]["top"] = Asked("top", t)
                      /\ w.stream.listeners[t]["kid"] = 0 /\ w.stream.listeners[t]["trigger"] = 0
  BY <1>3, <1>4, <1>5 DEF Joined, Asked
<1> QED BY <1>6, <1>7 DEF TopHears, w

\* The stream of a page that was just loaded.
LEMMA FirstFacts ==
    ASSUME PageInv, attached = Elements, NEW hid \in BOOLEAN
    PROVE  LET w == FirstStream([s \in Sources |-> NoSource], hid)
           IN Begun(w, 0, hid) /\ Registered(w)
<1> DEFINE sources == [s \in Sources |-> NoSource]
           w == FirstStream(sources, hid)
<1>1. Idle(sources) /\ 0 \in 0..128
  BY StreamsAssumption DEF Idle, Source, NoSource, Connected
<1>2. CASE layout.script
  <2>1. w = Create(sources, 0, hid)
    BY <1>2 DEF FirstStream
  <2> HIDE DEF sources, w
  <2>2. Begun(w, 0, hid)
    BY <1>1, <2>1, CreateFacts DEF New
  <2> QED BY <1>2, <2>2 DEF w, sources, Registered
<1>3. CASE ~layout.script
  <2> DEFINE v == EnsureEventSourceOnElement(sources, 0, hid)
  <2>1. w = RegisterSSE(v, "kid") /\ "kid" \in Elements /\ {"top", "kid", "trigger"} \subseteq Owners
    BY <1>3 DEF FirstStream, Elements, Owners
  <2> HIDE DEF sources
  <2>2. Begun(v, 0, hid) /\ TopHears(v) /\ \A t \in Types, o \in {"kid", "trigger"} : v.stream.listeners[t][o] = 0
    BY <1>1, <1>3, EnsureFacts
  <2> HIDE DEF v, w
  <2>3. w \in Tabs /\ Linked(w) /\ Joined(v, w, "kid")
    BY <1>3, <2>1, <2>2, RegisterFacts DEF Begun
  <2>4. /\ Begun(w, 0, hid)
        /\ AsksFor("top") \cup AsksFor("kid") \cup AsksFor("trigger") \subseteq w.stream.known
    BY <2>2, <2>3 DEF Joined, TopHears, Begun
  <2>5. \A t \in Types : v.stream.listeners[t]["top"] = Asked("top", t) /\ Asked("top", t) + 0 = Asked("top", t)
                         /\ \A o \in {"kid", "trigger"} : 0 + Asked(o, t) = Asked(o, t)
    BY <2>2 DEF TopHears, Asked
  <2>6. \A t \in Types : /\ w.stream.listeners[t]["top"] = Asked("top", t)
                         /\ \A o \in {"kid", "trigger"} : w.stream.listeners[t][o] = Asked(o, t)
    BY <2>1, <2>2, <2>3, <2>5 DEF Joined
  <2>7. TopHears(w) /\ KidHears(w)
    BY <2>4, <2>6 DEF TopHears, KidHears, Begun
  <2> QED BY <2>4, <2>7 DEF Registered, Begun, w, sources
<1> QED BY <1>2, <1>3

-----------------------------------------------------------------------------
(* What the events of a stream do to the tab.                              *)

\* src.onopen: the source is open, and so is the stream.
LEMMA OpenedFacts ==
    ASSUME Tab \in Tabs, Linked(Tab), NEW s \in Sources, stream.source = s
    PROVE  LET w == Opened(s)
           IN /\ w \in Tabs /\ Linked(w)
              /\ w.stream = [stream EXCEPT !.state = "open"]
              /\ \A x \in Sources : w.native[x].state = IF x = s THEN "open" ELSE native[x].state
<1>1. stream \in Stream /\ native \in [Sources -> Source] /\ native[s] \in Source
  BY DEF Tabs, Tab
<1> DEFINE str == [stream EXCEPT !.state = "open"]
           nat == [native EXCEPT ![s].state = "open"]
<1>2. /\ str \in Stream /\ str.source = s /\ str.finished = stream.finished /\ str.known = stream.known
      /\ str.state = "open"
  BY <1>1 DEF Stream
<1>3. /\ nat \in [Sources -> Source] /\ nat[s].state = "open" /\ nat[s].types = native[s].types
      /\ \A x \in Sources \ {s} : nat[x] = native[x]
  BY <1>1 DEF Source
<1>4. Opened(s) = [stream |-> str, native |-> nat]
  BY DEF Opened
<1>5. /\ \A x \in Sources : Connected(native, x) <=> stream.source = x
      /\ stream.finished => stream.source = None
      /\ stream.source # None => stream.known \ BuiltIn \subseteq native[stream.source].types
      /\ s # None
  BY StreamsAssumption DEF Linked, Tab
<1> HIDE DEF str, nat
<1>6. \A x \in Sources : Connected(nat, x) <=> s = x
  BY <1>3, <1>5 DEF Connected
<1>7. Linked(Opened(s))
  BY <1>2, <1>3, <1>4, <1>5, <1>6 DEF Linked
<1> QED BY <1>2, <1>3, <1>4, <1>7 DEF Tabs, str

\* source.onopen of the extension: the inner element listens to a new stream too.
LEMMA OnOpenFacts ==
    ASSUME PageInv, ~layout.script, Tab \in Tabs, Linked(Tab), Registered(Tab),
           NEW s \in Sources, stream.source = s
    PROVE  LET w == OnOpen(Opened(s))
           IN /\ w \in Tabs /\ Linked(w) /\ Registered(w) /\ w.stream.source = s
              /\ \A x \in Sources : w.native[x].state = IF x = s THEN "open" ELSE native[x].state
<1> DEFINE u == Opened(s)
<1>1. /\ u \in Tabs /\ Linked(u) /\ u.stream = [stream EXCEPT !.state = "open"]
      /\ \A x \in Sources : u.native[x].state = IF x = s THEN "open" ELSE native[x].state
  BY OpenedFacts
<1>2. stream \in Stream /\ native \in [Sources -> Source] /\ s # None
  BY StreamsAssumption DEF Tabs, Tab
<1>3. /\ u.stream.finished = stream.finished /\ u.stream.retry = stream.retry
      /\ u.stream.known = stream.known /\ u.stream.listeners = stream.listeners
      /\ u.stream.source = s
  BY <1>1, <1>2 DEF Stream
<1>4. ~stream.finished
  BY <1>2 DEF Linked, Tab
<1>5. TopHears(u) /\ ("kid" \in attached => KidHears(u))
  BY <1>3, <1>4 DEF Registered, TopHears, KidHears, Tab
<1> HIDE DEF u
<1>6. CASE u.stream.retry = 0
  BY <1>1, <1>3, <1>5, <1>6 DEF OnOpen, Registered, u
<1>7. CASE u.stream.retry # 0
  <2> DEFINE v == IF "kid" \in attached THEN RegisterSSE(u, "kid") ELSE u
             w == OnOpen(u)
  <2>1. w = [v EXCEPT !.stream.retry = 0]
    BY <1>7 DEF OnOpen
  <2>2. /\ v \in Tabs /\ Linked(v)
        /\ v.stream.source = s
        /\ TopHears(v)
        /\ "kid" \in attached => AsksFor("kid") \cup AsksFor("trigger") \subseteq v.stream.known
        /\ "kid" \in attached => \A t \in Types, o \in {"kid", "trigger"} :
                                    v.stream.listeners[t][o] = Asked(o, t)
        /\ \A x \in Sources : v.native[x].state = u.native[x].state
    <3>1. CASE "kid" \in attached
      <4>1. "kid" \in Elements /\ {"top", "kid", "trigger"} \subseteq Owners
        BY DEF Elements, Owners
      <4>2. v \in Tabs /\ Linked(v) /\ Joined(u, v, "kid")
        BY <1>1, <3>1, <4>1, RegisterFacts
      <4>3. \A t \in Types : /\ u.stream.listeners[t]["top"] = Asked("top", t)
                             /\ Asked("top", t) + 0 = Asked("top", t)
                             /\ \A o \in {"kid", "trigger"} : /\ u.stream.listeners[t][o] = 0
                                                            /\ 0 + Asked(o, t) = Asked(o, t)
        BY <1>5, <1>7, <3>1 DEF TopHears, KidHears, Asked
      <4> HIDE DEF v
      <4>4. \A t \in Types : /\ v.stream.listeners[t]["top"] = Asked("top", t)
                             /\ \A o \in {"kid", "trigger"} : v.stream.listeners[t][o] = Asked(o, t)
        BY <4>1, <4>2, <4>3 DEF Joined
      <4>5. AsksFor("top") \cup AsksFor("kid") \cup AsksFor("trigger") \subseteq v.stream.known
        BY <1>5, <4>2 DEF Joined, TopHears
      <4> QED BY <1>3, <4>2, <4>4, <4>5 DEF Joined, TopHears
    <3>2. CASE "kid" \notin attached
      BY <1>1, <1>3, <1>5, <3>2
    <3> QED BY <3>1, <3>2
  <2> HIDE DEF v
  <2>3. /\ w.native = v.native /\ w.stream = [v.stream EXCEPT !.retry = 0]
        /\ w = [stream |-> w.stream, native |-> w.native]
    BY <2>1, <2>2 DEF Tabs
  <2>4. v.stream \in Stream /\ v.native \in [Sources -> Source]
    BY <2>2 DEF Tabs
  <2> HIDE DEF w
  <2>5. /\ w.stream \in Stream /\ w.stream.retry = 0 /\ w.stream.source = s
        /\ w.stream.known = v.stream.known /\ w.stream.listeners = v.stream.listeners
        /\ w.stream.finished = v.stream.finished /\ w.stream.state = v.stream.state
    BY <2>2, <2>3, <2>4 DEF Stream
  <2>6. w \in Tabs
    BY <2>3, <2>4, <2>5 DEF Tabs
  <2>7. Linked(w)
    BY <2>2, <2>3, <2>5 DEF Linked
  <2>8. TopHears(w) /\ ("kid" \in attached => KidHears(w))
    BY <2>2, <2>5 DEF TopHears, KidHears
  <2>9. Registered(w)
    BY <2>5, <2>8 DEF Registered
  <2> QED BY <1>1, <2>2, <2>3, <2>5, <2>6, <2>7, <2>9 DEF w, u
<1> QED BY <1>6, <1>7

\* The connection is lost: the source connects again, and the stream with it.
LEMMA LostFacts ==
    ASSUME Tab \in Tabs, Linked(Tab), Registered(Tab), NEW s \in Sources, stream.source = s
    PROVE  LET w == Lost(s)
           IN w \in Tabs /\ Linked(w) /\ Registered(w) /\ w.stream = [stream EXCEPT !.state = "connecting"]
<1>1. stream \in Stream /\ native \in [Sources -> Source] /\ native[s] \in Source
  BY DEF Tabs, Tab
<1> DEFINE str == [stream EXCEPT !.state = "connecting"]
           nat == [native EXCEPT ![s].state = "connecting"]
<1>2. /\ str \in Stream /\ str.source = s /\ str.finished = stream.finished /\ str.known = stream.known
      /\ str.state = "connecting" /\ str.retry = stream.retry /\ str.listeners = stream.listeners
  BY <1>1 DEF Stream
<1>3. /\ nat \in [Sources -> Source] /\ nat[s].state = "connecting" /\ nat[s].types = native[s].types
      /\ \A x \in Sources \ {s} : nat[x] = native[x]
  BY <1>1 DEF Source
<1>4. Lost(s) = [stream |-> str, native |-> nat]
  BY DEF Lost
<1>5. /\ \A x \in Sources : Connected(native, x) <=> stream.source = x
      /\ stream.finished => stream.source = None
      /\ stream.source # None => stream.known \ BuiltIn \subseteq native[stream.source].types
      /\ s # None
  BY StreamsAssumption DEF Linked, Tab
<1> HIDE DEF str, nat
<1>6. \A x \in Sources : Connected(nat, x) <=> s = x
  BY <1>3, <1>5 DEF Connected
<1>7. Linked(Lost(s))
  BY <1>2, <1>3, <1>4, <1>5, <1>6 DEF Linked
<1>8. Kept(Tab, Lost(s))
  BY <1>2, <1>4 DEF Kept, Tab
<1> QED BY <1>2, <1>3, <1>4, <1>7, <1>8, KeptRegistered DEF Tabs, str

\* The server refuses: the stream is finished.
LEMMA RefusedFacts ==
    ASSUME Tab \in Tabs, Linked(Tab), NEW s \in Sources, stream.source = s
    PROVE  Closed(Refused(s)) /\ Refused(s).stream.retry = stream.retry
<1> DEFINE w == [Tab EXCEPT !.native[s].state = "none"]
<1>1. stream \in Stream /\ native \in [Sources -> Source] /\ native[s] \in Source
  BY DEF Tabs, Tab
<1>2. w = [stream |-> stream, native |-> [native EXCEPT ![s].state = "none"]]
  BY DEF Tab
<1>3. /\ [native EXCEPT ![s].state = "none"] \in [Sources -> Source]
      /\ \A x \in Sources \ {s} : [native EXCEPT ![s].state = "none"][x] = native[x]
  BY <1>1 DEF Source
<1>4. w \in Tabs /\ w.stream = stream
  BY <1>1, <1>2, <1>3 DEF Tabs
<1>5. \A x \in Sources : Connected(w.native, x) => w.stream.source = x
  BY <1>2, <1>3, <1>4 DEF Connected, Linked, Tab
<1>6. Refused(s) = Close(w)
  BY DEF Refused
<1> HIDE DEF w
<1> QED BY <1>4, <1>5, <1>6, CloseFacts

\* removeEventListener touches the counts and nothing else.
LEMMA RemoveFacts ==
    ASSUME NEW w \in Tabs, Linked(w), NEW type \in Types, NEW owners
    PROVE  LET v == RemoveListeners(w, type, owners)
           IN /\ v \in Tabs /\ Linked(v) /\ v.native = w.native
              /\ v.stream.finished = w.stream.finished /\ v.stream.retry = w.stream.retry
              /\ v.stream.source = w.stream.source /\ v.stream.state = w.stream.state
              /\ v.stream.known = w.stream.known
              /\ \A t \in Types, o \in Owners :
                    v.stream.listeners[t][o] =
                        IF t = type /\ o \in owners THEN 0 ELSE w.stream.listeners[t][o]
<1> DEFINE v == RemoveListeners(w, type, owners)
           left == [o \in Owners |-> IF o \in owners THEN 0 ELSE w.stream.listeners[type][o]]
           counts == [w.stream.listeners EXCEPT ![type] = left]
           str == [w.stream EXCEPT !.listeners = counts]
<1>1. w.stream \in Stream /\ w.native \in [Sources -> Source]
      /\ w.stream.listeners \in [Types -> [Owners -> Nat]]
  BY DEF Tabs, Stream
<1>2. left \in [Owners -> Nat]
  BY <1>1
<1>3. /\ counts \in [Types -> [Owners -> Nat]]
      /\ \A t \in Types, o \in Owners :
            counts[t][o] = IF t = type /\ o \in owners THEN 0 ELSE w.stream.listeners[t][o]
  BY <1>1, <1>2
<1>4. v = [stream |-> str, native |-> w.native]
  <2>1. w = [stream |-> w.stream, native |-> w.native]
    BY DEF Tabs
  <2>2. v = [w EXCEPT !.stream.listeners[type] = left]
    BY DEF RemoveListeners
  <2> HIDE DEF left
  <2>3. v = [w EXCEPT !.stream = str]
    BY <2>2
  <2> QED BY <2>1, <2>3
<1> HIDE DEF counts, left
<1>5. /\ str \in Stream /\ str.finished = w.stream.finished /\ str.retry = w.stream.retry
      /\ str.source = w.stream.source /\ str.state = w.stream.state
      /\ str.known = w.stream.known /\ str.listeners = counts
  BY <1>1, <1>3 DEF Stream
<1> HIDE DEF str
<1>6. v.stream = str /\ v.native = w.native /\ v \in Tabs
  BY <1>1, <1>4, <1>5 DEF Tabs
<1> HIDE DEF v
<1>7. Linked(v)
  BY <1>5, <1>6 DEF Linked
<1> QED BY <1>3, <1>5, <1>6, <1>7 DEF v

\* Whoever hears an event either closes the stream, as for an element that is gone
\* it does, or the connection stays as it is and the elements keep their listeners.
LEMMA HearFacts ==
    ASSUME PageInv, Tab \in Tabs, Linked(Tab), Registered(Tab), NEW type \in Types,
           stream.source \in Sources
    PROVE  LET w == Hear(Tab, type)
           IN \/ Closed(w)
              \/ /\ w \in Tabs /\ Linked(w) /\ Registered(w) /\ w.native = native
                 /\ w.stream.source = stream.source /\ w.stream.finished = stream.finished
                 /\ w.stream.state = stream.state
                 /\ ~layout.script /\ type \in layout.listens["top"] => "top" \in attached
<1> DEFINE owners == Hearers(Tab, type)
           gone == {o \in Askers : ~BodyContains(ElementOf(o))}
           v == RemoveListeners(Tab, type, gone)
           w == Hear(Tab, type)
<1>0. /\ stream \in Stream /\ stream.listeners \in [Types -> [Owners -> Nat]] /\ Tab.stream = stream
      /\ Tab.native = native /\ Askers \subseteq Owners /\ Askers = {"top", "kid", "trigger"}
      /\ ~stream.finished
  BY StreamsAssumption DEF Tabs, Tab, Stream, Owners, Elements, Askers, Linked
<1>1. Closed(Close(Tab))
  BY LinkedFacts, CloseFacts
<1>2. /\ v \in Tabs /\ Linked(v) /\ v.native = native
      /\ v.stream.finished = stream.finished /\ v.stream.retry = stream.retry
      /\ v.stream.source = stream.source /\ v.stream.state = stream.state
      /\ v.stream.known = stream.known
      /\ \A t \in Types, o \in Owners :
            v.stream.listeners[t][o] = IF t = type /\ o \in gone THEN 0 ELSE stream.listeners[t][o]
  BY <1>0, RemoveFacts
<1> HIDE DEF v
<1>3. Closed(Close(v))
  BY <1>2, LinkedFacts, CloseFacts
<1>4. w = IF owners \cap Askers # {} /\ "top" \notin attached THEN Close(Tab)
          ELSE IF "close" \in owners THEN Close(v) ELSE v
  BY DEF Hear, v
<1>5. CASE w = Close(Tab) \/ w = Close(v)
  BY <1>1, <1>3, <1>5
<1>6. CASE /\ w = v
           /\ "top" \in attached \/ owners \cap Askers = {}
  <2>1. "top" \notin attached => \A o \in Askers : stream.listeners[type][o] = 0
    BY <1>0, <1>6 DEF Hearers
  <2>2. \A t \in Types : v.stream.listeners[t]["top"] = stream.listeners[t]["top"]
    BY <1>0, <1>2, <2>1 DEF BodyContains, ElementOf
  <2>3. "kid" \in attached => \A t \in Types, o \in {"kid", "trigger"} :
                                v.stream.listeners[t][o] = stream.listeners[t][o]
    BY <1>0, <1>2, <2>1 DEF BodyContains, ElementOf
  <2>4. Registered(v)
    BY <1>0, <1>2, <2>2, <2>3 DEF Registered, TopHears, KidHears
  <2>5. ~layout.script /\ type \in layout.listens["top"] => "top" \in attached
    BY <1>0, <2>1, LayoutFacts DEF Registered, TopHears, Asked
  <2> QED BY <1>2, <1>6, <2>4, <2>5
<1> HIDE DEF w
<1> QED BY <1>4, <1>5, <1>6 DEF w

-----------------------------------------------------------------------------
(* Sequences of consecutive lines.                                         *)

LEMMA EndsAppend ==
    ASSUME NEW q \in Seq(Nat), NEW n \in Int, EndsAt(q, n)
    PROVE  EndsAt(Append(q, n + 1), n + 1)
<1>1. Len(q) \in Nat /\ Len(Append(q, n + 1)) = Len(q) + 1
  OBVIOUS
<1> SUFFICES ASSUME NEW i \in 1..(Len(q) + 1)
             PROVE  Append(q, n + 1)[i] = (n + 1) - (Len(q) + 1) + i
  BY <1>1 DEF EndsAt
<1>2. CASE i \in 1..Len(q)
  <2>1. q[i] = n - Len(q) + i
    BY <1>2 DEF EndsAt
  <2>2. Append(q, n + 1)[i] = q[i]
    BY <1>2
  <2> QED BY <1>1, <2>1, <2>2
<1>3. CASE i = Len(q) + 1
  BY <1>1, <1>3
<1> QED BY <1>1, <1>2, <1>3

LEMMA EndsTail ==
    ASSUME NEW q \in Seq(Nat), q # <<>>, NEW n \in Int, EndsAt(q, n)
    PROVE  /\ EndsAt(Tail(q), n) /\ Tail(q) \in Seq(Nat) /\ Len(Tail(q)) = Len(q) - 1
           /\ Head(q) = (n - Len(q)) + 1
<1>1. /\ Len(q) \in Nat /\ Len(q) >= 1 /\ Tail(q) \in Seq(Nat) /\ Len(Tail(q)) = Len(q) - 1
      /\ Head(q) = q[1] /\ \A i \in 1..(Len(q) - 1) : Tail(q)[i] = q[i + 1]
  BY EmptySeq, HeadTailProperties
<1>2. Head(q) = n - Len(q) + 1
  BY <1>1 DEF EndsAt
<1>3. ASSUME NEW i \in 1..Len(Tail(q))
      PROVE  Tail(q)[i] = n - Len(Tail(q)) + i
  <2>1. i + 1 \in 1..Len(q) /\ Tail(q)[i] = q[i + 1]
    BY <1>1
  <2>2. q[i + 1] = n - Len(q) + (i + 1)
    BY <2>1 DEF EndsAt
  <2> QED BY <1>1, <2>1, <2>2
<1> QED BY <1>1, <1>2, <1>3 DEF EndsAt

LEMMA EndsEmpty == \A n : EndsAt(<<>>, n)
  BY DEF EndsAt

-----------------------------------------------------------------------------
(* Frames: what an action leaves alone keeps its part of the invariant.    *)

LEMMA TabSame ==
    ASSUME TabInv, UNCHANGED <<hidden, stream, native, layout, attached, timer, heard>>
    PROVE  TabInv'
<1>1. Tab' = Tab
  BY DEF Tab
<1>2. Linked(Tab)' /\ Registered(Tab)'
  BY <1>1 DEF TabInv, Linked, Registered, TopHears, KidHears, Asked, AsksFor, Connected
<1> QED BY <1>2 DEF TabInv

LEMMA PageSame ==
    ASSUME PageInv, UNCHANGED <<layout, feed, attached, timer, clearing>>
    PROVE  PageInv'
  BY DEF PageInv

LEMMA LogSame ==
    ASSUME LogInv, UNCHANGED <<lines, blank, history, ended, handler, subs>>
    PROVE  LogInv'
  BY DEF LogInv, EndsAt

\* The tab is w now.
LEMMA TabMoved ==
    ASSUME NEW w \in Tabs, Linked(w), Registered(w), Set(w), UNCHANGED <<layout, attached>>
    PROVE  /\ Linked(Tab)' /\ Registered(Tab)' /\ Tab' = w
           /\ stream' \in Stream /\ native' \in [Sources -> Source]
<1>1. w.stream \in Stream /\ w.native \in [Sources -> Source]
      /\ w = [stream |-> w.stream, native |-> w.native]
  BY DEF Tabs
<1>2. Tab' = w
  BY <1>1 DEF Tab, Set
<1>3. Linked(Tab)' /\ Registered(Tab)'
  BY <1>2 DEF Linked, Registered, TopHears, KidHears, Asked, AsksFor, Connected
<1> QED BY <1>1, <1>2, <1>3 DEF Set

\* The tab's stream is closed now, whatever becomes of the page.
LEMMA TabClosed ==
    ASSUME NEW w, Closed(w), Set(w)
    PROVE  /\ stream' \in Stream /\ native' \in [Sources -> Source]
           /\ stream'.finished /\ stream'.source = None
           /\ \A s \in Sources : ~Connected(native', s)
           /\ TabInv'
<1>1. /\ w \in Tabs /\ w.stream.finished /\ w.stream.source = None /\ w.stream.state = "closed"
      /\ \A s \in Sources : ~Connected(w.native, s)
  BY DEF Closed
<1>2. /\ stream' = w.stream /\ native' = w.native
      /\ stream' \in Stream /\ native' \in [Sources -> Source]
  BY <1>1 DEF Set, Tabs
<1>3. Linked(Tab)' /\ Registered(Tab)'
  BY <1>1, <1>2, StreamsAssumption DEF Linked, Registered, Tab, Connected
<1> QED BY <1>1, <1>2, <1>3 DEF TabInv, Connected

\* Handlers leave; nothing else happens on the server.
LEMMA LogLeave ==
    ASSUME TypeOK, LogInv, NEW keeping \in SUBSET Sources, HandlersLeave(keeping),
           UNCHANGED <<lines, blank>>
    PROVE  /\ LogInv'
           /\ handler' \in [Sources -> Handler]
           /\ subs' \subseteq Sources /\ UNCHANGED <<feed, history, ended>>
           /\ \A s \in Sources : handler'[s] # "none" => s \in keeping /\ handler'[s] = handler[s]
<1>1. /\ handler \in [Sources -> Handler] /\ subs \subseteq Sources
  BY DEF TypeOK, Log!BroadcasterTypeOK
<1>2. /\ handler' = [s \in Sources |-> IF s \in keeping THEN handler[s] ELSE "none"]
      /\ subs' = subs \cap keeping /\ UNCHANGED <<feed, history, ended>>
  BY DEF HandlersLeave
<1> QED BY <1>1, <1>2 DEF LogInv, EndsAt, Handler

\* The types, when what is not the tab's, the text's or the channels' stays in its
\* range.
LEMMA TypesFrame ==
    ASSUME TypeOK, hidden' \in BOOLEAN, stream' \in Stream, native' \in [Sources -> Source],
           stream'.finished => stream'.source = None,
           attached' \subseteq Elements, timer' \in 0..128, text' \in Seq(1..MaxLines),
           Log!BroadcasterTypeOK', UNCHANGED layout,
           handler' \in [Sources -> Handler],
           \A s \in Sources : handler'[s] # "none" => Connected(native', s),
           ended' \in {"no", "ending", "yes"},
           clearing' \in {"no", "asked", "cleared"}
    PROVE  TypeOK'
  BY DEF TypeOK, Connected

-----------------------------------------------------------------------------
(* The server's steps.                                                     *)

LEMMA TypeFacts ==
    ASSUME TypeOK
    PROVE  /\ history \in Seq(1..MaxLines) /\ Len(history) <= HistSize
           /\ subs \subseteq Sources /\ chan \in [Sources -> Log!Channel]
           /\ \A s \in Sources : /\ chan[s].values \in Seq(1..MaxLines) /\ chan[s].values \in Seq(Nat)
                                 /\ chan[s].room \in Nat /\ chan[s].closed \in BOOLEAN
           /\ history \in Seq(Nat) /\ text \in Seq(1..MaxLines) /\ text \in Seq(Nat)
           /\ Tab \in Tabs
<1>1. /\ history \in Seq(1..MaxLines) /\ Len(history) <= HistSize
      /\ subs \subseteq Sources /\ chan \in [Sources -> Log!Channel]
      /\ text \in Seq(1..MaxLines) /\ stream \in Stream /\ native \in [Sources -> Source]
  BY DEF TypeOK, Log!BroadcasterTypeOK
<1>2. 1..MaxLines \subseteq Nat
  BY StreamsAssumption
<1>3. Seq(1..MaxLines) \subseteq Seq(Nat)
  BY <1>2, SeqMonotonic
<1>4. \A s \in Sources : /\ chan[s].values \in Seq(1..MaxLines)
                         /\ chan[s].room \in Nat /\ chan[s].closed \in BOOLEAN
  BY <1>1 DEF Log!Channel
<1> QED BY <1>1, <1>3, <1>4 DEF Tabs, Tab

\* A line is kept, with those before it that still fit.
LEMMA RetainFacts ==
    ASSUME TypeOK, LogInv, lines < MaxLines
    PROVE  LET kept == Log!Retain(lines + 1)
           IN /\ kept \in Seq(1..MaxLines) /\ Len(kept) <= HistSize /\ kept # <<>>
              /\ EndsAt(kept, lines + 1)
<1> DEFINE q == IF Len(history) >= HistSize THEN Tail(history) ELSE history
<1>1. /\ history \in Seq(1..MaxLines) /\ Len(history) <= HistSize /\ Len(history) \in Nat
      /\ history \in Seq(Nat) /\ EndsAt(history, lines) /\ lines \in Nat
      /\ lines + 1 \in 1..MaxLines
  BY TypeFacts, StreamsAssumption DEF LogInv
<1>2. HistSize \in Nat /\ HistSize > 0
  BY SizesAssumption, StreamsAssumption
<1>3. q \in Seq(1..MaxLines) /\ q \in Seq(Nat) /\ Len(q) < HistSize /\ EndsAt(q, lines)
  <2>1. CASE Len(history) >= HistSize
    <3>1. history # <<>>
      BY <1>1, <1>2, <2>1
    <3>2. EndsAt(Tail(history), lines) /\ Tail(history) \in Seq(Nat) /\ Len(Tail(history)) = Len(history) - 1
      BY <1>1, <3>1, EndsTail
    <3>3. Tail(history) \in Seq(1..MaxLines)
      BY <1>1, <3>1
    <3> QED BY <1>1, <1>2, <2>1, <3>2, <3>3
  <2>2. CASE ~(Len(history) >= HistSize)
    BY <1>1, <1>2, <2>2
  <2> QED BY <2>1, <2>2
<1>4. Log!Retain(lines + 1) = Append(q, lines + 1)
  BY <1>2 DEF Log!Retain
<1> HIDE DEF q
<1>5. Append(q, lines + 1) \in Seq(1..MaxLines) /\ Len(Append(q, lines + 1)) = Len(q) + 1
      /\ Len(q) \in Nat
  BY <1>1, <1>3
<1>6. EndsAt(Append(q, lines + 1), lines + 1)
  BY <1>1, <1>3, EndsAppend
<1>7. Append(q, lines + 1) # <<>> /\ Len(Append(q, lines + 1)) <= HistSize
  BY <1>2, <1>3, <1>5
<1> QED BY <1>4, <1>5, <1>6, <1>7

\* The line in a channel, if it fits.
LEMMA SendFacts ==
    ASSUME TypeOK, lines \in Nat, lines < MaxLines, NEW s \in Sources
    PROVE  LET c == Log!Send(chan[s], lines + 1)
           IN /\ c \in Log!Channel
              /\ \/ c.values = Append(chan[s].values, lines + 1)
                 \/ c = chan[s]
<1>1. /\ chan[s] \in Log!Channel /\ chan[s].values \in Seq(1..MaxLines) /\ lines + 1 \in 1..MaxLines
  BY TypeFacts, StreamsAssumption
<1>2. Append(chan[s].values, lines + 1) \in Seq(1..MaxLines)
  BY <1>1
<1> DEFINE d == [chan[s] EXCEPT !.values = Append(@, lines + 1)]
<1>3. d \in Log!Channel /\ d.values = Append(chan[s].values, lines + 1)
  BY <1>1, <1>2 DEF Log!Channel
<1>4. Log!Send(chan[s], lines + 1) \in {d, chan[s]}
  BY DEF Log!Send
<1> HIDE DEF d
<1> QED BY <1>1, <1>3, <1>4

\* A line is written: whoever reads gets it, or has missed it.
LEMMA WriteInv ==
    ASSUME IInv, Write
    PROVE  IInv'
<1>1. TypeOK /\ TabInv /\ PageInv /\ LogInv /\ PanelInv
  BY DEF IInv
<1>2. /\ lines < MaxLines /\ ended = "no" /\ lines' = lines + 1
      /\ history' = Log!Retain(lines + 1)
      /\ chan' = [r \in Sources |-> IF r \in subs THEN Log!Send(chan[r], lines + 1) ELSE chan[r]]
      /\ missed' = (missed \/ (stream.source \in subs /\ Len(chan'[stream.source].values)
                                                       = Len(chan[stream.source].values)))
      /\ UNCHANGED <<hidden, stream, native, layout, attached, timer, text, feed, handler, ended,
                     clearing, blank, heard, subs>>
  BY DEF Write, pageVars, Log!Broadcast
<1>3. /\ lines \in Nat /\ blank \in 0..lines /\ lines' \in 0..MaxLines /\ blank' \in 0..lines'
  BY <1>1, <1>2, StreamsAssumption DEF LogInv
<1>4. /\ history' \in Seq(1..MaxLines) /\ Len(history') <= HistSize /\ history' # <<>>
      /\ EndsAt(history', lines')
  BY <1>1, <1>2, RetainFacts
<1>5. chan' \in [Sources -> Log!Channel]
  <2>1. \A s \in Sources : chan[s] \in Log!Channel /\ Log!Send(chan[s], lines + 1) \in Log!Channel
    BY <1>1, <1>2, <1>3, TypeFacts, SendFacts
  <2> QED BY <1>2, <2>1
<1>6. TypeOK'
  <2>1. Log!BroadcasterTypeOK'
    BY <1>1, <1>2, <1>4, <1>5, TypeFacts DEF Log!BroadcasterTypeOK
  <2> QED BY <1>1, <1>2, <2>1 DEF TypeOK, Connected
<1>7. TabInv' /\ PageInv'
  BY <1>1, <1>2, TabSame, PageSame
<1>8. LogInv'
  BY <1>1, <1>2, <1>3, <1>4 DEF LogInv, EndsAt
<1>9. PanelInv'
  <2> SUFFICES ASSUME NEW s \in Sources, stream'.source = s, handler'[s] = "streaming",
                      "top" \in attached', ~missed'
               PROVE  Good(s)'
    BY DEF PanelInv
  <2>1. s \in subs /\ Good(s) /\ Len(chan'[s].values) # Len(chan[s].values)
    BY <1>1, <1>2 DEF PanelInv, LogInv
  <2>2. chan'[s] = Log!Send(chan[s], lines + 1)
    BY <1>2, <2>1
  <2>3. chan'[s].values = Append(chan[s].values, lines + 1)
    BY <1>1, <1>2, <1>3, <2>1, <2>2, SendFacts
  <2> DEFINE q == chan[s].values
  <2>4. q \in Seq(Nat) /\ Len(q) \in Nat
    BY <1>1, TypeFacts
  <2>5. EndsAt(q, lines) /\ (Keeps /\ native[s].state = "open" => EndsAt(text, lines - Len(q)))
    BY <2>1 DEF Good
  <2> HIDE DEF q
  <2>6. EndsAt(Append(q, lines + 1), lines + 1)
    BY <1>3, <2>4, <2>5, EndsAppend
  <2>7. (lines + 1) - Len(Append(q, lines + 1)) = lines - Len(q) /\ Append(q, lines + 1) # <<>>
    BY <1>3, <2>4
  <2>8. chan'[s].values = Append(q, lines + 1)
    BY <2>3 DEF q
  <2>9. Keeps' = Keeps
    BY <1>2 DEF Keeps
  <2>10. EndsAt(chan'[s].values, lines') /\ chan'[s].values # <<>>
    BY <1>2, <2>6, <2>7, <2>8
  <2>11. Keeps' /\ native'[s].state = "open" => EndsAt(text', lines' - Len(chan'[s].values))
    BY <1>2, <2>5, <2>7, <2>8, <2>9
  <2> QED BY <2>10, <2>11 DEF Good, EndsAt, Keeps
<1> QED BY <1>6, <1>7, <1>8, <1>9 DEF IInv

\* The log ends, in one step or two.
LEMMA EndInv ==
    ASSUME IInv, EndBegins \/ End
    PROVE  IInv'
<1>1. TypeOK /\ TabInv /\ PageInv /\ LogInv /\ PanelInv
  BY DEF IInv
<1>2. /\ UNCHANGED <<hidden, stream, native, layout, attached, timer, text, clearing, lines, blank,
                     heard, feed, handler, missed, history>>
      /\ ended' \in {"ending", "yes"}
  BY DEF EndBegins, End, ClientOnly, pageVars, Log!CloseSubscribers
<1>3. /\ chan' \in [Sources -> Log!Channel] /\ subs' \subseteq Sources
      /\ \A s \in Sources : chan'[s].values = chan[s].values
  <2>1. CASE EndBegins
    BY <1>1, <2>1, TypeFacts DEF EndBegins
  <2>2. CASE End
    <3>1. /\ subs' = {}
          /\ chan' = [r \in Sources |-> IF r \in subs THEN [chan[r] EXCEPT !.closed = TRUE] ELSE chan[r]]
      BY <2>2 DEF End, Log!CloseSubscribers
    <3>2. \A r \in Sources : /\ [chan[r] EXCEPT !.closed = TRUE] \in Log!Channel
                             /\ [chan[r] EXCEPT !.closed = TRUE].values = chan[r].values
                             /\ chan[r] \in Log!Channel
      BY <1>1, TypeFacts DEF Log!Channel
    <3> QED BY <3>1, <3>2
  <2> QED BY <2>1, <2>2
<1>4. TypeOK'
  <2>1. Log!BroadcasterTypeOK'
    BY <1>1, <1>2, <1>3, TypeFacts DEF Log!BroadcasterTypeOK
  <2> QED BY <1>1, <1>2, <2>1 DEF TypeOK, Connected
<1>5. TabInv' /\ PageInv'
  BY <1>1, <1>2, TabSame, PageSame
<1>6. LogInv'
  BY <1>1, <1>2 DEF LogInv, EndsAt
<1>7. PanelInv'
  BY <1>1, <1>2, <1>3 DEF PanelInv, Good, EndsAt, Keeps
<1> QED BY <1>4, <1>5, <1>6, <1>7 DEF IInv

\* SubscribeStart looks.
LEMMA LookInv ==
    ASSUME IInv, NEW s \in Sources, Look(s)
    PROVE  IInv'
<1>1. TypeOK /\ TabInv /\ PageInv /\ LogInv /\ PanelInv
  BY DEF IInv
<1>2. /\ UNCHANGED <<hidden, stream, native, layout, attached, timer, text, clearing, lines, blank,
                     heard, feed, history, subs, chan, ended, missed>>
      /\ native[s].state = "connecting" /\ handler[s] = "none"
      /\ handler' = [handler EXCEPT ![s] = IF ended = "no" THEN "running" ELSE "ended"]
  BY DEF Look, ClientOnly, pageVars
<1>3. handler \in [Sources -> Handler]
  BY <1>1 DEF TypeOK
<1>4. /\ handler'[s] \in {"running", "ended"} /\ (handler'[s] = "ended" => ended # "no")
      /\ \A x \in Sources \ {s} : handler'[x] = handler[x]
      /\ handler' \in [Sources -> Handler]
  BY <1>2, <1>3 DEF Handler
<1>5. TypeOK'
  <2>1. Log!BroadcasterTypeOK'
    BY <1>1, <1>2 DEF TypeOK, Log!BroadcasterTypeOK
  <2> QED BY <1>1, <1>2, <1>4, <2>1 DEF TypeOK, Connected
<1>6. TabInv' /\ PageInv'
  BY <1>1, <1>2, TabSame, PageSame
<1>7. LogInv'
  BY <1>1, <1>2, <1>4 DEF LogInv, EndsAt
<1>8. PanelInv'
  BY <1>1, <1>2, <1>4 DEF PanelInv, Good, EndsAt, Keeps
<1> QED BY <1>5, <1>6, <1>7, <1>8 DEF IInv

LEMMA ReplayFacts ==
    ASSUME TypeOK
    PROVE  Log!Replay \in Log!Channel /\ Log!Replay.values = history
<1>1. Len(history) + ChanCap \in Nat /\ history \in Seq(1..MaxLines)
  BY TypeFacts, SizesAssumption
<1> QED BY <1>1 DEF Log!Replay, Log!Channel

\* SubscribeStart found the log ended: the reader gets what is kept.
LEMMA AcceptEndedInv ==
    ASSUME IInv, NEW s \in Sources, AcceptEnded(s)
    PROVE  IInv'
<1>1. TypeOK /\ TabInv /\ PageInv /\ LogInv /\ PanelInv
  BY DEF IInv
<1>2. /\ UNCHANGED <<hidden, stream, native, layout, attached, timer, text, clearing, lines, blank,
                     heard, feed, history, ended, missed>>
      /\ native[s].state = "connecting" /\ handler[s] = "ended"
      /\ handler' = [handler EXCEPT ![s] = "leaving"]
      /\ subs' = subs \cup {s} /\ chan' = [chan EXCEPT ![s] = Log!Replay]
  BY DEF AcceptEnded, Log!Subscribe, ClientOnly, pageVars
<1>3. handler \in [Sources -> Handler] /\ chan \in [Sources -> Log!Channel] /\ ended # "no"
  BY <1>1, <1>2, TypeFacts DEF TypeOK, LogInv
<1>4. /\ chan' \in [Sources -> Log!Channel] /\ \A x \in Sources \ {s} : chan'[x] = chan[x]
      /\ handler' \in [Sources -> Handler] /\ handler'[s] = "leaving"
      /\ \A x \in Sources \ {s} : handler'[x] = handler[x]
  BY <1>1, <1>2, <1>3, ReplayFacts DEF Handler
<1>5. TypeOK'
  <2>1. Log!BroadcasterTypeOK'
    BY <1>1, <1>2, <1>4, TypeFacts DEF Log!BroadcasterTypeOK
  <2> QED BY <1>1, <1>2, <1>4, <2>1 DEF TypeOK, Connected
<1>6. TabInv' /\ PageInv'
  BY <1>1, <1>2, TabSame, PageSame
<1>7. LogInv'
  BY <1>1, <1>2, <1>3, <1>4 DEF LogInv, EndsAt
<1>8. PanelInv'
  BY <1>1, <1>2, <1>4 DEF PanelInv, Good, EndsAt, Keeps
<1> QED BY <1>5, <1>6, <1>7, <1>8 DEF IInv

\* A reader gets what is kept and subscribes, or closes the channel it got it in.
LEMMA AcceptInv ==
    ASSUME IInv, LeavingInv, NEW s \in Sources, Accept(s) \/ CloseEnded(s)
    PROVE  IInv'
<1>1. TypeOK /\ TabInv /\ PageInv /\ LogInv /\ PanelInv
  BY DEF IInv
<1>2. /\ UNCHANGED <<hidden, stream, native, layout, attached, timer, text, clearing, lines, blank,
                     heard, feed, history, ended>>
      /\ handler' = [handler EXCEPT ![s] = "streaming"]
  BY DEF Accept, CloseEnded, Log!Subscribe, ClientOnly, pageVars
<1>3. \E c \in Log!Channel : c.values = history /\ chan' = [chan EXCEPT ![s] = c]
  <2>1. CASE Accept(s)
    BY <1>1, <2>1, ReplayFacts DEF Accept, Log!Subscribe
  <2>2. CASE CloseEnded(s)
    <3> DEFINE c == [chan[s] EXCEPT !.closed = TRUE]
    <3>1. chan[s] \in Log!Channel /\ chan[s].values = history /\ chan' = [chan EXCEPT ![s] = c]
      BY <1>1, <2>2, TypeFacts DEF CloseEnded, LeavingInv
    <3>2. c \in Log!Channel /\ c.values = history
      BY <3>1 DEF Log!Channel
    <3> QED BY <3>1, <3>2
  <2> QED BY <2>1, <2>2
<1>4. subs' \subseteq Sources /\ (ended = "no" => s \in subs' /\ subs \subseteq subs')
  BY <1>1, TypeFacts DEF Accept, CloseEnded, Log!Subscribe, LogInv
<1>5. handler \in [Sources -> Handler] /\ chan \in [Sources -> Log!Channel]
  BY <1>1, TypeFacts DEF TypeOK
<1>6. /\ chan' \in [Sources -> Log!Channel] /\ chan'[s].values = history
      /\ \A x \in Sources \ {s} : chan'[x] = chan[x]
  BY <1>3, <1>5
<1>7. /\ handler'[s] = "streaming" /\ \A x \in Sources \ {s} : handler'[x] = handler[x]
      /\ handler' \in [Sources -> Handler]
  BY <1>2, <1>5 DEF Handler
<1>8. native[s].state = "connecting" /\ Connected(native, s)
  BY DEF Accept, CloseEnded, Connected
<1>9. TypeOK'
  <2>1. Log!BroadcasterTypeOK'
    BY <1>1, <1>2, <1>4, <1>6, TypeFacts DEF Log!BroadcasterTypeOK
  <2> QED BY <1>1, <1>2, <1>7, <1>8, <2>1 DEF TypeOK, Connected
<1>10. TabInv' /\ PageInv'
  BY <1>1, <1>2, TabSame, PageSame
<1>11. LogInv'
  BY <1>1, <1>2, <1>4, <1>7 DEF LogInv, EndsAt
<1>12. PanelInv'
  <2> SUFFICES ASSUME NEW x \in Sources, stream'.source = x
               PROVE  Good(x)'
    BY DEF PanelInv
  <2>1. x = s
    BY <1>1, <1>2, <1>8 DEF TabInv, Linked, Tab
  <2>2. EndsAt(chan'[x].values, lines') /\ (lines' > blank' => chan'[x].values # <<>>)
    BY <1>1, <1>2, <1>6, <2>1 DEF LogInv
  <2>3. native'[x].state # "open"
    BY <1>2, <1>8, <2>1
  <2> QED BY <2>2, <2>3 DEF Good, EndsAt
<1> QED BY <1>9, <1>10, <1>11, <1>12 DEF IInv

\* Clear is pressed, or fails.
LEMMA ClearAskedInv ==
    ASSUME IInv, ClearClick \/ ClearFails
    PROVE  IInv'
<1>1. TypeOK /\ TabInv /\ PageInv /\ LogInv /\ PanelInv
  BY DEF IInv
<1>2. /\ UNCHANGED <<hidden, stream, native, layout, attached, timer, text, lines, blank,
                     heard, feed, history, subs, chan, handler, ended, missed>>
      /\ clearing' \in {"no", "asked"} /\ (clearing' # "no" => feed = "router")
  BY DEF ClearClick, ClearFails, BesideClear
<1>3. TypeOK'
  <2>1. Log!BroadcasterTypeOK'
    BY <1>1, <1>2 DEF TypeOK, Log!BroadcasterTypeOK
  <2> QED BY <1>1, <1>2, <2>1 DEF TypeOK, Connected
<1>4. TabInv' /\ LogInv' /\ PageInv'
  BY <1>1, <1>2, TabSame, LogSame DEF PageInv
<1>5. PanelInv'
  BY <1>1, <1>2 DEF PanelInv, Good, EndsAt, Keeps
<1> QED BY <1>3, <1>4, <1>5 DEF IInv

\* The server empties what it keeps.
LEMMA ClearLogsInv ==
    ASSUME IInv, ClearLogs
    PROVE  IInv'
<1>1. TypeOK /\ TabInv /\ PageInv /\ LogInv /\ PanelInv
  BY DEF IInv
<1>2. /\ UNCHANGED <<hidden, stream, native, layout, attached, timer, text, lines,
                     heard, feed, subs, chan, handler, ended, missed>>
      /\ clearing = "asked" /\ clearing' = "cleared" /\ history' = <<>> /\ blank' = lines
  BY DEF ClearLogs, Log!ClearHistory, pageVars
<1>3. TypeOK'
  <2>1. Log!BroadcasterTypeOK'
    BY <1>1, <1>2, TypeFacts, SizesAssumption DEF Log!BroadcasterTypeOK
  <2> QED BY <1>1, <1>2, <2>1 DEF TypeOK, Connected
<1>4. lines \in 0..MaxLines /\ ~(lines > lines) /\ lines \in 0..lines
  BY <1>1, StreamsAssumption DEF LogInv
<1>5. TabInv' /\ PageInv'
  BY <1>1, <1>2, TabSame DEF PageInv
<1>6. LogInv'
  BY <1>1, <1>2, <1>4, EndsEmpty DEF LogInv, EndsAt
<1>7. PanelInv'
  BY <1>1, <1>2, <1>4 DEF PanelInv, Good, EndsAt, Keeps
<1> QED BY <1>3, <1>5, <1>6, <1>7 DEF IInv

\* The page empties its panel.
LEMMA ClearAnsweredInv ==
    ASSUME IInv, ClearAnswered
    PROVE  IInv'
<1>1. TypeOK /\ TabInv /\ PageInv /\ LogInv /\ PanelInv
  BY DEF IInv
<1>2. /\ UNCHANGED <<hidden, stream, native, layout, attached, timer, lines,
                     heard, feed, history, subs, chan, handler, ended, missed>>
      /\ clearing' = "no" /\ text' = <<>> /\ blank' = lines
  BY DEF ClearAnswered, BesideClear
<1>3. TypeOK'
  <2>1. Log!BroadcasterTypeOK'
    BY <1>1, <1>2 DEF TypeOK, Log!BroadcasterTypeOK
  <2> QED BY <1>1, <1>2, <2>1 DEF TypeOK, Connected
<1>4. lines \in 0..MaxLines /\ ~(lines > lines) /\ lines \in 0..lines
  BY <1>1, StreamsAssumption DEF LogInv
<1>5. TabInv' /\ PageInv'
  BY <1>1, <1>2, TabSame DEF PageInv
<1>6. LogInv'
  BY <1>1, <1>2, <1>4 DEF LogInv, EndsAt
<1>7. PanelInv'
  <2> SUFFICES ASSUME NEW s \in Sources, stream'.source = s, handler'[s] = "streaming",
                      "top" \in attached', ~missed'
               PROVE  Good(s)'
    BY DEF PanelInv
  <2>1. EndsAt(chan[s].values, lines)
    BY <1>1, <1>2 DEF PanelInv, Good
  <2>2. ~(lines' > blank') /\ text' = <<>> /\ lines' = lines /\ chan' = chan
    BY <1>2, <1>4
  <2> QED BY <2>1, <2>2, EndsEmpty DEF Good, EndsAt
<1> QED BY <1>3, <1>5, <1>6, <1>7 DEF IInv

-----------------------------------------------------------------------------
(* The steps of the connection, the page and the user.                     *)

\* A step that ends with a closed stream and no handler.
LEMMA ClosingInv ==
    ASSUME IInv, NEW w, Closed(w), Set(w), hidden' \in BOOLEAN, UNCHANGED layout,
           attached' \subseteq Elements, timer' \in 0..128, text' \in Seq(1..MaxLines),
           Log!BroadcasterTypeOK', PageInv', LogInv',
           handler' \in [Sources -> Handler],
           \A s \in Sources : handler'[s] = "none",
           ended' \in {"no", "ending", "yes"}, clearing' \in {"no", "asked", "cleared"}
    PROVE  IInv'
<1>1. /\ stream' \in Stream /\ native' \in [Sources -> Source]
      /\ stream'.finished /\ stream'.source = None
      /\ \A s \in Sources : ~Connected(native', s)
      /\ TabInv'
  BY TabClosed
<1>2. TypeOK'
  BY <1>1, TypesFrame DEF IInv
<1>3. PanelInv'
  BY <1>1, StreamsAssumption DEF PanelInv
<1> QED BY <1>1, <1>2, <1>3 DEF IInv

LEMMA RetryClosed ==
    ASSUME NEW w, Closed(w), NEW n \in 0..128
    PROVE  Closed([w EXCEPT !.stream.retry = n])
<1>1. w \in Tabs /\ w.stream \in Stream
  BY DEF Closed, Tabs
<1> DEFINE v == [w EXCEPT !.stream.retry = n]
<1>2. /\ v.native = w.native /\ v.stream = [w.stream EXCEPT !.retry = n]
      /\ v = [stream |-> v.stream, native |-> v.native]
  BY <1>1 DEF Tabs
<1> HIDE DEF v
<1>3. /\ v.stream \in Stream /\ v.stream.finished = w.stream.finished
      /\ v.stream.source = w.stream.source /\ v.stream.state = w.stream.state
  BY <1>1, <1>2 DEF Stream
<1>4. v \in Tabs
  BY <1>1, <1>2, <1>3 DEF Tabs
<1> QED BY <1>2, <1>3, <1>4 DEF Closed, v

\* The connection that is there is the stream's.
LEMMA SourceIs ==
    ASSUME IInv, NEW s \in Sources, Connected(native, s)
    PROVE  /\ stream.source = s /\ s # None /\ ~stream.finished
           /\ Tab \in Tabs /\ Linked(Tab) /\ Registered(Tab)
           /\ heard => layout.listens["kid"] # {}
           /\ "top" \notin attached => ~layout.script
  BY TypeFacts, StreamsAssumption DEF IInv, TabInv, Linked, Tab, PageInv, Elements

LEMMA HeardOn ==
    ASSUME NoteHeard
    PROVE  heard' = (heard \/ "top" \notin attached)
  BY DEF NoteHeard

\* Handlers leave, and the channels stay or keep their type.
LEMMA LeaveTypes ==
    ASSUME TypeOK, LogInv, NEW keeping \in SUBSET Sources, HandlersLeave(keeping),
           UNCHANGED <<lines, blank>>, chan' \in [Sources -> Log!Channel]
    PROVE  Log!BroadcasterTypeOK'
  BY LogLeave, TypeFacts DEF Log!BroadcasterTypeOK

\* The tab is hidden or shown.
LEMMA FlipInv ==
    ASSUME IInv, Flip
    PROVE  IInv'
<1> DEFINE w == Sync(Tab, hidden')
<1>1. TypeOK /\ TabInv /\ PageInv /\ LogInv /\ PanelInv
  BY DEF IInv
<1>2. /\ Unused(Tab) # {} /\ hidden' = ~hidden /\ Set(w)
      /\ HandlersLeave(StillConnected) /\ StillConnected \in SUBSET Sources
      /\ UNCHANGED <<layout, attached, timer, text, chan, clearing, lines, blank, missed, heard>>
  BY DEF Flip, pageVars, StillConnected
<1>3. /\ Tab \in Tabs /\ Linked(Tab) /\ Registered(Tab) /\ Tab.stream = stream
      /\ hidden' \in BOOLEAN
  BY <1>1, <1>2, TypeFacts DEF TabInv, Tab, TypeOK
<1>4. /\ w \in Tabs /\ Linked(w) /\ Kept(Tab, w)
      /\ hidden' => w.stream.source = None
      /\ stream.source # None /\ w.stream.source # None => w = Tab
  BY <1>2, <1>3, SyncFacts
<1>5. Registered(w)
  BY <1>3, <1>4, KeptRegistered
<1> HIDE DEF w
<1>6. /\ Linked(Tab)' /\ Registered(Tab)' /\ stream' = w.stream /\ native' = w.native
      /\ stream' \in Stream /\ native' \in [Sources -> Source]
  BY <1>2, <1>4, <1>5, TabMoved DEF Set
<1>7. TabInv'
  BY <1>1, <1>2, <1>3, <1>4, <1>6 DEF TabInv, Kept
<1>8. /\ LogInv'
      /\ handler' \in [Sources -> Handler]
      /\ UNCHANGED <<feed, history, ended>>
      /\ \A s \in Sources : handler'[s] # "none" => s \in StillConnected /\ handler'[s] = handler[s]
  BY <1>1, <1>2, LogLeave
<1>9. Log!BroadcasterTypeOK'
  <2>1. chan' \in [Sources -> Log!Channel]
    BY <1>1, <1>2, TypeFacts
  <2> QED BY <1>1, <1>2, <2>1, LeaveTypes
<1>10. TypeOK'
  <2>1. stream'.finished => stream'.source = None
    BY <1>6 DEF Linked, Tab
  <2>2. \A s \in Sources : handler'[s] # "none" => Connected(native', s)
    BY <1>8 DEF StillConnected
  <2> QED BY <1>1, <1>2, <1>3, <1>6, <1>8, <1>9, <2>1, <2>2, TypesFrame DEF TypeOK
<1>11. PageInv'
  BY <1>1, <1>2, <1>8, PageSame
<1>12. PanelInv'
  <2> SUFFICES ASSUME NEW s \in Sources, stream'.source = s, handler'[s] = "streaming",
                      "top" \in attached', ~missed'
               PROVE  Good(s)'
    BY DEF PanelInv
  <2>1. handler[s] = "streaming" /\ Connected(native, s)
    BY <1>1, <1>8 DEF TypeOK
  <2>2. stream.source = s /\ s # None
    BY <2>1, SourceIs
  <2>3. native' = native /\ Good(s)
    BY <1>1, <1>2, <1>3, <1>4, <1>6, <2>1, <2>2 DEF PanelInv, Tab
  <2> QED BY <1>2, <2>3 DEF Good, EndsAt, Keeps
<1> QED BY <1>7, <1>8, <1>10, <1>11, <1>12 DEF IInv

\* The timeout of a stream that was refused.
LEMMA TimerInv ==
    ASSUME IInv, Timer
    PROVE  IInv'
<1> DEFINE w == EnsureEventSourceOnElement(native, timer, hidden)
<1>1. TypeOK /\ TabInv /\ PageInv /\ LogInv /\ PanelInv
  BY DEF IInv
<1>2. /\ timer # NoTimer /\ timer' = NoTimer /\ Unused(Tab) # {} /\ Set(w) /\ heard' = FALSE
      /\ UNCHANGED <<hidden, layout, attached, text, feed, history, subs, chan, handler, ended,
                     clearing, lines, blank, missed>>
  BY DEF Timer, TimerEvent, serverVars
<1>3. /\ stream.source = None /\ ~layout.script /\ \A s \in Sources : ~Connected(native, s)
  BY <1>1, <1>2, StreamsAssumption DEF TabInv, Linked, Tab, PageInv
<1>4. Idle(native) /\ timer \in 0..128 /\ hidden \in BOOLEAN
  BY <1>1, <1>2, <1>3 DEF Idle, TypeOK, Unused, Tab
<1>5. /\ Begun(w, timer, hidden) /\ TopHears(w)
      /\ \A t \in Types, o \in {"kid", "trigger"} : w.stream.listeners[t][o] = 0
  BY <1>1, <1>3, <1>4, EnsureFacts
<1> HIDE DEF w
<1>6. Registered(w) /\ w \in Tabs /\ Linked(w)
  BY <1>2, <1>5 DEF Registered, KidHears, NoTimer, Begun
<1>7. /\ Linked(Tab)' /\ Registered(Tab)' /\ stream' = w.stream /\ native' = w.native
      /\ stream' \in Stream /\ native' \in [Sources -> Source]
  BY <1>2, <1>6, TabMoved DEF Set
<1>8. TabInv'
  BY <1>2, <1>5, <1>7 DEF TabInv, Begun
<1>9. \A s \in Sources : handler'[s] = "none"
  BY <1>1, <1>2, <1>3 DEF TypeOK
<1>10. TypeOK'
  <2>1. Log!BroadcasterTypeOK' /\ NoTimer \in 0..128
    BY <1>1, <1>2 DEF TypeOK, Log!BroadcasterTypeOK, NoTimer
  <2> QED BY <1>1, <1>2, <1>5, <1>7, <1>9, <2>1, TypesFrame DEF TypeOK, Begun
<1>11. PageInv' /\ LogInv'
  BY <1>1, <1>2, LogSame DEF PageInv
<1>12. PanelInv'
  BY <1>9 DEF PanelInv
<1> QED BY <1>8, <1>10, <1>11, <1>12 DEF IInv

\* The connection is lost; the stream of an element that is gone is closed.
LEMMA LoseInv ==
    ASSUME IInv, NEW s \in Sources, Lose(s)
    PROVE  IInv'
<1> DEFINE w == Lost(s)
<1>1. TypeOK /\ TabInv /\ PageInv /\ LogInv /\ PanelInv
  BY DEF IInv
<1>2. /\ Connected(native, s) /\ Set(IF layout.script THEN w ELSE OnError(w))
      /\ heard' = (heard \/ "top" \notin attached) /\ HandlersLeave({})
      /\ UNCHANGED <<hidden, layout, attached, timer, text, chan, clearing, lines, blank, missed>>
  BY DEF Lose, LostEvent, NoteHeard, pageVars
<1>3. /\ stream.source = s /\ s # None /\ ~stream.finished
      /\ Tab \in Tabs /\ Linked(Tab) /\ Registered(Tab)
      /\ heard => layout.listens["kid"] # {}
      /\ "top" \notin attached => ~layout.script
  BY <1>2, SourceIs
<1>4. w \in Tabs /\ Linked(w) /\ Registered(w) /\ w.stream = [stream EXCEPT !.state = "connecting"]
  BY <1>3, LostFacts
<1>5. /\ LogInv' /\ UNCHANGED <<feed, history, ended>>
      /\ handler' \in [Sources -> Handler]
      /\ \A x \in Sources : handler'[x] = "none"
  BY <1>1, <1>2, LogLeave
<1>6. Log!BroadcasterTypeOK' /\ PageInv'
  <2>1. chan' \in [Sources -> Log!Channel]
    BY <1>1, <1>2, TypeFacts
  <2> QED BY <1>1, <1>2, <1>5, <2>1, LeaveTypes, PageSame
<1>7. /\ hidden' \in BOOLEAN /\ attached' \subseteq Elements /\ timer' \in 0..128
      /\ text' \in Seq(1..MaxLines) /\ ended' \in {"no", "ending", "yes"}
      /\ clearing' \in {"no", "asked", "cleared"}
  BY <1>1, <1>2, <1>5 DEF TypeOK
<1> HIDE DEF w
<1>8. CASE "top" \notin attached
  <2>1. Closed(Close(w)) /\ Set(Close(w))
    BY <1>2, <1>3, <1>4, <1>8, LinkedFacts, CloseFacts DEF OnError
  <2> QED BY <1>2, <1>5, <1>6, <1>7, <2>1, ClosingInv
<1>9. CASE "top" \in attached
  <2>1. Set(w)
    BY <1>2, <1>9 DEF OnError
  <2>2. /\ Linked(Tab)' /\ Registered(Tab)' /\ stream' \in Stream /\ native' \in [Sources -> Source]
        /\ stream' = w.stream
    BY <1>2, <1>4, <2>1, TabMoved DEF Set
  <2>3. ~hidden /\ timer = NoTimer /\ (heard' => heard)
    BY <1>1, <1>2, <1>3, <1>9 DEF TabInv
  <2>4. TabInv'
    BY <1>2, <1>3, <2>2, <2>3 DEF TabInv
  <2>5. stream'.finished => stream'.source = None
    BY <2>2 DEF Linked, Tab
  <2>6. TypeOK'
    BY <1>1, <1>2, <1>5, <1>6, <1>7, <2>2, <2>5, TypesFrame
  <2>7. PanelInv'
    BY <1>5 DEF PanelInv
  <2> QED BY <1>5, <1>6, <2>4, <2>6, <2>7 DEF IInv
<1> QED BY <1>8, <1>9

\* The connection is refused: the stream is finished, and perhaps tried again.
LEMMA RefusedInv ==
    ASSUME IInv, NEW s \in Sources, native[s].state = "connecting", RefusedEvent(s),
           handler' = [handler EXCEPT ![s] = "none"], Log!BroadcasterTypeOK',
           UNCHANGED <<hidden, layout, attached, text, feed, history, subs, ended, clearing, lines,
                       blank, missed>>
    PROVE  IInv'
<1> DEFINE w == Refused(s)
           u == OnError(w)
           n == IF RetryAfter(w) = NoTimer THEN u.stream.retry ELSE RetryAfter(w)
<1>1. TypeOK /\ TabInv /\ PageInv /\ LogInv /\ PanelInv
  BY DEF IInv
<1>2. IF layout.script THEN Set(w) /\ UNCHANGED timer
      ELSE Set([u EXCEPT !.stream.retry = n]) /\ timer' = RetryAfter(w)
  BY DEF RefusedEvent, RetryAfter
<1>3. Connected(native, s)
  BY DEF Connected
<1>4. /\ stream.source = s /\ Tab \in Tabs /\ Linked(Tab)
  BY <1>3, SourceIs
<1>5. Closed(w) /\ w.stream.retry = stream.retry /\ stream.retry \in 0..128
  BY <1>1, <1>4, RefusedFacts DEF TypeOK, Stream
<1> HIDE DEF w
<1>6. RetryAfter(w) \in 0..128
  <2>1. NextRetry(stream.retry) \in 0..128
    BY <1>5 DEF NextRetry
  <2> QED BY <1>5, <2>1 DEF RetryAfter, NoTimer
<1>7. Closed(u) /\ u.stream.retry = stream.retry
  BY <1>5, CloseFacts DEF OnError, Closed
<1> HIDE DEF u
<1>8. Closed([u EXCEPT !.stream.retry = n])
  <2>1. n \in 0..128
    BY <1>5, <1>6, <1>7
  <2> HIDE DEF n
  <2> QED BY <1>7, <2>1, RetryClosed
<1>9. handler' \in [Sources -> Handler] /\ \A x \in Sources : handler'[x] = "none"
  <2>1. handler \in [Sources -> Handler] /\ \A x \in Sources : handler[x] # "none" => x = s
    BY <1>1, <1>4 DEF TypeOK, Linked, Tab
  <2> QED BY <2>1 DEF Handler
<1>10. \E v : Closed(v) /\ Set(v)
  BY <1>2, <1>5, <1>8
<1>11. timer' \in 0..128
  BY <1>1, <1>2, <1>6 DEF TypeOK
<1>12. LogInv'
  BY <1>1, <1>9 DEF LogInv, EndsAt
<1>13. PageInv'
  BY <1>1, <1>2 DEF PageInv
<1> HIDE DEF n
<1> QED BY <1>1, <1>2, <1>9, <1>10, <1>11, <1>12, <1>13, ClosingInv DEF TypeOK

LEMMA RefuseInv ==
    ASSUME IInv, NEW s \in Sources, Refuse(s) \/ Panic(s)
    PROVE  IInv'
<1>1. TypeOK /\ handler \in [Sources -> Handler] /\ chan \in [Sources -> Log!Channel]
  BY TypeFacts DEF IInv, TypeOK
<1>2. /\ native[s].state = "connecting" /\ RefusedEvent(s)
      /\ UNCHANGED <<hidden, layout, attached, text, feed, history, subs, ended, clearing, lines,
                     blank, missed>>
      /\ chan' = chan \/ chan' = [chan EXCEPT ![s] = Log!NoChannel]
  BY DEF Refuse, Panic, serverVars
<1>3. handler' = [handler EXCEPT ![s] = "none"]
  BY <1>1 DEF Refuse, Panic, serverVars
<1>4. Log!BroadcasterTypeOK'
  <2>1. Log!NoChannel \in Log!Channel
    BY DEF Log!NoChannel, Log!Channel
  <2> QED BY <1>1, <1>2, <2>1 DEF TypeOK, Log!BroadcasterTypeOK
<1> QED BY <1>2, <1>3, <1>4, RefusedInv

\* htmx takes the element out of the page.
LEMMA CleanupInv ==
    ASSUME IInv, Cleanup
    PROVE  IInv'
<1>1. TypeOK /\ TabInv /\ PageInv /\ LogInv /\ PanelInv
  BY DEF IInv
<1>2. /\ ~layout.script /\ attached' = attached \ {"top"} /\ Set(Close(Tab))
      /\ HandlersLeave(StillConnected) /\ StillConnected \in SUBSET Sources
      /\ UNCHANGED <<hidden, layout, timer, text, chan, clearing, lines, blank, missed, heard>>
  BY DEF Cleanup, CleanupEvent, StillConnected
<1>3. Tab \in Tabs /\ Linked(Tab)
  BY <1>1, TypeFacts DEF TabInv
<1>4. Closed(Close(Tab))
  BY <1>3, LinkedFacts, CloseFacts
<1>5. \A s \in Sources : ~Connected(native', s)
  BY <1>2, <1>4, TabClosed
<1>6. /\ LogInv' /\ UNCHANGED <<feed, history, ended>>
      /\ handler' \in [Sources -> Handler]
      /\ \A x \in Sources : handler'[x] = "none"
  BY <1>1, <1>2, <1>5, LogLeave DEF StillConnected
<1>7. Log!BroadcasterTypeOK'
  <2>1. chan' \in [Sources -> Log!Channel]
    BY <1>1, <1>2, TypeFacts
  <2> QED BY <1>1, <1>2, <2>1, LeaveTypes
<1>8. PageInv'
  BY <1>1, <1>2, <1>6 DEF PageInv
<1> QED BY <1>1, <1>2, <1>4, <1>6, <1>7, <1>8, ClosingInv DEF TypeOK

\* An element goes that htmx does not clean up: the stream does not know.
LEMMA GoneInv ==
    ASSUME IInv, RemovePanel \/ RemoveKid
    PROVE  IInv'
<1>1. TypeOK /\ TabInv /\ PageInv /\ LogInv /\ PanelInv
  BY DEF IInv
<1>2. /\ attached' \subseteq attached
      /\ UNCHANGED <<hidden, stream, native, layout, timer, text, feed, history, subs, chan, handler,
                     ended, clearing, lines, blank, missed, heard>>
  BY DEF RemovePanel, RemoveEvent, RemoveKid, KidGone, serverVars
<1>3. ~layout.script
  BY <1>1, LayoutFacts DEF RemovePanel, RemoveEvent, RemoveKid
<1>4. TypeOK'
  <2>1. Log!BroadcasterTypeOK'
    BY <1>1, <1>2 DEF TypeOK, Log!BroadcasterTypeOK
  <2> QED BY <1>1, <1>2, <2>1 DEF TypeOK, Connected
<1>5. TabInv'
  <2>1. Linked(Tab)' /\ Registered(Tab)'
    BY <1>1, <1>2 DEF TabInv, Linked, Registered, TopHears, KidHears, Asked, AsksFor, Connected, Tab
  <2> QED BY <1>1, <1>2, <2>1 DEF TabInv
<1>6. PageInv' /\ LogInv'
  BY <1>1, <1>2, <1>3, LogSame DEF PageInv
<1>7. PanelInv'
  BY <1>1, <1>2 DEF PanelInv, Good, EndsAt, Keeps
<1> QED BY <1>4, <1>5, <1>6, <1>7 DEF IInv

\* The answer is there: the panel starts empty.
LEMMA OpenInv ==
    ASSUME IInv, NEW s \in Sources, Open(s)
    PROVE  IInv'
<1> DEFINE w == IF layout.script THEN Opened(s) ELSE OnOpen(Opened(s))
<1>1. TypeOK /\ TabInv /\ PageInv /\ LogInv /\ PanelInv
  BY DEF IInv
<1>2. /\ native[s].state = "connecting" /\ handler[s] = "streaming" /\ Set(w)
      /\ text' = IF layout.script \/ (layout.replay /\ "top" \in attached) THEN <<>> ELSE text
      /\ UNCHANGED <<hidden, layout, attached, timer, feed, history, subs, chan, handler, ended,
                     clearing, lines, blank, missed, heard>>
  BY DEF Open, OpenEvent, serverVars
<1>3. /\ stream.source = s /\ s # None /\ ~stream.finished
      /\ Tab \in Tabs /\ Linked(Tab) /\ Registered(Tab)
      /\ heard => layout.listens["kid"] # {}
  BY <1>2, SourceIs DEF Connected
<1>4. /\ w \in Tabs /\ Linked(w) /\ Registered(w) /\ w.stream.source = s
      /\ \A x \in Sources : w.native[x].state = IF x = s THEN "open" ELSE native[x].state
  <2>1. CASE layout.script
    <3> DEFINE v == Opened(s)
    <3>1. /\ v \in Tabs /\ Linked(v) /\ v.stream = [stream EXCEPT !.state = "open"]
          /\ \A x \in Sources : v.native[x].state = IF x = s THEN "open" ELSE native[x].state
      BY <1>3, OpenedFacts
    <3> HIDE DEF v
    <3>2. v.stream.source = s /\ Registered(v)
      BY <1>1, <1>3, <2>1, <3>1 DEF TypeOK, Stream, Registered
    <3> QED BY <2>1, <3>1, <3>2 DEF v
  <2>2. CASE ~layout.script
    BY <1>1, <1>3, <2>2, OnOpenFacts
  <2> QED BY <2>1, <2>2
<1> HIDE DEF w
<1>5. /\ Linked(Tab)' /\ Registered(Tab)' /\ stream' = w.stream /\ native' = w.native
      /\ stream' \in Stream /\ native' \in [Sources -> Source]
  BY <1>2, <1>4, TabMoved DEF Set
<1>6. ~hidden /\ timer = NoTimer
  BY <1>1, <1>3 DEF TabInv
<1>7. TabInv'
  BY <1>2, <1>3, <1>5, <1>6 DEF TabInv
<1>8. TypeOK'
  <2>0. text \in Seq(1..MaxLines) /\ <<>> \in Seq(1..MaxLines)
    BY <1>1 DEF TypeOK
  <2>1. Log!BroadcasterTypeOK' /\ text' \in Seq(1..MaxLines)
    BY <1>1, <1>2, <2>0 DEF TypeOK, Log!BroadcasterTypeOK
  <2>2. stream'.finished => stream'.source = None
    BY <1>5 DEF Linked, Tab
  <2>3. \A x \in Sources : handler'[x] # "none" => Connected(native', x)
    BY <1>1, <1>2, <1>4, <1>5 DEF TypeOK, Connected
  <2> QED BY <1>1, <1>2, <1>5, <2>1, <2>2, <2>3, TypesFrame DEF TypeOK
<1>9. PageInv' /\ LogInv'
  BY <1>1, <1>2, PageSame, LogSame
<1>10. PanelInv'
  <2> SUFFICES ASSUME NEW x \in Sources, stream'.source = x, "top" \in attached', ~missed'
               PROVE  Good(x)'
    BY DEF PanelInv
  <2>1. x = s /\ Good(s) /\ native[s].state # "open"
    BY <1>1, <1>2, <1>3, <1>4, <1>5 DEF PanelInv
  <2>2. Keeps' => text' = <<>>
    BY <1>2 DEF Keeps
  <2>3. EndsAt(chan'[x].values, lines') /\ (Keeps' /\ lines' > blank' => chan'[x].values # <<>>)
    BY <1>2, <2>1 DEF Good, Keeps
  <2> QED BY <2>2, <2>3, EndsEmpty DEF Good, EndsAt, Keeps
<1> QED BY <1>7, <1>8, <1>9, <1>10 DEF IInv

\* A line is swapped in as often as elements in the page listen; once, where a panel
\* is replayed.
LEMMA SwappedFacts ==
    ASSUME TypeOK, PageInv, TabInv, ~layout.script, ~stream.finished,
           NEW type \in Types, NEW line \in 1..MaxLines
    PROVE  /\ Swapped(type, line) \in Seq(1..MaxLines)
           /\ layout.replay /\ type = "message" /\ "top" \in attached =>
                 Swapped(type, line) = Append(text, line)
<1> DEFINE copies(e) == IF BodyContains(e) THEN stream.listeners[type][e] ELSE 0
           shown == copies("top") + copies("kid")
           more == [i \in 1..shown |-> line]
<1>1. stream.listeners[type]["top"] \in Nat /\ stream.listeners[type]["kid"] \in Nat
  BY DEF TypeOK, Stream, Owners
<1>2. shown \in Nat
  BY <1>1
<1>3. Swapped(type, line) = IF layout.appends THEN text \o more
                            ELSE IF shown = 0 THEN text ELSE <<line>>
  BY DEF Swapped
<1>4. more \in Seq(1..MaxLines) /\ text \in Seq(1..MaxLines)
  <2> HIDE DEF shown
  <2>1. more \in [1..shown -> 1..MaxLines]
    OBVIOUS
  <2> QED BY <1>2, <2>1 DEF TypeOK
<1>5. ASSUME layout.replay, type = "message", "top" \in attached
      PROVE  Swapped(type, line) = Append(text, line)
  <2>1. layout.appends /\ "message" \in layout.listens["top"] /\ layout.listens["kid"] = {}
    BY <1>5, LayoutFacts
  <2>2. TopHears(Tab) /\ ("kid" \in attached => KidHears(Tab)) /\ Tab.stream = stream
    BY DEF TabInv, Registered, Tab
  <2>3. stream.listeners[type]["top"] = 1
    BY <1>5, <2>1, <2>2 DEF TopHears, Asked, AsksFor
  <2>4. "kid" \in attached => stream.listeners[type]["kid"] = 0
    BY <1>5, <2>1, <2>2 DEF KidHears, Asked, AsksFor
  <2>5. copies("top") = 1 /\ copies("kid") = 0
    BY <1>5, <2>3, <2>4 DEF BodyContains
  <2>6. shown = 1
    BY <2>5
  <2> HIDE DEF shown
  <2>7. more = <<line>>
    BY <2>6
  <2>8. Append(text, line) = text \o <<line>>
    BY <1>4, AppendIsConcat
  <2> HIDE DEF more
  <2> QED BY <1>3, <2>1, <2>7, <2>8
<1>6. Swapped(type, line) \in Seq(1..MaxLines)
  <2> HIDE DEF more, shown
  <2>1. text \o more \in Seq(1..MaxLines)
    BY <1>4, ConcatProperties
  <2>2. <<line>> \in Seq(1..MaxLines)
    OBVIOUS
  <2> QED BY <1>3, <1>4, <2>1, <2>2
<1> QED BY <1>5, <1>6

\* A line comes: it goes from the channel to the panel, unless nobody in the page
\* listens any more, which closes the stream.
LEMMA DeliverInv ==
    ASSUME IInv, NEW s \in Sources, Deliver(s)
    PROVE  IInv'
<1> DEFINE q == chan[s].values
           w == Hear(Tab, EventType)
           unheard == EventType \notin BuiltIn /\ EventType \notin native[s].types
<1>1. TypeOK /\ TabInv /\ PageInv /\ LogInv /\ PanelInv
  BY DEF IInv
<1>2. /\ native[s].state = "open" /\ q # <<>>
      /\ chan' = [chan EXCEPT ![s].values = Tail(@)]
      /\ heard' = (heard \/ "top" \notin attached)
      /\ HandlersLeave(StillConnected) /\ StillConnected \in SUBSET Sources
      /\ LineEvent(s, EventType, Head(q))
      /\ UNCHANGED <<hidden, layout, attached, timer, clearing, lines, blank, missed>>
  BY DEF Deliver, NoteHeard, StillConnected
<1>3. /\ stream.source = s /\ s # None /\ ~stream.finished
      /\ Tab \in Tabs /\ Linked(Tab) /\ Registered(Tab)
      /\ heard => layout.listens["kid"] # {}
      /\ "top" \notin attached => ~layout.script
  BY <1>2, SourceIs DEF Connected
<1>4. /\ LogInv' /\ UNCHANGED <<feed, history, ended>>
      /\ handler' \in [Sources -> Handler]
      /\ \A x \in Sources : handler'[x] # "none" => Connected(native', x) /\ handler'[x] = handler[x]
  BY <1>1, <1>2, LogLeave DEF StillConnected
<1>5. /\ q \in Seq(1..MaxLines) /\ q \in Seq(Nat) /\ chan \in [Sources -> Log!Channel]
      /\ lines \in Nat /\ EventType \in Types
  BY <1>1, TypeFacts, LayoutFacts, StreamsAssumption DEF LogInv
<1>6. Head(q) \in 1..MaxLines /\ Tail(q) \in Seq(1..MaxLines)
  <2> HIDE DEF q
  <2> QED BY <1>2, <1>5, EmptySeq, HeadTailProperties
<1>7. chan' \in [Sources -> Log!Channel] /\ chan'[s].values = Tail(q)
  <2>1. chan[s] \in Log!Channel /\ q = chan[s].values
    BY <1>5
  <2> DEFINE c == [chan[s] EXCEPT !.values = Tail(q)]
  <2>2. chan' = [chan EXCEPT ![s] = c]
    BY <1>2
  <2> HIDE DEF q
  <2>3. c \in Log!Channel /\ c.values = Tail(q)
    BY <1>6, <2>1 DEF Log!Channel
  <2> HIDE DEF c
  <2> QED BY <1>5, <2>2, <2>3
<1>8. Log!BroadcasterTypeOK' /\ PageInv'
  BY <1>1, <1>2, <1>4, <1>7, LeaveTypes, PageSame
<1>9. /\ hidden' \in BOOLEAN /\ attached' \subseteq Elements /\ timer' \in 0..128
      /\ ended' \in {"no", "ending", "yes"} /\ clearing' \in {"no", "asked", "cleared"}
  BY <1>1, <1>2, <1>4 DEF TypeOK
<1>10. ~hidden /\ timer = NoTimer
  BY <1>1, <1>3 DEF TabInv
<1>11. ASSUME "top" \in attached, ~missed, handler[s] = "streaming"
       PROVE  /\ EndsAt(Tail(q), lines)
              /\ Keeps => EndsAt(Append(text, Head(q)), lines - Len(Tail(q)))
  <2>1. Good(s)
    BY <1>1, <1>3, <1>11 DEF PanelInv
  <2>2. EndsAt(q, lines) /\ (Keeps => EndsAt(text, lines - Len(q)))
    BY <1>2, <2>1 DEF Good
  <2> HIDE DEF q
  <2>3. /\ EndsAt(Tail(q), lines) /\ Len(Tail(q)) = Len(q) - 1
        /\ Head(q) = (lines - Len(q)) + 1
    BY <1>2, <1>5, <2>2, EndsTail
  <2>4. Keeps => EndsAt(Append(text, (lines - Len(q)) + 1), (lines - Len(q)) + 1)
    <3>1. text \in Seq(Nat) /\ lines - Len(q) \in Int
      BY <1>1, <1>5, TypeFacts
    <3> QED BY <2>2, <3>1, EndsAppend
  <2>5. lines - Len(Tail(q)) = (lines - Len(q)) + 1
    <3> DEFINE n == Len(q)
               m == Len(Tail(q))
    <3>1. n \in Nat /\ lines \in Nat /\ m = n - 1
      BY <1>5, <2>3
    <3>2. lines - m = (lines - n) + 1
      <4> HIDE DEF n, m
      <4> QED BY <3>1
    <3> QED BY <3>2
  <2> QED BY <2>3, <2>4, <2>5
<1> HIDE DEF w, q
<1>12. CASE unheard
  <2>1. UNCHANGED <<stream, native, text>>
    BY <1>2, <1>12 DEF LineEvent
  <2>2. ~Keeps /\ layout.listens["kid"] # {}
    BY <1>1, <1>12, LayoutFacts DEF BuiltIn, Keeps
  <2>3. TabInv'
    <3>1. Tab' = Tab
      BY <2>1 DEF Tab
    <3>2. Linked(Tab)' /\ Registered(Tab)'
      BY <1>2, <1>3, <3>1 DEF Linked, Registered, TopHears, KidHears, Asked, AsksFor, Connected
    <3> QED BY <1>1, <1>2, <2>1, <2>2, <3>2 DEF TabInv
  <2>4. TypeOK'
    BY <1>1, <1>2, <1>4, <1>8, <1>9, <2>1, TypesFrame DEF TypeOK
  <2>5. PanelInv'
    <3> SUFFICES ASSUME NEW x \in Sources, stream'.source = x, handler'[x] = "streaming",
                        "top" \in attached', ~missed'
                 PROVE  Good(x)'
      BY DEF PanelInv
    <3>1. x = s /\ handler[s] = "streaming" /\ ~Keeps'
      BY <1>2, <1>3, <1>4, <2>1, <2>2 DEF Keeps
    <3>2. EndsAt(Tail(q), lines)
      BY <1>2, <1>11, <3>1
    <3> QED BY <1>2, <1>7, <3>1, <3>2 DEF Good, EndsAt
  <2> QED BY <1>4, <1>8, <2>3, <2>4, <2>5 DEF IInv
<1>13. CASE ~unheard
  <2>1. /\ Set(w)
        /\ text' = IF layout.script THEN Append(text, Head(q)) ELSE Swapped(EventType, Head(q))
    BY <1>2, <1>3, <1>13 DEF LineEvent, Heeded, w
  <2>2. text' \in Seq(1..MaxLines)
    <3>1. Append(text, Head(q)) \in Seq(1..MaxLines)
      BY <1>1, <1>6, TypeFacts
    <3>2. ~layout.script => Swapped(EventType, Head(q)) \in Seq(1..MaxLines)
      BY <1>1, <1>3, <1>5, <1>6, SwappedFacts
    <3> QED BY <2>1, <3>1, <3>2
  <2>3. CASE Closed(w)
    <3>1. \A x \in Sources : handler'[x] = "none"
      BY <1>4, <2>1, <2>3, TabClosed
    <3> QED BY <1>2, <1>4, <1>8, <1>9, <2>1, <2>2, <2>3, <3>1, ClosingInv
  <2>4. CASE ~Closed(w)
    <3>1. /\ w \in Tabs /\ Linked(w) /\ Registered(w) /\ w.native = native
          /\ w.stream.source = s /\ ~w.stream.finished
          /\ ~layout.script /\ EventType \in layout.listens["top"] => "top" \in attached
      BY <1>1, <1>3, <1>5, <2>4, HearFacts DEF w
    <3>2. /\ Linked(Tab)' /\ Registered(Tab)' /\ stream' = w.stream /\ native' = w.native
          /\ stream' \in Stream /\ native' \in [Sources -> Source]
      BY <1>2, <2>1, <3>1, TabMoved DEF Set
    <3>3. heard' => layout.listens["kid"] # {}
      <4>1. ~layout.script /\ layout.listens["kid"] = {} => EventType \in layout.listens["top"]
        BY <1>1, LayoutFacts
      <4> QED BY <1>2, <1>3, <3>1, <4>1
    <3>4. TabInv'
      BY <1>2, <1>10, <3>2, <3>3 DEF TabInv
    <3>5. TypeOK'
      BY <1>1, <1>2, <1>4, <1>8, <1>9, <2>2, <3>1, <3>2, TypesFrame
    <3>6. PanelInv'
      <4> SUFFICES ASSUME NEW x \in Sources, stream'.source = x, handler'[x] = "streaming",
                          "top" \in attached', ~missed'
                   PROVE  Good(x)'
        BY DEF PanelInv
      <4>1. x = s /\ handler[s] = "streaming" /\ "top" \in attached /\ ~missed
        BY <1>2, <1>4, <3>1, <3>2
      <4>2. Keeps => text' = Append(text, Head(q))
        <5>1. layout.replay => EventType = "message" /\ ~layout.script
          BY <1>1, LayoutFacts
        <5> QED BY <1>1, <1>3, <1>5, <1>6, <2>1, <4>1, <5>1, SwappedFacts DEF Keeps
      <4>3. Append(text, Head(q)) # <<>>
        <5>1. text \in Seq(1..MaxLines)
          BY <1>1, TypeFacts
        <5> QED BY <5>1
      <4>4. EndsAt(Tail(q), lines) /\ (Keeps => EndsAt(text', lines - Len(Tail(q))) /\ text' # <<>>)
        BY <1>11, <4>1, <4>2, <4>3
      <4>5. native'[x].state = "open" /\ chan'[x].values = Tail(q) /\ lines' = lines /\ Keeps' = Keeps
        BY <1>2, <1>7, <3>1, <3>2, <4>1 DEF Keeps
      <4> QED BY <4>4, <4>5 DEF Good, EndsAt
    <3> QED BY <1>4, <1>8, <3>4, <3>5, <3>6 DEF IInv
  <2> QED BY <2>3, <2>4
<1> QED BY <1>12, <1>13

\* "done" closes the stream, whoever hears it before.
LEMMA DoneCloses ==
    ASSUME IInv, NEW s \in Sources, native[s].state = "open"
    PROVE  Closed(Close(Hear(Tab, "done")))
<1> DEFINE w == Hear(Tab, "done")
<1>1. /\ stream.source = s /\ Tab \in Tabs /\ Linked(Tab) /\ Registered(Tab)
      /\ PageInv /\ "done" \in Types
  BY SourceIs DEF Connected, IInv, Types
<1>2. Closed(w) \/ (w \in Tabs /\ Linked(w))
  BY <1>1, HearFacts
<1> HIDE DEF w
<1>3. w \in Tabs /\ \A x \in Sources : Connected(w.native, x) => w.stream.source = x
  BY <1>2, LinkedFacts DEF Closed
<1> QED BY <1>3, CloseFacts DEF w

\* The log has ended, and the reader has read it all.
LEMMA DoneInv ==
    ASSUME IInv, NEW s \in Sources, Done(s)
    PROVE  IInv'
<1> DEFINE w == Hear(Tab, "done")
<1>1. TypeOK /\ TabInv /\ PageInv /\ LogInv /\ PanelInv
  BY DEF IInv
<1>2. /\ native[s].state = "open" /\ Set(Close(w))
      /\ HandlersLeave(StillConnected) /\ StillConnected \in SUBSET Sources
      /\ UNCHANGED <<hidden, layout, attached, timer, text, chan, clearing, lines, blank, missed,
                     heard>>
  BY DEF Done, DoneEvent, pageVars, StillConnected
<1>3. Closed(Close(w))
  BY <1>2, DoneCloses
<1> HIDE DEF w
<1>4. \A x \in Sources : ~Connected(native', x)
  BY <1>2, <1>3, TabClosed
<1>5. /\ LogInv' /\ UNCHANGED <<feed, history, ended>>
      /\ handler' \in [Sources -> Handler]
      /\ \A x \in Sources : handler'[x] = "none"
  BY <1>1, <1>2, <1>4, LogLeave DEF StillConnected
<1>6. Log!BroadcasterTypeOK' /\ PageInv'
  <2>1. chan' \in [Sources -> Log!Channel]
    BY <1>1, <1>2, TypeFacts
  <2> QED BY <1>1, <1>2, <1>5, <2>1, LeaveTypes, PageSame
<1> QED BY <1>1, <1>2, <1>3, <1>5, <1>6, ClosingInv DEF TypeOK

\* A line of a source that is no longer the stream's changes nothing in the page.
LEMMA LateInv ==
    ASSUME IInv, NEW s \in Sources, Late(s)
    PROVE  IInv'
<1>1. TypeOK /\ TabInv /\ PageInv /\ LogInv /\ PanelInv
  BY DEF IInv
<1>2. /\ native[s].state = "late"
      /\ native' = [native EXCEPT ![s] = NoSource]
      /\ chan' = [chan EXCEPT ![s] = Log!NoChannel]
      /\ UNCHANGED <<hidden, stream, layout, attached, timer, feed, history, subs, handler, ended,
                     clearing, lines, blank, missed, heard>>
  BY DEF Late
<1>3. /\ ~Connected(native, s) /\ stream.source # s
      /\ native \in [Sources -> Source] /\ chan \in [Sources -> Log!Channel]
  BY <1>1, <1>2, TypeFacts DEF TabInv, Linked, Tab, Connected, TypeOK
<1>4. text' = text
  BY <1>3 DEF Late, Heeded
<1>5. /\ native' \in [Sources -> Source] /\ ~Connected(native', s)
      /\ \A x \in Sources \ {s} : native'[x] = native[x]
  <2>1. NoSource \in Source /\ NoSource.state = "none"
    BY DEF NoSource, Source
  <2> QED BY <1>2, <1>3, <2>1 DEF Connected
<1>6. chan' \in [Sources -> Log!Channel] /\ \A x \in Sources \ {s} : chan'[x] = chan[x]
  <2>1. Log!NoChannel \in Log!Channel
    BY DEF Log!NoChannel, Log!Channel
  <2> QED BY <1>2, <1>3, <2>1
<1>7. TypeOK'
  <2>1. Log!BroadcasterTypeOK'
    BY <1>1, <1>2, <1>6 DEF TypeOK, Log!BroadcasterTypeOK
  <2>2. \A x \in Sources : handler'[x] # "none" => Connected(native', x)
    BY <1>1, <1>2, <1>3, <1>5 DEF TypeOK, Connected
  <2> QED BY <1>1, <1>2, <1>4, <1>5, <2>1, <2>2, TypesFrame DEF TypeOK
<1>8. TabInv'
  <2>1. \A x \in Sources : Connected(native', x) <=> Connected(native, x)
    BY <1>3, <1>5 DEF Connected
  <2>2. stream.source # None => stream.source \in Sources /\ native'[stream.source] = native[stream.source]
    BY <1>1, <1>3, <1>5 DEF TypeOK, Stream
  <2>3. Linked(Tab)'
    BY <1>1, <1>2, <2>1, <2>2 DEF TabInv, Linked, Tab
  <2>4. Registered(Tab)'
    BY <1>1, <1>2 DEF TabInv, Registered, TopHears, KidHears, Asked, AsksFor, Tab
  <2> QED BY <1>1, <1>2, <2>3, <2>4 DEF TabInv
<1>9. PageInv' /\ LogInv'
  BY <1>1, <1>2, PageSame, LogSame
<1>10. PanelInv'
  BY <1>1, <1>2, <1>3, <1>4, <1>5, <1>6 DEF PanelInv, Good, EndsAt, Keeps
<1> QED BY <1>7, <1>8, <1>9, <1>10 DEF IInv

-----------------------------------------------------------------------------
(* The theorems.                                                           *)

LEMMA InitInv == Init => IInv
<1> SUFFICES ASSUME Init PROVE IInv
  OBVIOUS
<1> DEFINE w == FirstStream([s \in Sources |-> NoSource], hidden)
<1>1. /\ \E page \in Pages : layout = Panel[page] /\ feed = Feed[page]
      /\ hidden \in BOOLEAN /\ stream = w.stream /\ native = w.native
      /\ attached = Elements /\ timer = NoTimer /\ text = <<>>
      /\ history = <<>> /\ subs = {} /\ chan = [s \in Sources |-> Log!NoChannel]
      /\ handler = [s \in Sources |-> "none"] /\ ended = "no" /\ clearing = "no"
      /\ lines = 0 /\ blank = 0 /\ heard = FALSE
  BY DEF Init, Log!BroadcasterInit
<1>2. PageInv
  BY <1>1 DEF PageInv
<1>3. /\ Begun(w, 0, hidden) /\ w \in Tabs /\ Linked(w) /\ Registered(w)
      /\ hidden => w.stream.source = None
  BY <1>1, <1>2, FirstFacts DEF Begun
<1> HIDE DEF w
<1>4. Tab = w /\ stream \in Stream /\ native \in [Sources -> Source]
  BY <1>1, <1>3 DEF Tabs, Tab
<1>5. TabInv
  BY <1>1, <1>3, <1>4 DEF TabInv, Tab
<1>6. TypeOK
  <2>1. Log!BroadcasterTypeOK
    <3>1. Log!NoChannel \in Log!Channel
      BY DEF Log!NoChannel, Log!Channel
    <3> QED BY <1>1, <3>1, SizesAssumption DEF Log!BroadcasterTypeOK
  <2>2. layout \in Layout
    BY <1>2, LayoutFacts
  <2>3. stream.finished => stream.source = None
    BY <1>3, <1>4 DEF Linked, Tab
  <2>4. <<>> \in Seq(1..MaxLines) /\ NoTimer \in 0..128
    BY DEF NoTimer
  <2> QED BY <1>1, <1>4, <2>1, <2>2, <2>3, <2>4 DEF TypeOK, Handler
<1>7. LogInv
  BY <1>1, EndsEmpty, StreamsAssumption DEF LogInv
<1>8. PanelInv
  BY <1>1 DEF PanelInv
<1> QED BY <1>2, <1>5, <1>6, <1>7, <1>8 DEF IInv

LEMMA StepInv == IInv /\ LeavingInv /\ [Next]_vars => IInv'
<1> SUFFICES ASSUME IInv, LeavingInv, [Next]_vars PROVE IInv'
  OBVIOUS
<1>1. ASSUME NEW s \in Sources, SourceStep(s) PROVE IInv'
  BY <1>1, LookInv, AcceptInv, AcceptEndedInv, RefuseInv, OpenInv, DeliverInv, DoneInv, LateInv
     DEF SourceStep
<1>2. ASSUME NEW s \in Sources, Lose(s) \/ Refuse(s) PROVE IInv'
  BY <1>2, LoseInv, RefuseInv
<1>3. CASE Write \/ EndBegins \/ End
  BY <1>3, WriteInv, EndInv
<1>4. CASE Flip \/ Timer \/ Cleanup \/ RemovePanel \/ RemoveKid
  BY <1>4, FlipInv, TimerInv, CleanupInv, GoneInv
<1>5. CASE ClearClick \/ ClearLogs \/ ClearAnswered \/ ClearFails
  BY <1>5, ClearAskedInv, ClearLogsInv, ClearAnsweredInv
<1>6. CASE UNCHANGED vars
  <2>1. /\ UNCHANGED <<hidden, stream, native, layout, attached, timer, text, feed, history, subs,
                       chan, handler, ended, clearing, lines, blank, missed, heard>>
        /\ TypeOK /\ TabInv /\ PageInv /\ LogInv /\ PanelInv
    BY <1>6 DEF vars, pageVars, serverVars, IInv
  <2>2. TypeOK'
    BY <2>1 DEF TypeOK, Connected, Log!BroadcasterTypeOK
  <2>3. PanelInv'
    BY <2>1 DEF PanelInv, Good, EndsAt, Keeps
  <2> QED BY <2>1, <2>2, <2>3, TabSame, PageSame, LogSame DEF IInv
<1> QED BY <1>1, <1>2, <1>3, <1>4, <1>5, <1>6 DEF Next

\* Nothing is written to a log that has ended, and nothing of it sent before the reader
\* has closed its channel.
LEMMA LeavingStep == IInv /\ LeavingInv /\ [Next]_vars => LeavingInv'
<1> SUFFICES ASSUME IInv, LeavingInv, [Next]_vars, NEW s \in Sources
             PROVE  /\ handler'[s] \in {"ended", "leaving"} => feed' = "start"
                    /\ handler'[s] = "leaving" => chan'[s].values = history'
  BY DEF LeavingInv
<1> DEFINE Goal == /\ handler'[s] \in {"ended", "leaving"} => feed' = "start"
                   /\ handler'[s] = "leaving" => chan'[s].values = history'
<1>1. /\ handler \in [Sources -> Handler] /\ chan \in [Sources -> Log!Channel]
      /\ handler[s] = "leaving" => /\ ended # "no" /\ feed = "start" /\ chan[s].values = history
                                   /\ Connected(native, s)
      /\ handler[s] \in {"ended", "leaving"} => feed = "start"
  BY TypeFacts DEF IInv, TypeOK, LogInv, LeavingInv
<1>2. CASE UNCHANGED <<feed, history, chan>> /\ handler'[s] = handler[s]
  BY <1>1, <1>2
<1>3. ASSUME NEW x \in Sources, SourceStep(x) PROVE Goal
  <2>1. CASE Look(x)
    BY <1>1, <1>2, <2>1 DEF Look
  <2>2. CASE Accept(x) \/ CloseEnded(x) \/ Panic(x)
    BY <1>1, <2>2 DEF Accept, CloseEnded, Panic, Log!Subscribe
  <2>3. CASE AcceptEnded(x)
    BY <1>1, <2>3 DEF AcceptEnded, Log!Subscribe, Log!Replay
  <2>4. CASE Open(x)
    BY <1>2, <2>4 DEF Open, serverVars
  <2>5. CASE Deliver(x)
    BY <1>1, <2>5 DEF Deliver, HandlersLeave
  <2>6. CASE Done(x)
    BY <1>1, <2>6 DEF Done, HandlersLeave
  <2>7. CASE Late(x)
    BY <1>1, <2>7 DEF Late, Connected
  <2> QED BY <1>3, <2>1, <2>2, <2>3, <2>4, <2>5, <2>6, <2>7 DEF SourceStep
<1>4. CASE Write
  BY <1>1, <1>4 DEF Write
<1>5. CASE EndBegins
  BY <1>2, <1>5 DEF EndBegins
<1>6. CASE End
  BY <1>1, <1>6 DEF End, Log!CloseSubscribers
<1>7. CASE (\E x \in Sources : Lose(x)) \/ Flip \/ Cleanup
  BY <1>1, <1>7 DEF Lose, Flip, Cleanup, HandlersLeave, pageVars
<1>8. CASE (\E x \in Sources : Refuse(x)) \/ Timer \/ RemovePanel \/ RemoveKid
  BY <1>2, <1>8 DEF Refuse, Timer, RemovePanel, RemoveKid, serverVars
<1>9. CASE ClearClick \/ ClearAnswered \/ ClearFails
  BY <1>2, <1>9 DEF ClearClick, ClearAnswered, ClearFails, BesideClear
<1>10. CASE ClearLogs
  BY <1>1, <1>10 DEF ClearLogs, Log!ClearHistory, IInv, PageInv
<1>11. CASE UNCHANGED vars
  BY <1>2, <1>11 DEF vars, serverVars
<1> QED BY <1>3, <1>4, <1>5, <1>6, <1>7, <1>8, <1>9, <1>10, <1>11 DEF Next

\* The invariant holds throughout: the server's channels, the tab's connections and
\* listeners, and what the panel shows fit each other after every step.
THEOREM Inductive == Spec => [](IInv /\ LeavingInv)
<1>1. Init => LeavingInv
  BY DEF Init, LeavingInv
<1> QED BY <1>1, InitInv, StepInv, LeavingStep, PTL DEF Spec

\* TypeOK: the variables have their types, whatever the server, the network, the page
\* and the user do; in particular no handler runs for a connection that is gone, a
\* finished stream has no source, and the delay of a retry stays within 128 seconds.
THEOREM TypeCorrect == Spec => []TypeOK
<1>1. IInv => TypeOK
  BY DEF IInv
<1> QED BY <1>1, Inductive, PTL

\* HeldOnlyWhileNeeded: LiveStream and htmx-sse.js never hold two connections for a
\* panel, and none in a hidden tab, for a finished stream or for an element that was
\* gone when an event came.
THEOREM NeededOnly == Spec => []HeldOnlyWhileNeeded
<1>1. IInv => HeldOnlyWhileNeeded
  <2> SUFFICES ASSUME IInv PROVE HeldOnlyWhileNeeded
    OBVIOUS
  <2>1. /\ \A s \in Sources : Connected(native, s) => stream.source = s /\ s # None
        /\ stream.finished => stream.source = None
        /\ hidden => stream.source = None
        /\ heard /\ layout.listens["kid"] = {} => stream.finished
    BY StreamsAssumption DEF IInv, TabInv, Linked, Tab
  <2> QED BY <2>1 DEF HeldOnlyWhileNeeded, Live
<1> QED BY <1>1, Inductive, PTL

\* HeardOnce: registerSSE, removeEventListener and the replayed listeners of a new
\* source together leave each element with exactly one listener for each type it asks
\* for, and the source of an open stream knows the types, whatever the order in which
\* the stream was refused, tried again, lost and opened.
THEOREM OnceHeard == Spec => []HeardOnce
<1>1. IInv => HeardOnce
  <2> SUFFICES ASSUME IInv, Showing, ~layout.script,
                      NEW o \in Askers, NEW t \in Types, ElementOf(o) \in attached
               PROVE  /\ stream.listeners[t][o] = IF t \in AsksFor(o) THEN 1 ELSE 0
                      /\ t \in AsksFor(o) => t \in BuiltIn \cup native[stream.source].types
    BY DEF HeardOnce
  <2>1. o \in {"top", "kid", "trigger"} /\ (o # "top" => "kid" \in attached)
    BY DEF Askers, Elements, ElementOf
  <2>2. /\ stream.source # None /\ ~stream.finished
        /\ stream.known \ BuiltIn \subseteq native[stream.source].types
    BY DEF Showing, IInv, TabInv, Linked, Tab
  <2>3. stream.retry = 0 /\ TopHears(Tab) /\ ("kid" \in attached => KidHears(Tab)) /\ Tab.stream = stream
    BY <2>2 DEF Showing, IInv, TabInv, Registered, Tab
  <2>4. stream.listeners[t][o] = Asked(o, t) /\ AsksFor(o) \subseteq stream.known
    BY <2>1, <2>3 DEF TopHears, KidHears
  <2> QED BY <2>2, <2>4 DEF Asked
<1> QED BY <1>1, Inductive, PTL

\* The handler of an open stream is in StreamLines' loop.
StreamingInv == stream.state = "open" => handler[stream.source] = "streaming"

\* A step that does not open the stream leaves an open one its source and its handler.
LEMMA StreamingStays ==
    ASSUME IInv, StreamingInv, stream'.state = "open" => stream.state = "open" /\ stream'.source = stream.source,
           stream.state = "open" /\ stream'.state = "open" => handler'[stream.source] = handler[stream.source]
    PROVE  StreamingInv'
  BY DEF StreamingInv

LEMMA StreamingStep == IInv /\ IInv' /\ StreamingInv /\ [Next]_vars => StreamingInv'
<1> SUFFICES ASSUME IInv, IInv', StreamingInv, [Next]_vars PROVE StreamingInv'
  OBVIOUS
<1>0. /\ TypeOK /\ TabInv /\ PageInv /\ LogInv /\ Tab \in Tabs /\ Linked(Tab) /\ Registered(Tab)
      /\ stream \in Stream /\ handler \in [Sources -> Handler]
      /\ stream.state = "open" =>
            /\ stream.source \in Sources /\ native[stream.source].state = "open"
            /\ Connected(native, stream.source)
      /\ stream'.state = "open" => stream'.source \in Sources /\ Connected(native', stream'.source)
  BY TypeFacts DEF IInv, TypeOK, TabInv, Linked, Tab, Stream, Connected
<1>1. ASSUME UNCHANGED <<stream, handler>> PROVE StreamingInv'
  BY <1>1 DEF StreamingInv
<1>2. ASSUME NEW w, Closed(w), Set(w) PROVE StreamingInv'
  BY <1>2 DEF Closed, Set, StreamingInv
<1>3. ASSUME HandlersLeave(StillConnected), NEW s \in Sources, Connected(native', s)
      PROVE  handler'[s] = handler[s]
  BY <1>3 DEF HandlersLeave, StillConnected
<1>4. ASSUME NEW s \in Sources, Refuse(s) \/ Panic(s) PROVE StreamingInv'
  <2>1. native[s].state = "connecting" /\ stream.source = s
    BY <1>0, <1>4, SourceIs DEF Refuse, Panic, Connected
  <2>2. Closed(Refused(s))
    BY <1>0, <2>1, RefusedFacts
  <2>3. stream'.source = None
    <3> DEFINE w == Refused(s)
               u == OnError(w)
               n == IF RetryAfter(w) = NoTimer THEN u.stream.retry ELSE RetryAfter(w)
    <3>1. Closed(w) /\ Closed(u)
      BY <2>2, CloseFacts DEF OnError, Closed
    <3>2. Set(w) \/ Set([u EXCEPT !.stream.retry = n])
      BY <1>4 DEF Refuse, Panic, RefusedEvent
    <3> HIDE DEF w, u, n
    <3>3. w.stream.source = None /\ u.stream.source = None /\ u \in Tabs /\ u.stream \in Stream
      BY <3>1 DEF Closed, Tabs
    <3>4. [u EXCEPT !.stream.retry = n].stream = [u.stream EXCEPT !.retry = n]
      BY <3>3 DEF Tabs
    <3> QED BY <3>2, <3>3, <3>4 DEF Set, Stream
  <2> QED BY <1>0, <2>3, StreamsAssumption DEF StreamingInv
<1>5. ASSUME NEW s \in Sources, SourceStep(s) PROVE StreamingInv'
  <2>1. CASE Look(s)
    <3>1. /\ handler' = [handler EXCEPT ![s] = IF ended = "no" THEN "running" ELSE "ended"]
          /\ stream' = stream /\ native[s].state = "connecting"
      BY <2>1 DEF Look, ClientOnly
    <3> QED BY <1>0, <3>1 DEF StreamingInv
  <2>2. CASE Accept(s) \/ AcceptEnded(s) \/ CloseEnded(s)
    <3>1. /\ handler' = [handler EXCEPT ![s] = handler'[s]] /\ stream' = stream
          /\ native[s].state = "connecting"
      BY <1>0, <2>2 DEF Accept, AcceptEnded, CloseEnded, ClientOnly
    <3> QED BY <1>0, <3>1 DEF StreamingInv
  <2>3. CASE Open(s)
    <3>1. /\ handler' = handler /\ handler[s] = "streaming" /\ stream.source = s
          /\ Set(IF layout.script THEN Opened(s) ELSE OnOpen(Opened(s)))
      BY <2>3 DEF Open, OpenEvent, Heeded, serverVars
    <3>2. CASE layout.script
      BY <1>0, <3>1, <3>2 DEF Opened, Set, Stream, StreamingInv
    <3>3. CASE ~layout.script
      BY <1>0, <3>1, <3>3, OnOpenFacts DEF Set, StreamingInv
    <3> QED BY <3>2, <3>3
  <2>4. CASE Deliver(s)
    <3>1. /\ HandlersLeave(StillConnected) /\ native[s].state = "open"
          /\ LineEvent(s, EventType, Head(chan[s].values))
      BY <2>4 DEF Deliver
    <3>2. stream.source = s /\ EventType \in Types
      BY <1>0, <3>1, SourceIs, LayoutFacts DEF Connected
    <3>3. \/ \E w : Closed(w) /\ Set(w)
          \/ stream'.state = stream.state /\ stream'.source = stream.source
      <4> DEFINE w == Hear(Tab, EventType)
      <4>1. Closed(w) \/ (w.stream.state = stream.state /\ w.stream.source = stream.source)
        BY <1>0, <3>2, HearFacts DEF IInv
      <4>2. stream' = stream \/ Set(w)
        BY <3>1 DEF LineEvent
      <4> HIDE DEF w
      <4> QED BY <4>1, <4>2 DEF Set
    <3>4. CASE \E w : Closed(w) /\ Set(w)
      BY <1>2, <3>4
    <3>5. CASE stream'.state = stream.state /\ stream'.source = stream.source
      BY <1>0, <1>3, <3>1, <3>5, StreamingStays
    <3> QED BY <3>3, <3>4, <3>5
  <2>5. CASE Done(s)
    <3>1. native[s].state = "open" /\ Set(Close(Hear(Tab, "done")))
      BY <2>5 DEF Done, DoneEvent
    <3> QED BY <1>2, <3>1, DoneCloses
  <2>6. CASE Late(s)
    BY <1>1, <2>6 DEF Late
  <2>7. CASE Panic(s)
    BY <1>4, <2>7
  <2> QED BY <1>5, <2>1, <2>2, <2>3, <2>4, <2>5, <2>6, <2>7 DEF SourceStep
<1>6. ASSUME NEW s \in Sources, Lose(s) PROVE StreamingInv'
  <2>1. Connected(native, s) /\ Set(IF layout.script THEN Lost(s) ELSE OnError(Lost(s)))
    BY <1>6 DEF Lose, LostEvent
  <2>2. /\ Lost(s) \in Tabs /\ Linked(Lost(s))
        /\ Lost(s).stream = [stream EXCEPT !.state = "connecting"]
    BY <2>1, SourceIs, LostFacts
  <2>3. Closed(Close(Lost(s))) /\ Lost(s).stream.state = "connecting"
    BY <1>0, <2>2, LinkedFacts, CloseFacts DEF Stream
  <2> QED BY <1>2, <2>1, <2>3 DEF OnError, Set, StreamingInv
<1>7. CASE Flip
  <2> DEFINE w == Sync(Tab, hidden')
  <2>1. /\ Unused(Tab) # {} /\ hidden' \in BOOLEAN /\ Set(w) /\ HandlersLeave(StillConnected)
    BY <1>0, <1>7 DEF Flip, TypeOK
  <2>2. /\ Kept(Tab, w)
        /\ Tab.stream.source # None /\ w.stream.source # None => w = Tab
    BY <1>0, <2>1, SyncFacts
  <2>3. Tab.stream = stream /\ stream' = w.stream
    BY <2>1 DEF Tab, Set
  <2> HIDE DEF w
  <2>4. stream'.state = "open" => stream.state = "open" /\ stream' = stream
    BY <1>0, <2>2, <2>3, StreamsAssumption DEF Kept
  <2> QED BY <1>0, <1>3, <2>1, <2>4, StreamingStays
<1>8. CASE Timer
  <2>1. /\ timer # NoTimer /\ Unused(Tab) # {} /\ Set(EnsureEventSourceOnElement(native, timer, hidden))
        /\ UNCHANGED <<layout, attached>>
    BY <1>8 DEF Timer, TimerEvent
  <2>2. /\ ~layout.script /\ PageInv /\ \A s \in Sources : ~Connected(native, s)
        /\ native \in [Sources -> Source] /\ timer \in 0..128 /\ hidden \in BOOLEAN
    BY <1>0, <2>1, StreamsAssumption DEF TabInv, Linked, Tab, PageInv, TypeOK
  <2>3. Idle(native)
    BY <2>1, <2>2 DEF Idle, Unused, Tab
  <2> DEFINE w == EnsureEventSourceOnElement(native, timer, hidden)
  <2>4. w.stream.state = "connecting"
    BY <2>2, <2>3, EnsureFacts DEF Begun
  <2> HIDE DEF w
  <2> QED BY <2>1, <2>4 DEF w, Set, StreamingInv
<1>9. CASE Cleanup
  <2>1. Set(Close(Tab))
    BY <1>9 DEF Cleanup, CleanupEvent
  <2> QED BY <1>0, <1>2, <2>1, LinkedFacts, CloseFacts
<1>10. CASE RemovePanel \/ RemoveKid \/ Write \/ EndBegins \/ End
  BY <1>1, <1>10 DEF RemovePanel, RemoveEvent, RemoveKid, Write, EndBegins, End, ClientOnly, serverVars
<1>11. CASE ClearClick \/ ClearLogs \/ ClearAnswered \/ ClearFails
  BY <1>1, <1>11 DEF ClearClick, ClearLogs, ClearAnswered, ClearFails, BesideClear
<1>12. CASE UNCHANGED vars
  BY <1>1, <1>12 DEF vars, serverVars
<1> QED BY <1>4, <1>5, <1>6, <1>7, <1>8, <1>9, <1>10, <1>11, <1>12 DEF Next

\* The server's handler of an open stream's connection is in StreamLines' loop, past
\* Subscribe and its replay.
THEOREM Streaming == Spec => []StreamingInv
<1>1. Init => StreamingInv
  <2> SUFFICES ASSUME Init PROVE StreamingInv
    OBVIOUS
  <2>1. PageInv /\ attached = Elements /\ hidden \in BOOLEAN
        /\ stream = FirstStream([s \in Sources |-> NoSource], hidden).stream
    BY InitInv DEF Init, IInv
  <2>2. stream.state # "open"
    BY <2>1, FirstFacts DEF Begun
  <2> QED BY <2>2 DEF StreamingInv
<1> QED BY <1>1, Inductive, StreamingStep, PTL DEF Spec

\* Two stretches of consecutive lines, one ending where the other begins.
LEMMA EndsConcat ==
    ASSUME NEW p \in Seq(Nat), NEW q \in Seq(Nat), NEW n \in Int,
           EndsAt(p, n - Len(q)), EndsAt(q, n)
    PROVE  EndsAt(p \o q, n)
<1>1. /\ Len(p) \in Nat /\ Len(q) \in Nat /\ Len(p \o q) = Len(p) + Len(q)
      /\ \A i \in 1..(Len(p) + Len(q)) :
            (p \o q)[i] = IF i <= Len(p) THEN p[i] ELSE q[i - Len(p)]
  BY ConcatProperties
<1> SUFFICES ASSUME NEW i \in 1..(Len(p) + Len(q))
             PROVE  (p \o q)[i] = n - (Len(p) + Len(q)) + i
  BY <1>1 DEF EndsAt
<1>2. CASE i <= Len(p)
  <2>1. i \in 1..Len(p)
    BY <1>1, <1>2
  <2>2. p[i] = (n - Len(q)) - Len(p) + i
    BY <2>1 DEF EndsAt
  <2> QED BY <1>1, <1>2, <2>2
<1>3. CASE ~(i <= Len(p))
  <2>1. i - Len(p) \in 1..Len(q)
    BY <1>1, <1>3
  <2>2. q[i - Len(p)] = n - Len(q) + (i - Len(p))
    BY <2>1 DEF EndsAt
  <2> QED BY <1>1, <1>3, <2>2
<1> QED BY <1>2, <1>3

\* Consecutive lines have no gap, and end with the last.
LEMMA EndsFollow ==
    ASSUME NEW q \in Seq(Nat), NEW n \in Int, EndsAt(q, n)
    PROVE  /\ \A i \in 2..Len(q) : q[i] = q[i - 1] + 1
           /\ q # <<>> => q[Len(q)] = n
<1>1. Len(q) \in Nat /\ (q # <<>> => Len(q) >= 1)
  BY EmptySeq
<1>2. ASSUME NEW i \in 2..Len(q) PROVE q[i] = q[i - 1] + 1
  <2>1. i \in 1..Len(q) /\ i - 1 \in 1..Len(q)
    BY <1>1
  <2>2. q[i] = n - Len(q) + i /\ q[i - 1] = n - Len(q) + (i - 1)
    BY <2>1 DEF EndsAt
  <2> QED BY <1>1, <2>2
<1>3. ASSUME q # <<>> PROVE q[Len(q)] = n
  <2>1. Len(q) \in 1..Len(q)
    BY <1>1, <1>3
  <2>2. q[Len(q)] = n - Len(q) + Len(q)
    BY <2>1 DEF EndsAt
  <2> QED BY <1>1, <2>2
<1> QED BY <1>2, <1>3

\* PanelFaithful: what an open panel shows and what is under way to it from its
\* channel are the last lines of the log, each once and in order, up to the last that
\* was written, and not nothing when something was written since the last Clear: the
\* replay of Subscribe and the emptied panel of onopen join without a seam.
THEOREM Faithful == Spec => []PanelFaithful
<1>1. IInv /\ StreamingInv => PanelFaithful
  <2> SUFFICES ASSUME IInv, StreamingInv, Showing, "top" \in attached, ~missed
               PROVE  /\ \A i \in 2..Len(Shown) : Shown[i] = Shown[i - 1] + 1
                      /\ Shown # <<>> => Shown[Len(Shown)] = lines
                      /\ lines > blank /\ (layout.script \/ layout.replay) => Shown # <<>>
    BY DEF PanelFaithful
  <2> DEFINE s == stream.source
             q == chan[s].values
             p == IF Keeps THEN text ELSE <<>>
  <2>1. s \in Sources /\ handler[s] = "streaming" /\ native[s].state = "open"
    BY DEF Showing, IInv, TypeOK, Stream, StreamingInv, TabInv, Linked, Tab
  <2>2. Good(s)
    BY <2>1 DEF IInv, PanelInv
  <2>3. q \in Seq(Nat) /\ p \in Seq(Nat) /\ lines \in Int
    BY <2>1, TypeFacts, EmptySeq DEF IInv, LogInv
  <2>4. /\ EndsAt(q, lines) /\ EndsAt(p, lines - Len(q))
        /\ Keeps /\ lines > blank => q # <<>> \/ p # <<>>
    BY <2>1, <2>2, EndsEmpty DEF Good
  <2>5. Shown = p \o q
    BY DEF Shown, Keeps
  <2> HIDE DEF p, q
  <2>6. EndsAt(p \o q, lines) /\ p \o q \in Seq(Nat)
    BY <2>3, <2>4, EndsConcat, ConcatProperties
  <2>7. Keeps /\ lines > blank => p \o q # <<>>
    BY <2>3, <2>4, ConcatEqualIffEmpty, ConcatSimplifications
  <2>8. /\ \A i \in 2..Len(p \o q) : (p \o q)[i] = (p \o q)[i - 1] + 1
        /\ p \o q # <<>> => (p \o q)[Len(p \o q)] = lines
    BY <2>3, <2>6, EndsFollow
  <2> QED BY <2>5, <2>7, <2>8 DEF Keeps
<1> QED BY <1>1, Inductive, Streaming, PTL
=============================================================================
