---------------------------- MODULE KeepInView -----------------------------
(***************************************************************************)
(* What the user looks at stays in place when htmx swaps it                *)
(* (web/static/keep-in-view.js): panels of rows one under the other in a   *)
(* page that scrolls, in whole units of height.  A panel is swapped by its *)
(* own polling and by the reply to a click in one of its rows, which may   *)
(* also turn it into a short message or take it away.  A refused reply is  *)
(* announced (htmx:beforeSwap) and not swapped; a line of a log stream is  *)
(* swapped (htmx:afterSwap) without having been announced.                 *)
(***************************************************************************)
EXTENDS Integers, Sequences, FiniteSets, FiniteSetsExt

CONSTANTS
    Panels,         \* 1..n, from the top of the page
    RowHeights,     \* bound: how high a row can be
    MaxRows,        \* bound: rows of a panel
    Window,         \* the height of the window
    MaxRequests     \* bound: requests of the page

ASSUME KeepInViewAssumption ==
    /\ Panels = 1..Cardinality(Panels)
    /\ RowHeights \subseteq Nat \ {0}
    /\ MaxRows \in Nat /\ Window \in Nat \ {0}

VARIABLES
    panel,          \* what each panel shows
    scroll,         \* the page's scrollTop
    asked,          \* requests under way
    anchor, pending,
    paused,         \* Chrome's anchoring is off for the page
    frames,         \* the frames left of each pauseAnchoring
    refused,        \* history: the last announced reply was refused, and nothing swapped since
    requests

viewVars == <<panel, scroll, asked, anchor, pending, paused, frames, refused, requests>>

NoPanel == 0
NoAnchor == [panel |-> NoPanel, part |-> <<>>, top |-> 0]

Table(rows) == [shape |-> "table", rows |-> rows]
Message == [shape |-> "message", rows |-> <<1>>]
Gone == [shape |-> "gone", rows |-> <<>>]
Tables == {Table(rows) : rows \in UNION {[1..n -> RowHeights] : n \in 1..MaxRows}}
Contents == Tables \cup {Message, Gone}

\* A poll of the panel, or a click in one of its rows (row 0: one that has been
\* rendered afresh since) by an element that may say itself what to show.
Requests == [panel : Panels, kind : {"poll", "click", "click with show"}, row : 0..MaxRows]

-----------------------------------------------------------------------------
\* Layout, for the panels' contents cs and the scroll position s.  A part of a
\* panel is the way to it: <<"table">>, <<"table", row>>,
\* <<"table", row, "button">> or <<"message">>.
Above(rows, i) == MapThenSumSet(LAMBDA k : rows[k], 1..i - 1)
Height(c) == Above(c.rows, Len(c.rows) + 1)
Top(cs, s, p) == MapThenSumSet(LAMBDA q : Height(cs[q]), 1..p - 1) - s
Bottom(cs, s, p) == Top(cs, s, p) + Height(cs[p])
Limit(cs) == Max({0, Top(cs, 0, Max(Panels) + 1) - Window})
Clamped(cs, s) == Max({0, Min({s, Limit(cs)})})

OnScreen(p) == Bottom(panel, scroll, p) > 0 /\ Top(panel, scroll, p) < Window

PartTop(cs, s, p, part) ==
    Top(cs, s, p) + IF Len(part) = 1 THEN 0 ELSE Above(cs[p].rows, part[2])

PartHeight(c, part) ==
    CASE Len(part) = 1 -> Height(c)
      [] Len(part) = 2 -> c.rows[part[2]]
      [] Len(part) = 3 -> 1

HasPart(c, part) == c.shape = part[1] /\ (Len(part) > 1 => part[2] <= Len(c.rows))

\* pickAnchor: the element that was clicked, if it is still there, or what is
\* at the panel's top on screen.
Hit(r) ==
    LET p == r.panel
        rows == panel[p].rows
        y == Max({0, -Top(panel, scroll, p)})
    IN IF r.row # 0 THEN <<"table", r.row, "button">>
       ELSE IF panel[p].shape = "message" THEN <<"message">>
       ELSE <<"table", Min({i \in DOMAIN rows : Above(rows, i + 1) > y})>>

\* steps, and the step that moved will look for: the outermost that fits into
\* the window, or else the innermost.
AnchorPart(r) ==
    LET path == Hit(r)
        fits == {k \in DOMAIN path :
                    PartHeight(panel[r.panel], SubSeq(path, 1, k)) <= Window}
    IN SubSeq(path, 1, IF fits = {} THEN Len(path) ELSE Min(fits))

Noted(r) ==
    IF ~OnScreen(r.panel) THEN NoAnchor
    ELSE [panel |-> r.panel, part |-> AnchorPart(r),
          top |-> PartTop(panel, scroll, r.panel, AnchorPart(r))]

\* A trusted click, by an element that is still in the panel and has not chosen
\* itself where the page goes.
ToBringBack(r) == IF r.kind = "click" /\ r.row # 0 THEN r.panel ELSE NoPanel

\* pauseAnchoring, for a swap on screen.
PauseAnchoring(p) ==
    IF OnScreen(p) THEN paused' = TRUE /\ frames' = frames \cup {2}
    ELSE UNCHANGED <<paused, frames>>

\* moved: how far the noted part is from where it was.
Moved(cs, s, a) ==
    IF a.panel # NoPanel /\ HasPart(cs[a.panel], a.part)
    THEN PartTop(cs, s, a.panel, a.part) - a.top ELSE 0

BringBackAlways(cs, s, p) ==
    IF p = NoPanel \/ cs[p] = Gone THEN s ELSE Clamped(cs, Top(cs, 0, p))

\* The rest of afterSwap: a panel that is now above the screen comes back.
BringBack(cs, s, p) ==
    IF p = NoPanel THEN s
    ELSE IF cs[p] = Gone \/ Bottom(cs, s, p) > 0 THEN s
    ELSE Clamped(cs, Top(cs, 0, p))

AfterSwap(cs, s, a, p) == BringBack(cs, Clamped(cs, s + Moved(cs, s, a)), p)

\* The browser lays the new content out.  Unless its anchoring is off, it makes
\* up for a change above the screen.
LaidOut(cs, p) ==
    Clamped(cs, IF Bottom(panel, scroll, p) <= 0 /\ ~paused
                THEN scroll + Height(cs[p]) - Height(panel[p]) ELSE scroll)

-----------------------------------------------------------------------------
ViewInit ==
    /\ panel \in [Panels -> {c \in Tables : Len(c.rows) = MaxRows}]
    /\ scroll = 0
    /\ asked = {}
    /\ anchor = NoAnchor /\ pending = NoPanel
    /\ paused = FALSE /\ frames = {}
    /\ refused = FALSE /\ requests = 0

Ask(r) ==
    /\ panel[r.panel] # Gone /\ requests < MaxRequests
    /\ \A q \in asked : q.panel = r.panel => (q.kind = "poll") # (r.kind = "poll")
    /\ IF r.kind = "poll" THEN r.row = 0
       ELSE /\ r.row \in DOMAIN panel[r.panel].rows /\ panel[r.panel].shape = "table"
            /\ PartTop(panel, scroll, r.panel, <<"table", r.row>>) \in 0..Window - 1
    /\ asked' = asked \cup {r}
    /\ requests' = requests + 1
    /\ UNCHANGED <<panel, scroll, anchor, pending, paused, frames, refused>>

\* The requests that are left when p has been rendered afresh, or taken away.
Left(p, c, r) ==
    {IF q.panel = p THEN [q EXCEPT !.row = 0] ELSE q :
        q \in {q \in asked \ {r} : q.panel # p \/ c # Gone}}

Swap(r, c) ==
    /\ r \in asked
    /\ LET cs == [panel EXCEPT ![r.panel] = c]
       IN /\ panel' = cs
          /\ scroll' = AfterSwap(cs, LaidOut(cs, r.panel), Noted(r), ToBringBack(r))
    /\ asked' = Left(r.panel, c, r)
    /\ anchor' = NoAnchor /\ pending' = NoPanel
    /\ PauseAnchoring(r.panel)
    /\ refused' = FALSE
    /\ UNCHANGED requests

\* htmx announces a refused reply too, and does not swap it.
Refused(r) ==
    /\ r \in asked
    /\ asked' = asked \ {r}
    /\ anchor' = Noted(r) /\ pending' = ToBringBack(r)
    /\ PauseAnchoring(r.panel)
    /\ refused' = TRUE
    /\ UNCHANGED <<panel, scroll, requests>>

\* A line of a log, which scrolls by itself: the layout stays.
LineSwapped ==
    /\ scroll' = AfterSwap(panel, scroll, anchor, pending)
    /\ anchor' = NoAnchor /\ pending' = NoPanel
    /\ refused' = FALSE
    /\ UNCHANGED <<panel, asked, paused, frames, requests>>

Frame ==
    /\ frames # {}
    /\ frames' = {k - 1 : k \in frames \ {1}}
    /\ paused' = (paused /\ 1 \notin frames)
    /\ UNCHANGED <<panel, scroll, asked, anchor, pending, refused, requests>>

UserScroll ==
    /\ scroll' \in 0..Limit(panel)
    /\ UNCHANGED <<panel, asked, anchor, pending, paused, frames, refused, requests>>

ViewNext ==
    \/ \E r \in Requests :
        Ask(r) \/ Refused(r) \/ \E c \in Contents : Swap(r, c)
    \/ LineSwapped \/ Frame \/ UserScroll

ViewTypeOK ==
    /\ panel \in [Panels -> Contents] /\ scroll \in 0..Limit(panel)
    /\ asked \subseteq Requests
    /\ anchor.panel \in Panels \cup {NoPanel} /\ pending \in Panels \cup {NoPanel}
    /\ paused \in BOOLEAN /\ frames \subseteq 1..2
    /\ refused \in BOOLEAN /\ requests \in 0..MaxRequests

-----------------------------------------------------------------------------
\* The top of a part moves on screen only as far as the page cannot scroll.
StaysPut(p, part) ==
    LET was == PartTop(panel, scroll, p, part)
        is == PartTop(panel', scroll', p, part)
    IN \/ is = was
       \/ is > was /\ scroll' = Limit(panel')
       \/ is < was /\ scroll' = 0

BroughtBack(p) == Top(panel', scroll', p) = 0 \/ scroll' = Limit(panel')

Answered(r) ==
    requests' = requests /\ ~\E q \in asked' : q.panel = r.panel /\ q.kind = r.kind

\* The reply to a click whose element is still in the panel, and which left it to
\* this script where the page goes.
MayBringBack(r) == r.kind = "click" /\ r.row # 0

\* The bottom of the new content, if part were where it was.
EndsWith(p, part) ==
    PartTop(panel, scroll, p, part) + Bottom(panel', 0, p) - PartTop(panel', 0, p, part)

\* Of a table on screen that is swapped for a table, what the user acted on, or else
\* the first row on screen, stays where it is: the row if the whole table does not
\* fit on the screen, or else the table.  Only if the panel would then be wholly
\* above the screen, a click brings it back.
AnchorKept(r) ==
    LET p == r.panel
        rows == panel[p].rows
        shown == {i \in DOMAIN rows : Top(panel, scroll, p) + Above(rows, i + 1) > 0}
        row == IF r.row # 0 THEN r.row ELSE Min(shown)
        part == IF Height(panel[p]) <= Window THEN <<"table">> ELSE <<"table", row>>
    IN part = <<"table">> \/ (rows[row] <= Window /\ HasPart(panel'[p], part)) =>
           \/ StaysPut(p, part)
           \/ MayBringBack(r) /\ EndsWith(p, part) <= 0 /\ BroughtBack(p)

\* A swap that leaves no such part on screen does not scroll the page, unless a click
\* brings back the panel that would be wholly above the screen.
ScrollKept(r) ==
    LET still == Clamped(panel', scroll)
    IN \/ scroll' = still
       \/ MayBringBack(r) /\ Bottom(panel', still, r.panel) <= 0 /\ BroughtBack(r.panel)

\* When a panel above the screen is swapped, those below it do not move, unless a
\* swap on screen has turned the browser's anchoring off within the last two frames,
\* or the panel is brought back.
BelowKept(r) ==
    ~paused => \A q \in Panels : q > r.panel =>
        StaysPut(q, <<"table">>) \/ (MayBringBack(r) /\ BroughtBack(r.panel))

\* A swap leaves what the user looks at where it is, and never leaves a panel that
\* answers a click, be it a short message now, wholly above the screen.  What is
\* noted for one swap is used up by it: only a refused reply leaves its notes behind,
\* and then a line of a log can scroll the page back.
ViewKept ==
    /\ \A r \in asked : Answered(r) /\ ~refused' =>
        LET p == r.panel
            tables == panel[p].shape = "table" /\ panel'[p].shape = "table"
        IN /\ Bottom(panel, scroll, p) <= 0 => BelowKept(r)
           /\ OnScreen(p) /\ tables => AnchorKept(r)
           /\ Bottom(panel, scroll, p) > 0 /\ ~(OnScreen(p) /\ tables) => ScrollKept(r)
           /\ MayBringBack(r) /\ panel'[p] # Gone => Bottom(panel', scroll', p) > 0
    /\ anchor' # NoAnchor \/ pending' # NoPanel => refused'

KeptInPlace == [][ViewKept]_viewVars
=============================================================================
