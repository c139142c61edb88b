----------------------------- MODULE LogResize -----------------------------
(***************************************************************************)
(* The height of the server log (web/static/log-resize.js): the user drags *)
(* a grip, this browser remembers the height, a double-click forgets it.   *)
(* Heights are whole pixels; 0 stands for the default size and for nothing *)
(* stored.  The storage may hold anything when the page loads, and may     *)
(* refuse every access.  One tab shows the page.                           *)
(***************************************************************************)
EXTENDS Integers

CONSTANTS
    MinHeight,      \* MIN
    Margin,         \* MARGIN
    Windows,        \* bound: heights of the window
    Stored,         \* bound: what the storage may hold, 0 for nothing or no number
    Pointer,        \* bound: where the pointer may be
    DefaultHeights  \* bound: heights of the log at its default size

ASSUME LogResizeAssumption ==
    /\ MinHeight \in Nat \ {0} /\ Margin \in Nat
    /\ Windows \subseteq Nat /\ Windows # {}
    /\ Stored \subseteq Int /\ 0 \in Stored
    /\ Pointer \subseteq Int /\ DefaultHeights \subseteq Nat \ {0}

VARIABLES
    wanted,         \* the height the user chose
    shown,          \* the log's own height
    stored, usable, \* localStorage, and whether it can be used
    window,         \* the window's height
    drag            \* dragging, startY and startHeight

sizeVars == <<wanted, shown, stored, usable, window, drag>>

NoDrag == [on |-> FALSE, y |-> 0, height |-> 0]

Larger(a, b) == IF a > b THEN a ELSE b
Smaller(a, b) == IF a < b THEN a ELSE b

Highest(w) == Larger(MinHeight, w - Margin)

ClampFromAbove(px, w) == Smaller(px, Highest(w))    \* faulty variant of ClampHeight

ClampHeight(px, w) == Smaller(Larger(px, MinHeight), Highest(w))

Shown(px, w) == IF px > 0 THEN ClampHeight(px, w) ELSE 0

\* load: a storage that refuses holds nothing.
Load(s, ok) == IF ok THEN s ELSE 0

-----------------------------------------------------------------------------
SizeInit ==
    /\ stored \in Stored /\ usable \in BOOLEAN /\ window \in Windows
    /\ wanted = Load(stored, usable)
    /\ shown = Shown(wanted, window)
    /\ drag = NoDrag

\* The pointer goes down on the grip: the drag starts from the height on screen.
PointerDown(y) ==
    /\ \E h \in (IF shown > 0 THEN {shown} ELSE DefaultHeights) :
        drag' = [on |-> TRUE, y |-> y, height |-> h]
    /\ UNCHANGED <<wanted, shown, stored, usable, window>>

PointerMove(y) ==
    /\ drag.on
    /\ wanted' = ClampHeight(drag.height + y - drag.y, window)
    /\ shown' = ClampHeight(wanted', window)
    /\ UNCHANGED <<stored, usable, window, drag>>

\* pointerup and pointercancel.
DragEnds ==
    /\ drag.on
    /\ drag' = NoDrag
    /\ stored' = IF wanted > 0 /\ usable THEN wanted ELSE stored
    /\ UNCHANGED <<wanted, shown, usable, window>>

DoubleClickUnforgotten ==   \* faulty variant of DoubleClick
    /\ wanted' = 0 /\ shown' = 0
    /\ UNCHANGED <<stored, usable, window, drag>>

DoubleClick ==
    /\ stored' = IF usable THEN 0 ELSE stored
    /\ wanted' = 0 /\ shown' = 0
    /\ UNCHANGED <<usable, window, drag>>

WindowResized(w) ==
    /\ window' = w
    /\ shown' = IF wanted > 0 THEN ClampHeight(wanted, w) ELSE shown
    /\ UNCHANGED <<wanted, stored, usable, drag>>

Reload ==
    /\ wanted' = Load(stored, usable)
    /\ shown' = Shown(wanted', window)
    /\ drag' = NoDrag
    /\ UNCHANGED <<stored, usable, window>>

SizeNext ==
    \/ \E y \in Pointer : PointerDown(y) \/ PointerMove(y)
    \/ DragEnds \/ DoubleClick \/ Reload
    \/ \E w \in Windows : WindowResized(w)

LogResizeSpec == SizeInit /\ [][SizeNext]_sizeVars

LogResizeTypeOK ==
    /\ wanted \in Int /\ shown \in Nat /\ stored \in Int
    /\ usable \in BOOLEAN /\ window \in Windows
    /\ drag \in [on : BOOLEAN, y : Pointer \cup {0}, height : Nat]

-----------------------------------------------------------------------------
\* Whatever was stored and however the window changes, the log is never lower
\* than its minimum nor higher than the window allows; a small window only hides
\* the chosen height, which a larger one shows again; and between drags the
\* browser remembers exactly what the user chose last, so that a reload changes
\* nothing.
LogHeightKept ==
    /\ shown = IF wanted > 0 THEN ClampHeight(wanted, window) ELSE 0
    /\ shown > 0 => shown \in MinHeight..Highest(window)
    /\ usable /\ ~drag.on => stored = wanted
=============================================================================
