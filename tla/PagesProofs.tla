----------------------------- MODULE PagesProofs -----------------------------
(***************************************************************************)
(* Proofs about scripts of the pages.  The height of the log is right for  *)
(* all windows, stored values, pointer positions and sizes of the minimum  *)
(* and the margin; a log panel shows the end of its log and forgets its    *)
(* copies for any number of lines and of copies.                           *)
(***************************************************************************)
EXTENDS Pages, FiniteSetTheorems, SequenceTheorems, TLAPS

-----------------------------------------------------------------------------
(* LogResize                                                               *)

\* clampHeight stays between the minimum and what the window allows, which is
\* never below the minimum.
LEMMA ClampBounds ==
    ASSUME NEW px \in Int, NEW w \in Nat
    PROVE  /\ ClampHeight(px, w) \in Nat
           /\ Highest(w) \in Nat
           /\ MinHeight <= ClampHeight(px, w)
           /\ ClampHeight(px, w) <= Highest(w)
           /\ ClampHeight(px, w) > 0
  BY LogResizeAssumption DEF ClampHeight, Highest, Larger, Smaller

\* Clamping twice to the same window is clamping once.
LEMMA ClampAgain ==
    ASSUME NEW px \in Int, NEW w \in Nat
    PROVE  ClampHeight(ClampHeight(px, w), w) = ClampHeight(px, w)
  BY LogResizeAssumption DEF ClampHeight, Highest, Larger, Smaller

\* While the pointer has not moved since the page had no chosen height, there is
\* nothing to remember: what is stored is what was chosen, unless a drag has
\* chosen a height that its end will store.
Remembered == usable /\ (wanted <= 0 \/ ~drag.on) => stored = wanted

SizeInv == LogResizeTypeOK /\ LogHeightKept /\ Remembered

LEMMA SizeInvInit == SizeInit => SizeInv
  <1> SUFFICES ASSUME SizeInit PROVE SizeInv
      OBVIOUS
  <1>1. wanted \in Int /\ stored \in Int /\ window \in Nat
      BY LogResizeAssumption DEF SizeInit, Load
  <1>2. shown = IF wanted > 0 THEN ClampHeight(wanted, window) ELSE 0
      BY DEF SizeInit, Shown
  <1>3. shown \in Nat /\ (shown > 0 => shown \in MinHeight..Highest(window))
      BY <1>1, <1>2, ClampBounds, LogResizeAssumption
  <1>4. LogResizeTypeOK
      BY <1>1, <1>3 DEF SizeInit, NoDrag, LogResizeTypeOK
  <1> QED
      BY <1>2, <1>3, <1>4 DEF SizeInv, LogHeightKept, Remembered, SizeInit, Load, NoDrag

LEMMA SizeInvStep == SizeInv /\ [SizeNext]_sizeVars => SizeInv'
  <1> SUFFICES ASSUME SizeInv, [SizeNext]_sizeVars PROVE SizeInv'
      OBVIOUS
  <1> USE DEF SizeInv
  <1>0. /\ window \in Nat /\ wanted \in Int /\ stored \in Int
        /\ drag.height \in Int /\ drag.y \in Int
    <2>1. window \in Nat /\ wanted \in Int /\ stored \in Int
        BY LogResizeAssumption DEF LogResizeTypeOK
    <2>2. drag.height \in Nat /\ drag.y \in Pointer \cup {0}
        BY DEF LogResizeTypeOK
    <2>3. Pointer \subseteq Int
        BY LogResizeAssumption
    <2>4. drag.y \in Int
      <3>1. CASE drag.y \in Pointer
          BY <3>1, <2>3
      <3>2. CASE drag.y = 0
          BY <3>2
      <3> QED
          BY <3>1, <3>2, <2>2
    <2>5. drag.height \in Int
        BY <2>2
    <2> QED
        BY <2>1, <2>4, <2>5
  <1>1. ASSUME NEW y \in Pointer, PointerDown(y) PROVE SizeInv'
    <2>1. drag' \in [on : BOOLEAN, y : Pointer \cup {0}, height : Nat] /\ drag'.on
        BY <1>1, LogResizeAssumption DEF PointerDown, LogResizeTypeOK
    <2> QED
        BY <1>1, <2>1 DEF PointerDown, LogResizeTypeOK, LogHeightKept, Remembered
  <1>2. ASSUME NEW y \in Pointer, PointerMove(y) PROVE SizeInv'
    <2> DEFINE px == drag.height + y - drag.y
    <2>1. px \in Int /\ wanted' = ClampHeight(px, window) /\ drag.on /\ window' = window
        BY <1>0, <1>2, LogResizeAssumption DEF PointerMove
    <2>2. shown' = wanted' /\ wanted' > 0 /\ wanted' \in Nat
        BY <1>0, <1>2, <2>1, ClampBounds, ClampAgain DEF PointerMove
    <2>3. shown' = ClampHeight(wanted', window') /\ shown' \in MinHeight..Highest(window')
        BY <1>0, <1>2, <2>1, <2>2, ClampBounds, LogResizeAssumption DEF PointerMove
    <2>4. LogResizeTypeOK'
        BY <1>2, <2>2 DEF PointerMove, LogResizeTypeOK
    <2> QED
        BY <1>2, <2>1, <2>2, <2>3, <2>4 DEF PointerMove, LogHeightKept, Remembered
  <1>3. CASE DragEnds
    <2>1. stored' \in Int /\ LogResizeTypeOK'
        BY <1>0, <1>3 DEF DragEnds, LogResizeTypeOK, NoDrag
    <2>2. usable => stored' = wanted
        BY <1>0, <1>3 DEF DragEnds, Remembered
    <2> QED
        BY <1>3, <2>1, <2>2 DEF DragEnds, LogHeightKept, Remembered
  <1>4. CASE DoubleClick
      BY <1>4 DEF DoubleClick, LogResizeTypeOK, LogHeightKept, Remembered
  <1>5. CASE Reload
    <2>1. wanted' \in Int /\ wanted' = Load(stored, usable) /\ window' = window
        BY <1>0, <1>5 DEF Reload, Load
    <2>2. shown' = IF wanted' > 0 THEN ClampHeight(wanted', window') ELSE 0
        BY <1>5, <2>1 DEF Reload, Shown
    <2>3. shown' \in Nat /\ (shown' > 0 => shown' \in MinHeight..Highest(window'))
        BY <1>0, <2>1, <2>2, ClampBounds, LogResizeAssumption
    <2>4. LogResizeTypeOK'
        BY <1>5, <2>1, <2>3 DEF Reload, LogResizeTypeOK, NoDrag
    <2> QED
        BY <1>5, <2>1, <2>2, <2>3, <2>4 DEF Reload, Load, LogHeightKept, Remembered
  <1>6. ASSUME NEW w \in Windows, WindowResized(w) PROVE SizeInv'
    <2>1. w \in Nat
        BY LogResizeAssumption
    <2>2. shown' = IF wanted > 0 THEN ClampHeight(wanted, w) ELSE 0
        BY <1>6 DEF WindowResized, LogHeightKept
    <2>3. shown' \in Nat /\ (shown' > 0 => shown' \in MinHeight..Highest(w))
        BY <1>0, <2>1, <2>2, ClampBounds, LogResizeAssumption
    <2> QED
        BY <1>6, <2>2, <2>3 DEF WindowResized, LogResizeTypeOK, LogHeightKept, Remembered
  <1>7. CASE UNCHANGED sizeVars
      BY <1>7 DEF sizeVars, LogResizeTypeOK, LogHeightKept, Remembered
  <1> QED
      BY <1>1, <1>2, <1>3, <1>4, <1>5, <1>6, <1>7 DEF SizeNext

\* Whatever the storage held and however the window changes and the grip is
\* dragged: the height is between its bounds, a smaller window only hides the
\* chosen one, and what is chosen is what is stored (web/static/log-resize.js).
THEOREM LogHeightCorrect == LogResizeSpec => []LogHeightKept
  <1>1. SizeInv => LogHeightKept
      BY DEF SizeInv
  <1> QED
      BY <1>1, SizeInvInit, SizeInvStep, PTL DEF LogResizeSpec

\* The variables of the log's height keep their types.
THEOREM LogResizeTypeCorrect == LogResizeSpec => []LogResizeTypeOK
  <1>1. SizeInv => LogResizeTypeOK
      BY DEF SizeInv
  <1> QED
      BY <1>1, SizeInvInit, SizeInvStep, PTL DEF LogResizeSpec

-----------------------------------------------------------------------------
(* LogPanel                                                                *)

\* addEventListener for each of the two buttons, once: a click of either calls one
\* listener, and a panel that was not set up calls none.
LEMMA DispatchedFacts ==
    /\ \A button : Dispatched(<<>>, button) = 0
    /\ \A button \in {"copy", "clear"} :
          Dispatched(AddEventListener(AddEventListener(<<>>, "copy"), "clear"), button) = 1
<1> DEFINE both == AddEventListener(AddEventListener(<<>>, "copy"), "clear")
<1>1. ASSUME NEW button PROVE Dispatched(<<>>, button) = 0
  <2>1. {i \in DOMAIN <<>> : <<>>[i] = button} = {}
    OBVIOUS
  <2> QED BY <2>1, FS_EmptySet DEF Dispatched
<1>2. both \in Seq({"copy", "clear"}) /\ Len(both) = 2 /\ both[1] = "copy" /\ both[2] = "clear"
  <2>1. LET one == Append(<<>>, "copy")
        IN one \in Seq({"copy", "clear"}) /\ Len(one) = 1 /\ one[1] = "copy"
    OBVIOUS
  <2> QED BY <2>1 DEF AddEventListener
<1> HIDE DEF both
<1>3. {i \in DOMAIN both : both[i] = "copy"} = {1} /\ {i \in DOMAIN both : both[i] = "clear"} = {2}
  <2>1. DOMAIN both = {1, 2}
    BY <1>2
  <2> QED BY <1>2, <2>1
<1>4. Cardinality({1}) = 1 /\ Cardinality({2}) = 1
  BY FS_Singleton
<1> QED BY <1>1, <1>3, <1>4 DEF Dispatched, both

\* A panel's listeners are those of one set up.
Listening ==
    buttons = IF ready THEN AddEventListener(AddEventListener(<<>>, "copy"), "clear") ELSE <<>>

\* What is under way of copies, only after the set up, and the label it leaves.
Copying ==
    /\ writing \in Nat /\ timers \in Nat /\ areas \in Nat
    /\ ~ready => writing = 0 /\ timers = 0
    /\ label \in [text : Labels, kept : Labels] /\ label.kept = "Copy"
    /\ writing = 0 /\ timers = 0 => label.text = "Copy"
    /\ areas = threw

\* The script takes the checkbox over at the set up; lines from before it excuse a
\* position that is not the end.
Following ==
    /\ {ready, ticked, liveTail, noted, off} \subseteq BOOLEAN
    /\ log \in [lines : Nat, at : Nat]
    /\ IF ready THEN liveTail = ticked ELSE liveTail
    /\ liveTail /\ ~noted /\ ~off => log.at = log.lines

PanelInv == Listening /\ Copying /\ Following

LEMMA PanelInvInit == PanelInit => PanelInv
<1> SUFFICES ASSUME PanelInit PROVE PanelInv
  OBVIOUS
<1>1. Listening
  BY DEF PanelInit, Listening
<1>2. Copying
  BY DEF PanelInit, Copying, Labels
<1>3. Following
  BY DEF PanelInit, Following
<1> QED BY <1>1, <1>2, <1>3 DEF PanelInv

LEMMA PanelInvStep == PanelInv /\ [PanelNext]_panelVars => PanelInv'
<1> SUFFICES ASSUME PanelInv, [PanelNext]_panelVars PROVE PanelInv'
  OBVIOUS
<1> USE DEF PanelInv
<1>1. CASE InitLogPanels
  <2>1. Listening'
    BY <1>1 DEF InitLogPanels, Listening
  <2>2. Copying'
    BY <1>1 DEF InitLogPanels, Copying
  <2>3. Following'
    BY <1>1 DEF InitLogPanels, Following
  <2> QED BY <2>1, <2>2, <2>3
<1>2. CASE PanelSwapped
  BY <1>2 DEF PanelSwapped, Fresh, Listening, Copying, Following, Labels
<1>3. CASE Tick
  BY <1>3 DEF Tick, ToEnd, Listening, Copying, Following
<1>4. CASE LineAdded
  BY <1>4 DEF LineAdded, Listening, Copying, Following
<1>5. CASE LogCleared
  BY <1>5 DEF LogCleared, Listening, Copying, Following
<1>6. CASE Observe
  BY <1>6 DEF Observe, ToEnd, Listening, Copying, Following
<1>7. CASE ScrollLog
  BY <1>7 DEF ScrollLog, Listening, Copying, Following
<1>8. CASE CopyClick
  <2>1. Dispatched(buttons, "copy") = 1
    BY <1>8, DispatchedFacts DEF CopyClick, Listening
  <2>2. Copying'
    <3>1. CASE secure
      BY <1>8, <2>1, <3>1 DEF CopyClick, Copying
    <3>2. CASE ~secure
      BY <1>8, <3>2 DEF CopyClick, CopyWithTextarea, Say, Copying, Labels
    <3> QED BY <3>1, <3>2
  <2> QED BY <1>8, <2>2 DEF CopyClick, Listening, Following
<1>9. CASE ClipboardAnswers
  <2>1. Copying'
    BY <1>9 DEF ClipboardAnswers, CopyWithTextarea, Say, Copying, Labels
  <2> QED BY <1>9, <2>1 DEF ClipboardAnswers, Listening, Following
<1>10. CASE LabelTimer
  BY <1>10 DEF LabelTimer, Listening, Copying, Following, Labels
<1>11. CASE UNCHANGED panelVars
  BY <1>11 DEF panelVars, Listening, Copying, Following
<1> QED BY <1>1, <1>2, <1>3, <1>4, <1>5, <1>6, <1>7, <1>8, <1>9, <1>10, <1>11 DEF PanelNext

\* With live tail off, only the user and Clear move what is shown.
LEMMA StaysStep == PanelInv /\ [PanelNext]_panelVars => [StaysWhenOff]_panelVars
<1> SUFFICES ASSUME PanelInv, PanelNext PROVE StaysWhenOff
  OBVIOUS
<1>0. log \in [lines : Nat, at : Nat] /\ liveTail \in BOOLEAN /\ off \in BOOLEAN
  BY DEF PanelInv, Following
<1>1. CASE InitLogPanels \/ PanelSwapped
  BY <1>1 DEF InitLogPanels, PanelSwapped, Fresh, StaysWhenOff
<1>2. CASE Tick \/ Observe
  BY <1>2 DEF Tick, Observe, StaysWhenOff
<1>3. CASE LineAdded
  <2>1. log'.at = log.at
    BY <1>0, <1>3 DEF LineAdded
  <2> QED BY <2>1 DEF StaysWhenOff
<1>4. CASE LogCleared \/ ScrollLog
  BY <1>4 DEF LogCleared, ScrollLog, StaysWhenOff
<1>5. CASE CopyClick \/ ClipboardAnswers \/ LabelTimer
  BY <1>5 DEF CopyClick, ClipboardAnswers, LabelTimer, StaysWhenOff
<1> QED BY <1>1, <1>2, <1>3, <1>4, <1>5 DEF PanelNext

\* LogPanelKept: after every swap initLogPanels sets a panel up once, so that a click
\* copies once; a panel with live tail shows the end of its log once the observer has
\* reported, one without it stays where the user left it; and the copy button gets
\* its own text back, however many copies and timeouts overlap.
THEOREM LogPanelCorrect == LogPanelSpec => LogPanelKept
<1>1. PanelInv => ShowsTheEnd /\ CopiesLeaveNoTrace
  <2> SUFFICES ASSUME PanelInv PROVE ShowsTheEnd /\ CopiesLeaveNoTrace
    OBVIOUS
  <2>1. ShowsTheEnd
    BY DEF PanelInv, Following, ShowsTheEnd
  <2>2. \A button \in {"copy", "clear"} : Dispatched(buttons, button) = (IF ready THEN 1 ELSE 0)
    BY DispatchedFacts DEF PanelInv, Listening
  <2> QED BY <2>1, <2>2 DEF PanelInv, Copying, CopiesLeaveNoTrace
<1> QED BY <1>1, PanelInvInit, PanelInvStep, StaysStep, PTL DEF LogPanelSpec, LogPanelKept

-----------------------------------------------------------------------------
(* ErrorNotice: the tree and its sequences                                 *)

\* A piece of a sequence, which may be empty.
LEMMA PieceFacts ==
    ASSUME NEW S, NEW s \in Seq(S), NEW m \in 1..Len(s) + 1, NEW n \in (m - 1)..Len(s)
    PROVE  /\ SubSeq(s, m, n) \in Seq(S) /\ Len(SubSeq(s, m, n)) = n - m + 1
           /\ \A k \in 1..(n - m + 1) : SubSeq(s, m, n)[k] = s[m + k - 1]
<1>1. Len(s) \in Nat /\ m \in Int /\ n \in Int /\ \A k \in m..n : s[k] \in S
  BY LenProperties, ElementOfSeq
<1>2. /\ SubSeq(s, m, n) \in Seq(S)
      /\ Len(SubSeq(s, m, n)) = IF m <= n THEN n - m + 1 ELSE 0
      /\ \A k \in 1..(n - m + 1) : SubSeq(s, m, n)[k] = s[m + k - 1]
  BY <1>1, SubSeqProperties
<1> QED BY <1>1, <1>2

\* RemoveAt and InsertAt, element by element.
LEMMA RemoveAtFacts ==
    ASSUME NEW S, NEW s \in Seq(S), NEW i \in 1..Len(s)
    PROVE  /\ RemoveAt(s, i) \in Seq(S) /\ Len(RemoveAt(s, i)) = Len(s) - 1
           /\ \A k \in 1..(Len(s) - 1) : RemoveAt(s, i)[k] = IF k < i THEN s[k] ELSE s[k + 1]
<1> DEFINE u == SubSeq(s, 1, i - 1)
           v == SubSeq(s, i + 1, Len(s))
<1>0. Len(s) \in Nat /\ i \in Nat
  BY LenProperties
<1>1. u \in Seq(S) /\ Len(u) = i - 1 /\ \A k \in 1..(i - 1) : u[k] = s[k]
  <2>1. 1 \in 1..Len(s) + 1 /\ i - 1 \in (1 - 1)..Len(s)
    BY <1>0
  <2>2. i - 1 - 1 + 1 = i - 1 /\ \A k \in Int : 1 + k - 1 = k
    BY <1>0
  <2>3. /\ u \in Seq(S) /\ Len(u) = i - 1 - 1 + 1
        /\ \A k \in 1..(i - 1 - 1 + 1) : u[k] = s[1 + k - 1]
    BY <2>1, PieceFacts
  <2> QED BY <1>0, <2>2, <2>3
<1>2. v \in Seq(S) /\ Len(v) = Len(s) - i /\ \A k \in 1..(Len(s) - i) : v[k] = s[i + k]
  <2>1. i + 1 \in 1..Len(s) + 1 /\ Len(s) \in (i + 1 - 1)..Len(s)
    BY <1>0
  <2>2. Len(s) - (i + 1) + 1 = Len(s) - i /\ \A k \in Int : i + 1 + k - 1 = i + k
    BY <1>0
  <2>3. /\ v \in Seq(S) /\ Len(v) = Len(s) - (i + 1) + 1
        /\ \A k \in 1..(Len(s) - (i + 1) + 1) : v[k] = s[i + 1 + k - 1]
    BY <2>1, PieceFacts
  <2>4. \A k \in 1..(Len(s) - i) : v[k] = s[i + k]
    <3> TAKE k \in 1..(Len(s) - i)
    <3>1. k \in 1..(Len(s) - (i + 1) + 1) /\ k \in Int
      BY <2>2
    <3>2. v[k] = s[i + 1 + k - 1] /\ i + 1 + k - 1 = i + k
      BY <2>2, <2>3, <3>1
    <3> QED BY <3>2
  <2> QED BY <2>2, <2>3, <2>4
<1>3. RemoveAt(s, i) = u \o v
  BY DEF RemoveAt
<1> HIDE DEF u, v
<1>4. /\ u \o v \in Seq(S) /\ Len(u \o v) = Len(u) + Len(v)
      /\ \A k \in 1..(Len(u) + Len(v)) :
            (u \o v)[k] = IF k <= Len(u) THEN u[k] ELSE v[k - Len(u)]
  BY <1>1, <1>2, ConcatProperties
<1>5. ASSUME NEW k \in 1..(Len(s) - 1)
      PROVE  (u \o v)[k] = IF k < i THEN s[k] ELSE s[k + 1]
  <2>1. CASE k < i
    <3>1. k \in 1..(i - 1) /\ k \in 1..(Len(u) + Len(v)) /\ k <= Len(u)
      BY <1>0, <1>1, <1>2, <2>1
    <3>2. (u \o v)[k] = u[k]
      BY <1>4, <3>1
    <3> QED BY <1>1, <2>1, <3>1, <3>2
  <2>2. CASE ~(k < i)
    <3>1. k - (i - 1) \in 1..(Len(s) - i) /\ i + (k - (i - 1)) = k + 1
      BY <1>0, <2>2
    <3>2. k \in 1..(Len(u) + Len(v)) /\ ~(k <= Len(u))
      BY <1>0, <1>1, <1>2, <2>2
    <3>3. (u \o v)[k] = v[k - Len(u)]
      BY <1>4, <3>2
    <3> QED BY <1>1, <1>2, <2>2, <3>1, <3>3
  <2> QED BY <2>1, <2>2
<1> QED BY <1>0, <1>1, <1>2, <1>3, <1>4, <1>5

LEMMA InsertAtFacts ==
    ASSUME NEW S, NEW s \in Seq(S), NEW i \in 1..Len(s), NEW x \in S
    PROVE  /\ InsertAt(s, i, x) \in Seq(S) /\ Len(InsertAt(s, i, x)) = Len(s) + 1
           /\ \A k \in 1..(Len(s) + 1) : InsertAt(s, i, x)[k] =
                  IF k < i THEN s[k] ELSE IF k = i THEN x ELSE s[k - 1]
<1> DEFINE u == SubSeq(s, 1, i - 1)
           v == SubSeq(s, i, Len(s))
<1>0. Len(s) \in Nat /\ i \in Nat
  BY LenProperties
<1>1. u \in Seq(S) /\ Len(u) = i - 1 /\ \A k \in 1..(i - 1) : u[k] = s[k]
  <2>1. 1 \in 1..Len(s) + 1 /\ i - 1 \in (1 - 1)..Len(s)
    BY <1>0
  <2>2. i - 1 - 1 + 1 = i - 1 /\ \A k \in Int : 1 + k - 1 = k
    BY <1>0
  <2>3. /\ u \in Seq(S) /\ Len(u) = i - 1 - 1 + 1
        /\ \A k \in 1..(i - 1 - 1 + 1) : u[k] = s[1 + k - 1]
    BY <2>1, PieceFacts
  <2> QED BY <1>0, <2>2, <2>3
<1>2. /\ v \in Seq(S) /\ Len(v) = Len(s) - i + 1
      /\ \A k \in 1..(Len(s) - i + 1) : v[k] = s[i + k - 1]
  <2>1. i \in 1..Len(s) + 1 /\ Len(s) \in (i - 1)..Len(s)
    BY <1>0
  <2> QED BY <2>1, PieceFacts
<1>3. InsertAt(s, i, x) = (u \o <<x>>) \o v
  BY DEF InsertAt
<1> HIDE DEF u, v
<1>4. /\ u \o <<x>> \in Seq(S) /\ Len(u \o <<x>>) = i
      /\ \A k \in 1..i : (u \o <<x>>)[k] = IF k < i THEN s[k] ELSE x
  <2> DEFINE one == <<x>>
  <2>1. one \in Seq(S) /\ Len(one) = 1 /\ one[1] = x
    OBVIOUS
  <2> HIDE DEF one
  <2>2. /\ u \o one \in Seq(S) /\ Len(u \o one) = Len(u) + Len(one)
        /\ \A k \in 1..(Len(u) + Len(one)) :
              (u \o one)[k] = IF k <= Len(u) THEN u[k] ELSE one[k - Len(u)]
    BY <1>1, <2>1, ConcatProperties
  <2>3. u \o one \in Seq(S) /\ Len(u \o one) = i
    BY <1>0, <1>1, <2>1, <2>2
  <2>4. \A k \in 1..i : (u \o one)[k] = IF k < i THEN s[k] ELSE x
    BY <1>0, <1>1, <2>1, <2>2
  <2> QED BY <2>3, <2>4 DEF one
<1> DEFINE w == u \o <<x>>
<1> HIDE DEF w
<1>11. w \in Seq(S) /\ v \in Seq(S)
  BY <1>2, <1>4 DEF w
<1>5. /\ w \o v \in Seq(S) /\ Len(w \o v) = Len(w) + Len(v)
      /\ \A k \in 1..(Len(w) + Len(v)) :
            (w \o v)[k] = IF k <= Len(w) THEN w[k] ELSE v[k - Len(w)]
  BY <1>11, ConcatProperties
<1>6. Len(w) = i /\ \A k \in 1..i : w[k] = IF k < i THEN s[k] ELSE x
  BY <1>4 DEF w
<1>7. ASSUME NEW k \in 1..(Len(s) + 1)
      PROVE  (w \o v)[k] = IF k < i THEN s[k] ELSE IF k = i THEN x ELSE s[k - 1]
  <2>1. CASE k <= i
    <3>1. k \in 1..i /\ k \in 1..(Len(w) + Len(v)) /\ k <= Len(w)
      BY <1>0, <1>2, <1>6, <2>1
    <3>2. (w \o v)[k] = w[k]
      BY <1>5, <3>1
    <3> QED BY <1>6, <2>1, <3>1, <3>2
  <2>2. CASE ~(k <= i)
    <3>1. k - i \in 1..(Len(s) - i + 1) /\ i + (k - i) - 1 = k - 1
      BY <1>0, <2>2
    <3>2. k \in 1..(Len(w) + Len(v)) /\ ~(k <= Len(w)) /\ k - Len(w) = k - i
      BY <1>0, <1>2, <1>6, <2>2
    <3>3. (w \o v)[k] = v[k - i]
      BY <1>5, <3>2
    <3> QED BY <1>0, <1>2, <2>2, <3>1, <3>3
  <2> QED BY <2>1, <2>2
<1>8. InsertAt(s, i, x) = w \o v
  BY <1>3 DEF w
<1>9. Len(w) + Len(v) = Len(s) + 1
  BY <1>0, <1>2, <1>6
<1> QED BY <1>5, <1>7, <1>8, <1>9

\* Lists of one, two and three.
LEMMA ListOfOne ==
    ASSUME NEW S, NEW r \in Seq(S), NEW a \in S, Len(r) = 1, r[1] = a
    PROVE  r = <<a>>
<1> DEFINE s == <<a>>
<1>1. s \in Seq(S) /\ Len(s) = 1 /\ s[1] = a
  OBVIOUS
<1> HIDE DEF s
<1>2. \A i \in 1..1 : r[i] = s[i]
  BY <1>1
<1>3. r = s
  BY <1>1, <1>2, SeqEqual
<1> QED BY <1>3 DEF s

LEMMA ListOfTwo ==
    ASSUME NEW S, NEW r \in Seq(S), NEW a \in S, NEW b \in S, Len(r) = 2, r[1] = a, r[2] = b
    PROVE  r = <<a, b>>
<1> DEFINE s == <<a, b>>
<1>1. s \in Seq(S) /\ Len(s) = 2 /\ s[1] = a /\ s[2] = b
  OBVIOUS
<1> HIDE DEF s
<1>2. \A i \in 1..2 : r[i] = s[i]
  <2>1. \A i \in 1..2 : i = 1 \/ i = 2
    OBVIOUS
  <2> QED BY <1>1, <2>1
<1>3. r = s
  BY <1>1, <1>2, SeqEqual
<1> QED BY <1>3 DEF s

LEMMA ListOfThree ==
    ASSUME NEW S, NEW r \in Seq(S), NEW a \in S, NEW b \in S, NEW c \in S,
           Len(r) = 3, r[1] = a, r[2] = b, r[3] = c
    PROVE  r = <<a, b, c>>
<1> DEFINE s == <<a, b, c>>
<1>1. s \in Seq(S) /\ Len(s) = 3 /\ s[1] = a /\ s[2] = b /\ s[3] = c
  OBVIOUS
<1> HIDE DEF s
<1>2. \A i \in 1..3 : r[i] = s[i]
  <2>1. \A i \in 1..3 : i = 1 \/ i = 2 \/ i = 3
    OBVIOUS
  <2> QED BY <1>1, <2>1
<1>3. r = s
  BY <1>1, <1>2, SeqEqual
<1> QED BY <1>3 DEF s

\* What taking out and putting in do to the short lists of children.
LEMMA TakenOfThree ==
    ASSUME NEW a, NEW b, NEW c
    PROVE  /\ RemoveAt(<<a, b, c>>, 1) = <<b, c>>
           /\ RemoveAt(<<a, b, c>>, 2) = <<a, c>>
<1> DEFINE S == {a, b, c}
           three == <<a, b, c>>
<1>1. a \in S /\ b \in S /\ c \in S
  OBVIOUS
<1> HIDE DEF S
<1>2. /\ three \in Seq(S) /\ Len(three) = 3
      /\ three[1] = a /\ three[2] = b /\ three[3] = c
  BY <1>1
<1> HIDE DEF three
<1>3. ASSUME NEW i \in 1..3
      PROVE  /\ RemoveAt(three, i) \in Seq(S) /\ Len(RemoveAt(three, i)) = 2
             /\ \A k \in 1..2 : RemoveAt(three, i)[k] = IF k < i THEN three[k] ELSE three[k + 1]
  <2>1. i \in 1..Len(three) /\ Len(three) - 1 = 2
    BY <1>2
  <2> QED BY <1>2, <2>1, RemoveAtFacts
<1>4. ASSUME NEW i \in 1..3
      PROVE  /\ RemoveAt(three, i)[1] = IF 1 < i THEN a ELSE b
             /\ RemoveAt(three, i)[2] = IF 2 < i THEN b ELSE c
  BY <1>2, <1>3
<1>5. RemoveAt(three, 1) = <<b, c>> /\ RemoveAt(three, 2) = <<a, c>>
  <2>1. 1 \in 1..3 /\ 2 \in 1..3
    OBVIOUS
  <2> QED BY <1>1, <1>3, <1>4, <2>1, ListOfTwo
<1> QED BY <1>5 DEF three

LEMMA TakenOfTwo ==
    ASSUME NEW a, NEW b
    PROVE  RemoveAt(<<a, b>>, 2) = <<a>>
<1> DEFINE S == {a, b}
           two == <<a, b>>
<1>1. a \in S /\ b \in S
  OBVIOUS
<1> HIDE DEF S
<1>2. two \in Seq(S) /\ Len(two) = 2 /\ two[1] = a
  BY <1>1
<1> HIDE DEF two
<1>3. 2 \in 1..Len(two) /\ Len(two) - 1 = 1 /\ 1 \in 1..1 /\ 1 < 2
  BY <1>2
<1>4. RemoveAt(two, 2) \in Seq(S) /\ Len(RemoveAt(two, 2)) = 1 /\ RemoveAt(two, 2)[1] = a
  BY <1>2, <1>3, RemoveAtFacts
<1>5. RemoveAt(two, 2) = <<a>>
  BY <1>1, <1>4, ListOfOne
<1> QED BY <1>5 DEF two

LEMMA PutIntoTwo ==
    ASSUME NEW a, NEW b, NEW c
    PROVE  /\ InsertAt(<<a, b>>, 1, c) = <<c, a, b>>
           /\ InsertAt(<<a, b>>, 2, c) = <<a, c, b>>
<1> DEFINE S == {a, b, c}
           two == <<a, b>>
<1>1. a \in S /\ b \in S /\ c \in S
  OBVIOUS
<1> HIDE DEF S
<1>2. two \in Seq(S) /\ Len(two) = 2 /\ two[1] = a /\ two[2] = b
  BY <1>1
<1> HIDE DEF two
<1>3. ASSUME NEW i \in 1..2
      PROVE  /\ InsertAt(two, i, c) \in Seq(S) /\ Len(InsertAt(two, i, c)) = 3
             /\ \A k \in 1..3 : InsertAt(two, i, c)[k] =
                   IF k < i THEN two[k] ELSE IF k = i THEN c ELSE two[k - 1]
  <2>0. c \in S
    BY <1>1
  <2>1. two \in Seq(S)
    BY <1>2
  <2>2. i \in 1..Len(two)
    BY <1>2
  <2>3. Len(two) + 1 = 3
    BY <1>2
  <2>4. InsertAt(two, i, c) \in Seq(S)
    BY <2>0, <2>1, <2>2, InsertAtFacts
  <2>5. Len(InsertAt(two, i, c)) = Len(two) + 1
    BY <2>0, <2>1, <2>2, InsertAtFacts
  <2>6. \A k \in 1..(Len(two) + 1) : InsertAt(two, i, c)[k] =
           IF k < i THEN two[k] ELSE IF k = i THEN c ELSE two[k - 1]
    BY <2>0, <2>1, <2>2, InsertAtFacts
  <2> QED BY <2>3, <2>4, <2>5, <2>6
<1>4. ASSUME NEW i \in 1..2
      PROVE  /\ InsertAt(two, i, c)[1] = IF 1 < i THEN a ELSE c
             /\ InsertAt(two, i, c)[2] = IF i = 2 THEN c ELSE a
             /\ InsertAt(two, i, c)[3] = b
  BY <1>2, <1>3
<1>5. InsertAt(two, 1, c) = <<c, a, b>> /\ InsertAt(two, 2, c) = <<a, c, b>>
  <2>1. 1 \in 1..2 /\ 2 \in 1..2
    OBVIOUS
  <2> QED BY <1>1, <1>3, <1>4, <2>1, ListOfThree
<1> QED BY <1>5 DEF two

LEMMA PutIntoOne ==
    ASSUME NEW a, NEW c
    PROVE  InsertAt(<<a>>, 1, c) = <<c, a>>
<1> DEFINE S == {a, c}
           one == <<a>>
<1>0. c \in S
  OBVIOUS
<1>1. a \in S
  OBVIOUS
<1> HIDE DEF S
<1>2. one \in Seq(S) /\ Len(one) = 1 /\ one[1] = a
  BY <1>1
<1> HIDE DEF one
<1>3. one \in Seq(S)
  BY <1>2
<1>4. 1 \in 1..Len(one)
  BY <1>2
<1>5. Len(one) + 1 = 2
  BY <1>2
<1>6. InsertAt(one, 1, c) \in Seq(S)
  BY <1>0, <1>3, <1>4, InsertAtFacts
<1>7. Len(InsertAt(one, 1, c)) = Len(one) + 1
  BY <1>0, <1>3, <1>4, InsertAtFacts
<1>8. \A k \in 1..(Len(one) + 1) : InsertAt(one, 1, c)[k] =
         IF k < 1 THEN one[k] ELSE IF k = 1 THEN c ELSE one[k - 1]
  BY <1>0, <1>3, <1>4, InsertAtFacts
<1> DEFINE r == InsertAt(one, 1, c)
<1> HIDE DEF r
<1>9. r[1] = c
  <2>1. 1 \in 1..(Len(one) + 1) /\ ~(1 < 1)
    BY <1>5
  <2> QED BY <1>8, <2>1 DEF r
<1>10. r[2] = a
  <2>1. 2 \in 1..(Len(one) + 1) /\ ~(2 < 1) /\ 2 # 1 /\ 2 - 1 = 1
    BY <1>5
  <2>2. r[2] = one[2 - 1]
    BY <1>8, <2>1 DEF r
  <2> QED BY <1>2, <2>1, <2>2
<1>11. r \in Seq(S) /\ Len(r) = 2
  BY <1>5, <1>6, <1>7 DEF r
<1>12. r = <<c, a>>
  BY <1>0, <1>1, <1>9, <1>10, <1>11, ListOfTwo
<1> QED BY <1>12 DEF one, r

\* The trees the page can be, cards being what the panel shows and at the element
\* the notice is in.
Kids(cards, at) ==
    [p \in Nodes |->
        CASE p = "body" -> <<"main">>
          [] p = "main" -> IF at = "main" THEN <<"notice", "title", "panel">> ELSE <<"title", "panel">>
          [] p = "panel" -> cards
          [] p = "card" -> <<"act", "dialog">>
          [] p = "dialog" -> <<"article">>
          [] p = "article" -> IF at = "article" THEN <<"header", "notice", "send">> ELSE <<"header", "send">>
          [] p = "card2" -> <<"act2">>
          [] OTHER -> <<>>]

Cards == {<<"card">>, <<"card2">>}
Places == {"none", "main", "article"}

\* What the panel shows while a card is replaced.
Both == <<"card2", "card">>

\* The children of each element of such a tree, as sequences and as sets.
LEMMA KidsFacts ==
    ASSUME NEW cards \in Cards \cup {Both}, NEW at \in Places
    PROVE  /\ DOMAIN Kids(cards, at) = Nodes
           /\ Kids(cards, at)["body"] = <<"main">>
           /\ Kids(cards, at)["main"] = IF at = "main" THEN <<"notice", "title", "panel">> ELSE <<"title", "panel">>
           /\ Kids(cards, at)["panel"] = cards
           /\ Kids(cards, at)["card"] = <<"act", "dialog">>
           /\ Kids(cards, at)["dialog"] = <<"article">>
           /\ Kids(cards, at)["article"] = IF at = "article" THEN <<"header", "notice", "send">> ELSE <<"header", "send">>
           /\ Kids(cards, at)["card2"] = <<"act2">>
           /\ \A p \in {"title", "act", "header", "send", "act2", "notice"} : Kids(cards, at)[p] = <<>>
  BY PageAssumption DEF Kids

LEMMA SetOfOne ==
    ASSUME NEW a
    PROVE  ToSet(<<a>>) = {a}
  BY DEF ToSet

LEMMA SetOfTwo ==
    ASSUME NEW a, NEW b
    PROVE  ToSet(<<a, b>>) = {a, b}
  BY DEF ToSet

LEMMA SetOfThree ==
    ASSUME NEW a, NEW b, NEW c
    PROVE  ToSet(<<a, b, c>>) = {a, b, c}
  BY DEF ToSet

LEMMA BodySet ==
    ASSUME NEW cards \in Cards \cup {Both}, NEW at \in Places
    PROVE  ToSet(Kids(cards, at)["body"]) = {"main"}
<1>1. Kids(cards, at)["body"] = <<"main">>
  BY KidsFacts
<1> QED BY <1>1, SetOfOne

LEMMA MainSet ==
    ASSUME NEW cards \in Cards \cup {Both}, NEW at \in Places
    PROVE  ToSet(Kids(cards, at)["main"]) = {"title", "panel"} \cup (IF at = "main" THEN {"notice"} ELSE {})
<1>1. Kids(cards, at)["main"] = IF at = "main" THEN <<"notice", "title", "panel">> ELSE <<"title", "panel">>
  BY KidsFacts
<1>2. CASE at = "main"
  <2>1. ToSet(<<"notice", "title", "panel">>) = {"notice", "title", "panel"}
    BY SetOfThree
  <2> QED BY <1>1, <1>2, <2>1
<1>3. CASE at # "main"
  <2>1. ToSet(<<"title", "panel">>) = {"title", "panel"}
    BY SetOfTwo
  <2> QED BY <1>1, <1>3, <2>1
<1> QED BY <1>2, <1>3

LEMMA PanelSet ==
    ASSUME NEW cards \in Cards \cup {Both}, NEW at \in Places
    PROVE  ToSet(Kids(cards, at)["panel"]) = ToSet(cards)
  BY KidsFacts

LEMMA CardSet ==
    ASSUME NEW cards \in Cards \cup {Both}, NEW at \in Places
    PROVE  ToSet(Kids(cards, at)["card"]) = {"act", "dialog"}
<1>1. Kids(cards, at)["card"] = <<"act", "dialog">>
  BY KidsFacts
<1> QED BY <1>1, SetOfTwo

LEMMA DialogSet ==
    ASSUME NEW cards \in Cards \cup {Both}, NEW at \in Places
    PROVE  ToSet(Kids(cards, at)["dialog"]) = {"article"}
<1>1. Kids(cards, at)["dialog"] = <<"article">>
  BY KidsFacts
<1> QED BY <1>1, SetOfOne

LEMMA ArticleSet ==
    ASSUME NEW cards \in Cards \cup {Both}, NEW at \in Places
    PROVE  ToSet(Kids(cards, at)["article"]) = {"header", "send"} \cup (IF at = "article" THEN {"notice"} ELSE {})
<1>1. Kids(cards, at)["article"] = IF at = "article" THEN <<"header", "notice", "send">> ELSE <<"header", "send">>
  BY KidsFacts
<1>2. CASE at = "article"
  <2>1. ToSet(<<"header", "notice", "send">>) = {"header", "notice", "send"}
    BY SetOfThree
  <2> QED BY <1>1, <1>2, <2>1
<1>3. CASE at # "article"
  <2>1. ToSet(<<"header", "send">>) = {"header", "send"}
    BY SetOfTwo
  <2> QED BY <1>1, <1>3, <2>1
<1> QED BY <1>2, <1>3

LEMMA CardTwoSet ==
    ASSUME NEW cards \in Cards \cup {Both}, NEW at \in Places
    PROVE  ToSet(Kids(cards, at)["card2"]) = {"act2"}
<1>1. Kids(cards, at)["card2"] = <<"act2">>
  BY KidsFacts
<1> QED BY <1>1, SetOfOne

LEMMA EmptySets ==
    ASSUME NEW cards \in Cards \cup {Both}, NEW at \in Places,
           NEW p \in {"title", "act", "header", "send", "act2", "notice"}
    PROVE  ToSet(Kids(cards, at)[p]) = {}
<1>1. Kids(cards, at)[p] = <<>>
  BY KidsFacts
<1>2. ToSet(<<>>) = {}
  BY DEF ToSet
<1> QED BY <1>1, <1>2

LEMMA CardSets ==
    /\ ToSet(<<"card">>) = {"card"} /\ ToSet(<<"card2">>) = {"card2"} /\ ToSet(Both) = {"card", "card2"}
  BY DEF ToSet, Both

\* The one element that n is a child of.
ParentOf(cards, at, n) ==
    CASE n = "body" -> NoNode
      [] n = "main" -> "body"
      [] n \in {"title", "panel"} -> "main"
      [] n \in {"card", "card2"} -> IF n \in ToSet(cards) THEN "panel" ELSE NoNode
      [] n \in {"act", "dialog"} -> "card"
      [] n = "article" -> "dialog"
      [] n \in {"header", "send"} -> "article"
      [] n = "act2" -> "card2"
      [] n = "notice" -> IF at = "none" THEN NoNode ELSE at

LEMMA ParentFacts ==
    ASSUME NEW cards \in Cards \cup {Both}, NEW at \in Places, NEW n \in Nodes
    PROVE  Parent(Kids(cards, at), n) = ParentOf(cards, at, n)
<1> DEFINE t == Kids(cards, at)
<1>1. Parents(t, n) = {p \in Nodes : n \in ToSet(t[p])}
  BY KidsFacts DEF Parents
<1>2. ToSet(cards) \subseteq {"card", "card2"}
  BY CardSets DEF Cards
<1>3. \A p \in Nodes : n \in ToSet(t[p]) <=> p = ParentOf(cards, at, n)
  <2> HIDE DEF t
  <2>0. NoNode \notin {"body", "main", "title", "panel", "card", "act", "dialog", "article",
                     "header", "send", "card2", "act2", "notice"}
    BY PageAssumption, NoNodeAssumption
  <2>1. ParentOf(cards, at, n) = "body" <=> n = "main"
    BY <2>0, <1>2, PageAssumption, NoNodeAssumption DEF ParentOf, Places
  <2>2. ParentOf(cards, at, n) = "main" <=> n \in {"title", "panel"} \/ (n = "notice" /\ at = "main")
    BY <2>0, <1>2, PageAssumption, NoNodeAssumption DEF ParentOf, Places
  <2>3. ParentOf(cards, at, n) = "panel" <=> n \in ToSet(cards)
    BY <2>0, <1>2, PageAssumption, NoNodeAssumption DEF ParentOf, Places
  <2>4. ParentOf(cards, at, n) = "card" <=> n \in {"act", "dialog"}
    BY <2>0, <1>2, PageAssumption, NoNodeAssumption DEF ParentOf, Places
  <2>5. ParentOf(cards, at, n) = "dialog" <=> n = "article"
    BY <2>0, <1>2, PageAssumption, NoNodeAssumption DEF ParentOf, Places
  <2>6. ParentOf(cards, at, n) = "article" <=> n \in {"header", "send"} \/ (n = "notice" /\ at = "article")
    BY <2>0, <1>2, PageAssumption, NoNodeAssumption DEF ParentOf, Places
  <2>7. ParentOf(cards, at, n) = "card2" <=> n = "act2"
    BY <2>0, <1>2, PageAssumption, NoNodeAssumption DEF ParentOf, Places
  <2>8. ParentOf(cards, at, n) \notin {"title", "act", "header", "send", "act2", "notice"}
    BY <2>0, <1>2, PageAssumption DEF ParentOf, Places
  <2>9. ASSUME NEW p \in Nodes PROVE n \in ToSet(t[p]) <=> p = ParentOf(cards, at, n)
    <3>1. n \in ToSet(t["body"]) <=> "body" = ParentOf(cards, at, n)
      <4>1. ToSet(t["body"]) = {"main"}
        BY BodySet DEF t
      <4> QED BY <2>1, <4>1
    <3>2. n \in ToSet(t["main"]) <=> "main" = ParentOf(cards, at, n)
      <4>1. ToSet(t["main"]) = {"title", "panel"} \cup (IF at = "main" THEN {"notice"} ELSE {})
        BY MainSet DEF t
      <4> QED BY <2>2, <4>1
    <3>3. n \in ToSet(t["panel"]) <=> "panel" = ParentOf(cards, at, n)
      <4>1. ToSet(t["panel"]) = ToSet(cards)
        BY PanelSet DEF t
      <4> QED BY <2>3, <4>1
    <3>4. n \in ToSet(t["card"]) <=> "card" = ParentOf(cards, at, n)
      <4>1. ToSet(t["card"]) = {"act", "dialog"}
        BY CardSet DEF t
      <4> QED BY <2>4, <4>1
    <3>5. n \in ToSet(t["dialog"]) <=> "dialog" = ParentOf(cards, at, n)
      <4>1. ToSet(t["dialog"]) = {"article"}
        BY DialogSet DEF t
      <4> QED BY <2>5, <4>1
    <3>6. n \in ToSet(t["article"]) <=> "article" = ParentOf(cards, at, n)
      <4>1. ToSet(t["article"]) = {"header", "send"} \cup (IF at = "article" THEN {"notice"} ELSE {})
        BY ArticleSet DEF t
      <4> QED BY <2>6, <4>1
    <3>7. n \in ToSet(t["card2"]) <=> "card2" = ParentOf(cards, at, n)
      <4>1. ToSet(t["card2"]) = {"act2"}
        BY CardTwoSet DEF t
      <4> QED BY <2>7, <4>1
    <3>8. CASE p \in {"title", "act", "header", "send", "act2", "notice"}
      BY <2>8, <3>8, EmptySets DEF t
    <3> QED BY <3>1, <3>2, <3>3, <3>4, <3>5, <3>6, <3>7, <3>8, PageAssumption
  <2> QED BY <2>9
<1>4. ParentOf(cards, at, n) \in Nodes \cup {NoNode}
  BY PageAssumption DEF ParentOf, Places
<1> HIDE DEF t
<1>5. CASE ParentOf(cards, at, n) = NoNode
  <2>1. Parents(t, n) = {}
    BY <1>1, <1>3, <1>5, NoNodeAssumption
  <2> QED BY <1>5, <2>1 DEF Parent, t
<1>6. CASE ParentOf(cards, at, n) \in Nodes
  <2>1. Parents(t, n) = {ParentOf(cards, at, n)}
    BY <1>1, <1>3, <1>6
  <2> QED BY <1>6, <2>1 DEF Parent, t
<1> QED BY <1>4, <1>5, <1>6

\* An element and what it is in.
Anc(cards, at) ==
    LET card == {"card"} \cup IF "card" \in ToSet(cards) THEN {"body", "main", "panel"} ELSE {}
        card2 == {"card2"} \cup IF "card2" \in ToSet(cards) THEN {"body", "main", "panel"} ELSE {}
        article == card \cup {"dialog", "article"}
    IN [n \in Nodes |->
        CASE n = "body" -> {"body"}
          [] n = "main" -> {"body", "main"}
          [] n \in {"title", "panel"} -> {"body", "main", n}
          [] n = "card" -> card
          [] n = "card2" -> card2
          [] n \in {"act", "dialog"} -> card \cup {n}
          [] n = "act2" -> card2 \cup {n}
          [] n = "article" -> article
          [] n \in {"header", "send"} -> article \cup {n}
          [] n = "notice" -> {n} \cup CASE at = "none" -> {} [] at = "main" -> {"body", "main"} [] at = "article" -> article]

\* The recursion that contains and closest follow up the tree.
LEMMA AncFacts ==
    ASSUME NEW cards \in Cards \cup {Both}, NEW at \in Places, NEW n \in Nodes
    PROVE  Anc(cards, at)[n] =
              {n} \cup IF ParentOf(cards, at, n) = NoNode THEN {} ELSE Anc(cards, at)[ParentOf(cards, at, n)]
<1>0. NoNode \notin {"body", "main", "title", "panel", "card", "act", "dialog", "article",
                     "header", "send", "card2", "act2", "notice"}
  BY PageAssumption, NoNodeAssumption
<1>1. CASE n \in {"body", "main", "title", "panel"}
  BY <1>0, <1>1, PageAssumption DEF Anc, ParentOf
<1>2. CASE n \in {"card", "card2"}
  BY <1>0, <1>2, PageAssumption DEF Anc, ParentOf
<1>3. CASE n \in {"act", "dialog", "act2"}
  BY <1>0, <1>3, PageAssumption DEF Anc, ParentOf
<1>4. CASE n \in {"article", "header", "send"}
  BY <1>0, <1>4, PageAssumption DEF Anc, ParentOf
<1>5. CASE n = "notice"
  BY <1>0, <1>5, PageAssumption DEF Anc, ParentOf, Places
<1> QED BY <1>1, <1>2, <1>3, <1>4, <1>5, PageAssumption

LEMMA ParentStep ==
    ASSUME NEW cards \in Cards \cup {Both}, NEW at \in Places
    PROVE  /\ ParentOf(cards, at, "body") = NoNode
           /\ ParentOf(cards, at, "main") = "body"
           /\ ParentOf(cards, at, "title") = "main" /\ ParentOf(cards, at, "panel") = "main"
           /\ ParentOf(cards, at, "card") \in {"panel", NoNode} /\ ParentOf(cards, at, "card2") \in {"panel", NoNode}
           /\ ParentOf(cards, at, "act") = "card" /\ ParentOf(cards, at, "dialog") = "card"
           /\ ParentOf(cards, at, "act2") = "card2" /\ ParentOf(cards, at, "article") = "dialog"
           /\ ParentOf(cards, at, "header") = "article" /\ ParentOf(cards, at, "send") = "article"
           /\ ParentOf(cards, at, "notice") \in {"main", "article", NoNode}
  BY DEF ParentOf, Places

\* What holds of an element with no parent, and of a child of one it holds of, holds
\* of all: the tree's depth is bounded, so that no induction is needed.
LEMMA ByParents ==
    ASSUME NEW cards \in Cards \cup {Both}, NEW at \in Places,
           NEW p \in [Nodes -> BOOLEAN],
           \A n \in Nodes : ParentOf(cards, at, n) = NoNode => p[n],
           \A n \in Nodes : ParentOf(cards, at, n) \in Nodes /\ p[ParentOf(cards, at, n)] => p[n]
    PROVE  \A n \in Nodes : p[n]
<1>1. p["body"] /\ p["main"] /\ p["title"] /\ p["panel"]
  BY ParentStep, PageAssumption
<1>2. p["card"] /\ p["card2"]
  BY <1>1, ParentStep, PageAssumption
<1>3. p["act"] /\ p["dialog"] /\ p["act2"] /\ p["article"]
  BY <1>2, ParentStep, PageAssumption
<1>4. p["header"] /\ p["send"]
  BY <1>3, ParentStep, PageAssumption
<1>5. p["notice"]
  BY <1>1, <1>3, ParentStep, PageAssumption
<1> QED BY <1>1, <1>2, <1>3, <1>4, <1>5, PageAssumption

\* contains finds exactly these ancestors.
LEMMA HoldsFacts ==
    ASSUME NEW cards \in Cards \cup {Both}, NEW at \in Places, NEW n \in Nodes, NEW m \in Nodes
    PROVE  Holds(Kids(cards, at), n, m) <=> n \in Anc(cards, at)[m]
<1> DEFINE t == Kids(cards, at)
           Below(f) == f = [x \in Nodes |-> x = n \/ (Parent(t, x) # NoNode /\ f[Parent(t, x)])]
           under == CHOOSE f : Below(f)
           known == [x \in Nodes |-> n \in Anc(cards, at)[x]]
<1>1. Holds(t, n, m) = under[m]
  BY DEF Holds
<1> HIDE DEF t
<1>2. \A x \in Nodes : Parent(t, x) \in Nodes \cup {NoNode} /\ Parent(t, x) = ParentOf(cards, at, x)
  BY ParentFacts, PageAssumption DEF t, ParentOf, Places
<1>3. Below(known)
  <2>1. ASSUME NEW x \in Nodes
        PROVE  n \in Anc(cards, at)[x] <=> (x = n \/ (Parent(t, x) # NoNode /\ known[Parent(t, x)]))
    <3>1. CASE Parent(t, x) = NoNode
      BY <1>2, <3>1, AncFacts
    <3>2. CASE Parent(t, x) \in Nodes
      <4>1. /\ Parent(t, x) # NoNode
            /\ Anc(cards, at)[x] = {x} \cup Anc(cards, at)[Parent(t, x)]
        BY <1>2, <3>2, AncFacts, NoNodeAssumption
      <4> QED BY <3>2, <4>1
    <3> QED BY <1>2, <3>1, <3>2
  <2> QED BY <2>1
<1>4. Below(under)
  BY <1>3
<1> HIDE DEF under
<1>5. \A x \in Nodes : under[x] = (x = n \/ (Parent(t, x) # NoNode /\ under[Parent(t, x)]))
  BY <1>4
<1>6. \A x \in Nodes : known[x] = (x = n \/ (Parent(t, x) # NoNode /\ known[Parent(t, x)]))
  BY <1>3
<1> DEFINE p == [x \in Nodes |-> under[x] = known[x]]
<1> HIDE DEF known, Below
<1>7. \A x \in Nodes : ParentOf(cards, at, x) = NoNode => p[x]
  BY <1>2, <1>5, <1>6
<1>8. ASSUME NEW x \in Nodes, ParentOf(cards, at, x) \in Nodes, p[ParentOf(cards, at, x)]
      PROVE  p[x]
  <2>1. Parent(t, x) \in Nodes /\ under[Parent(t, x)] = known[Parent(t, x)]
    BY <1>2, <1>8
  <2>2. under[x] = known[x]
    BY <1>5, <1>6, <2>1
  <2> QED BY <2>2
<1>9. p \in [Nodes -> BOOLEAN]
  OBVIOUS
<1> HIDE DEF p
<1>10. p[m]
  BY <1>7, <1>8, <1>9, ByParents
<1> QED BY <1>1, <1>10 DEF p, known, t

\* closest finds the open dialog, from what is in it.
LEMMA ClosestFacts ==
    ASSUME NEW cards \in Cards, NEW at \in Places, NEW n \in Nodes \cup {NoNode}, NEW sel \in {{}, {"dialog"}}
    PROVE  Closest(Kids(cards, at), n, sel) =
              IF n # NoNode /\ sel = {"dialog"} /\ "dialog" \in Anc(cards, at)[n] THEN "dialog" ELSE NoNode
<1> DEFINE t == Kids(cards, at)
           Up(f) == f = [x \in Nodes \cup {NoNode} |-> IF x = NoNode \/ x \in sel THEN x ELSE f[Parent(t, x)]]
           up == CHOOSE f : Up(f)
           known == [x \in Nodes \cup {NoNode} |->
                       IF x # NoNode /\ sel = {"dialog"} /\ "dialog" \in Anc(cards, at)[x] THEN "dialog" ELSE NoNode]
<1>1. Closest(t, n, sel) = up[n]
  BY DEF Closest
<1> HIDE DEF t
<1>2. \A x \in Nodes : Parent(t, x) \in Nodes \cup {NoNode} /\ Parent(t, x) = ParentOf(cards, at, x)
  BY ParentFacts, PageAssumption DEF t, ParentOf, Places
<1>3. Up(known)
  <2>1. ASSUME NEW x \in Nodes \cup {NoNode}
        PROVE  known[x] = IF x = NoNode \/ x \in sel THEN x ELSE known[Parent(t, x)]
    <3>1. CASE x = NoNode
      BY <3>1
    <3>2. CASE x # NoNode /\ x \in sel
      <4>1. x = "dialog" /\ sel = {"dialog"} /\ x \in Nodes
        BY <3>2, PageAssumption
      <4>2. x \in Anc(cards, at)[x]
        BY <4>1, AncFacts
      <4> QED BY <3>2, <4>1, <4>2
    <3>3. CASE x # NoNode /\ x \notin sel
      <4>1. x \in Nodes
        BY <3>3
      <4>2. CASE Parent(t, x) = NoNode
        <5>1. Anc(cards, at)[x] = {x}
          BY <1>2, <4>1, <4>2, AncFacts
        <5> QED BY <3>3, <4>2, <5>1
      <4>3. CASE Parent(t, x) \in Nodes
        <5>1. Anc(cards, at)[x] = {x} \cup Anc(cards, at)[Parent(t, x)] /\ Parent(t, x) # NoNode
          BY <1>2, <4>1, <4>3, AncFacts, NoNodeAssumption
        <5> QED BY <3>3, <4>3, <5>1
      <4> QED BY <1>2, <4>1, <4>2, <4>3
    <3> QED BY <3>1, <3>2, <3>3
  <2> QED BY <2>1
<1>4. Up(up)
  BY <1>3
<1> HIDE DEF up
<1>5. \A x \in Nodes \cup {NoNode} : up[x] = IF x = NoNode \/ x \in sel THEN x ELSE up[Parent(t, x)]
  BY <1>4
<1>6. \A x \in Nodes \cup {NoNode} : known[x] = IF x = NoNode \/ x \in sel THEN x ELSE known[Parent(t, x)]
  BY <1>3
<1> DEFINE p == [x \in Nodes |-> up[x] = known[x]]
<1> HIDE DEF known, Up
<1>7. up[NoNode] = known[NoNode]
  BY <1>5, <1>6
<1>8. ASSUME NEW x \in Nodes, ParentOf(cards, at, x) = NoNode PROVE p[x]
  <2>1. up[x] = known[x]
    BY <1>2, <1>5, <1>6, <1>7, <1>8
  <2> QED BY <2>1
<1>9. ASSUME NEW x \in Nodes, ParentOf(cards, at, x) \in Nodes, p[ParentOf(cards, at, x)]
      PROVE  p[x]
  <2>1. Parent(t, x) \in Nodes /\ up[Parent(t, x)] = known[Parent(t, x)]
    BY <1>2, <1>9
  <2>2. up[x] = known[x]
    BY <1>5, <1>6, <2>1
  <2> QED BY <2>2
<1>10. p \in [Nodes -> BOOLEAN]
  OBVIOUS
<1> HIDE DEF p
<1>11. \A x \in Nodes : p[x]
  BY <1>8, <1>9, <1>10, ByParents
<1>12. up[n] = known[n]
  BY <1>7, <1>11 DEF p
<1> QED BY <1>1, <1>12 DEF known, t

\* The dialog's article and its header are found.
LEMMA QueryFacts ==
    ASSUME NEW cards \in Cards, NEW at \in Places
    PROVE  /\ QuerySelector(Kids(cards, at), "dialog", {"article"}) = "article"
           /\ QuerySelector(Kids(cards, at), "article", {"header"}) = "header"
<1>1. "dialog" \in Anc(cards, at)["article"] /\ "article" \in Anc(cards, at)["header"]
  BY PageAssumption DEF Anc
<1>2. Holds(Kids(cards, at), "dialog", "article") /\ Holds(Kids(cards, at), "article", "header")
  BY <1>1, HoldsFacts, PageAssumption
<1>3. {c \in {"article"} : c # "dialog" /\ Holds(Kids(cards, at), "dialog", c)} = {"article"}
  BY <1>2
<1>4. {c \in {"header"} : c # "article" /\ Holds(Kids(cards, at), "article", c)} = {"header"}
  BY <1>2
<1> QED BY <1>3, <1>4 DEF QuerySelector

\* The notice is taken out of where it is.
LEMMA DetachNotice ==
    ASSUME NEW cards \in Cards, NEW at \in Places
    PROVE  Detach(Kids(cards, at), "notice") = Kids(cards, "none")
<1> DEFINE t == Kids(cards, at)
<1>1. Parent(t, "notice") = IF at = "none" THEN NoNode ELSE at
  BY ParentFacts, PageAssumption DEF ParentOf
<1>2. CASE at = "none"
  BY <1>1, <1>2 DEF Detach
<1>3. CASE at = "main"
  <2>1. t["main"] = <<"notice", "title", "panel">> /\ Parent(t, "notice") = "main" /\ "main" # NoNode
    BY <1>1, <1>3, KidsFacts, PageAssumption, NoNodeAssumption
  <2>2. (CHOOSE i \in DOMAIN t["main"] : t["main"][i] = "notice") = 1
    BY <2>1
  <2>3. Detach(t, "notice") = [t EXCEPT !["main"] = RemoveAt(@, 1)]
    BY <2>1, <2>2 DEF Detach
  <2>4. RemoveAt(t["main"], 1) = <<"title", "panel">>
    <3>1. RemoveAt(<<"notice", "title", "panel">>, 1) = <<"title", "panel">>
      BY TakenOfThree
    <3> QED BY <2>1, <3>1
  <2> QED BY <1>3, <2>3, <2>4, PageAssumption DEF Kids
<1>4. CASE at = "article"
  <2>1. t["article"] = <<"header", "notice", "send">> /\ Parent(t, "notice") = "article" /\ "article" # NoNode
    BY <1>1, <1>4, KidsFacts, PageAssumption, NoNodeAssumption
  <2>2. (CHOOSE i \in DOMAIN t["article"] : t["article"][i] = "notice") = 2
    BY <2>1
  <2>3. Detach(t, "notice") = [t EXCEPT !["article"] = RemoveAt(@, 2)]
    BY <2>1, <2>2 DEF Detach
  <2>4. RemoveAt(t["article"], 2) = <<"header", "send">>
    <3>1. RemoveAt(<<"header", "notice", "send">>, 2) = <<"header", "send">>
      BY TakenOfThree
    <3> QED BY <2>1, <3>1
  <2> QED BY <1>4, <2>3, <2>4, PageAssumption DEF Kids
<1> QED BY <1>2, <1>3, <1>4 DEF Places

\* The notice goes to the top of main, or under the header.
LEMMA InsertNotice ==
    ASSUME NEW cards \in Cards, NEW at \in Places
    PROVE  /\ InsertBefore(Kids(cards, at), "main", "notice", "title") = Kids(cards, "main")
           /\ InsertBefore(Kids(cards, at), "article", "notice", "send") = Kids(cards, "article")
<1> DEFINE u == Kids(cards, "none")
<1>0. Detach(Kids(cards, at), "notice") = u
  BY DetachNotice
<1>1. u["main"] = <<"title", "panel">> /\ u["article"] = <<"header", "send">>
  BY KidsFacts DEF Places
<1>2. InsertAt(u["main"], 1, "notice") = <<"notice", "title", "panel">>
  <2>1. InsertAt(<<"title", "panel">>, 1, "notice") = <<"notice", "title", "panel">>
    BY PutIntoTwo
  <2> QED BY <1>1, <2>1
<1>3. InsertAt(u["article"], 2, "notice") = <<"header", "notice", "send">>
  <2>1. InsertAt(<<"header", "send">>, 2, "notice") = <<"header", "notice", "send">>
    BY PutIntoTwo
  <2> QED BY <1>1, <2>1
<1>4. {i \in DOMAIN u["main"] : u["main"][i] = "title"} = {1}
  BY <1>1
<1>5. {i \in DOMAIN u["article"] : u["article"][i] = "send"} = {2}
  BY <1>1
<1>6. InsertBefore(Kids(cards, at), "main", "notice", "title") = [u EXCEPT !["main"] = InsertAt(@, 1, "notice")]
  BY <1>0, <1>4 DEF InsertBefore
<1>7. InsertBefore(Kids(cards, at), "article", "notice", "send") = [u EXCEPT !["article"] = InsertAt(@, 2, "notice")]
  BY <1>0, <1>5 DEF InsertBefore
<1>8. [u EXCEPT !["main"] = <<"notice", "title", "panel">>] = Kids(cards, "main")
  BY PageAssumption DEF Kids
<1>9. [u EXCEPT !["article"] = <<"header", "notice", "send">>] = Kids(cards, "article")
  BY PageAssumption DEF Kids
<1> QED BY <1>2, <1>3, <1>6, <1>7, <1>8, <1>9

\* The notice's place: under the header of the dialog of send, or first in main.
LEMMA PlaceFacts ==
    ASSUME NEW cards \in Cards, NEW at \in {"main", "article"}, NEW from \in Buttons \cup {NoNode},
           cards = <<"card2">> => from # "send"
    PROVE  PlaceNotice(Kids(cards, at), from) =
              Kids(cards, IF open /\ from = "send" THEN "article" ELSE "main")
<1> DEFINE t == Kids(cards, at)
<1>0. at \in Places /\ from \in Nodes \cup {NoNode} /\ OpenDialog = (IF open THEN {"dialog"} ELSE {})
  BY PageAssumption DEF Places, Buttons, OpenDialog
<1>1. Closest(t, from, OpenDialog) = IF open /\ from = "send" THEN "dialog" ELSE NoNode
  <2>1. from # NoNode => ("dialog" \in Anc(cards, at)[from] <=> from = "send")
    BY <1>0, PageAssumption DEF Anc, Buttons
  <2>2. OpenDialog \in {{}, {"dialog"}} /\ (OpenDialog = {"dialog"} <=> open)
    BY <1>0
  <2>3. from = "send" => from # NoNode
    BY PageAssumption, NoNodeAssumption
  <2> QED BY <1>0, <2>1, <2>2, <2>3, ClosestFacts
<1>2. CASE ~(open /\ from = "send")
  <2>1. t["main"] = (IF at = "main" THEN <<"notice", "title", "panel">> ELSE <<"title", "panel">>)
    BY <1>0, KidsFacts
  <2>2. FirstChild(t, "main") = IF at = "main" THEN "notice" ELSE "title"
    BY <2>1 DEF FirstChild
  <2>3. PlaceNotice(t, from) = IF at = "main" THEN t ELSE InsertBefore(t, "main", "notice", "title")
    BY <1>1, <1>2, <2>2 DEF PlaceNotice
  <2> QED BY <1>0, <1>2, <2>3, InsertNotice
<1>3. CASE open /\ from = "send"
  <2>1. t["article"] = (IF at = "article" THEN <<"header", "notice", "send">> ELSE <<"header", "send">>)
    BY <1>0, KidsFacts
  <2>2. Parent(t, "header") = "article"
    BY <1>0, ParentFacts, ParentStep, PageAssumption
  <2>3. NextSibling(t, "header") = IF at = "article" THEN "notice" ELSE "send"
    <3>1. (CHOOSE j \in DOMAIN t["article"] : t["article"][j] = "header") = 1
      BY <2>1
    <3>2. "article" # NoNode /\ 1 # Len(t["article"]) /\ t["article"][1 + 1] = IF at = "article" THEN "notice" ELSE "send"
      BY <2>1, PageAssumption, NoNodeAssumption
    <3> QED BY <2>2, <3>1, <3>2 DEF NextSibling
  <2>4. "dialog" # NoNode /\ "article" # NoNode /\ "header" # NoNode
    BY PageAssumption, NoNodeAssumption
  <2>5. PlaceNotice(t, from) = IF at = "article" THEN t ELSE InsertBefore(t, "article", "notice", "send")
    BY <1>0, <1>1, <1>3, <2>3, <2>4, QueryFacts DEF PlaceNotice
  <2> QED BY <1>0, <1>3, <2>5, InsertNotice
<1> QED BY <1>2, <1>3

\* The reply's card takes the place of the card.
LEMMA ReplacedFacts ==
    ASSUME NEW at \in Places
    PROVE  Replaced(Kids(<<"card">>, at), "card", "card2") = Kids(<<"card2">>, at)
<1> DEFINE t == Kids(<<"card">>, at)
           both == Kids(Both, at)
<1>0. <<"card">> \in Cards /\ "panel" # NoNode
  BY PageAssumption, NoNodeAssumption DEF Cards
<1>1. Parent(t, "card") = "panel" /\ Parent(t, "card2") = NoNode
  BY <1>0, ParentFacts, CardSets, PageAssumption DEF ParentOf
<1>2. Detach(t, "card2") = t
  BY <1>1 DEF Detach
<1>3. t["panel"] = <<"card">>
  BY <1>0, KidsFacts
<1>4. {i \in DOMAIN t["panel"] : t["panel"][i] = "card"} = {1}
  BY <1>3
<1>5. InsertAt(t["panel"], 1, "card2") = Both
  BY <1>3, PutIntoOne DEF Both
<1>6. InsertBefore(t, "panel", "card2", "card") = [t EXCEPT !["panel"] = Both]
  BY <1>2, <1>4, <1>5 DEF InsertBefore
<1>7. [t EXCEPT !["panel"] = Both] = both
  BY PageAssumption DEF Kids
<1>8. Parent(both, "card") = "panel"
  BY ParentFacts, CardSets, PageAssumption DEF ParentOf
<1>9. both["panel"] = <<"card2", "card">>
  BY KidsFacts DEF Both
<1>10. (CHOOSE i \in DOMAIN both["panel"] : both["panel"][i] = "card") = 2
  BY <1>9
<1>11. RemoveAt(both["panel"], 2) = <<"card2">>
  BY <1>9, TakenOfTwo
<1>12. Detach(both, "card") = [both EXCEPT !["panel"] = <<"card2">>]
  BY <1>0, <1>8, <1>10, <1>11 DEF Detach
<1>13. [both EXCEPT !["panel"] = <<"card2">>] = Kids(<<"card2">>, at)
  BY PageAssumption DEF Kids
<1> HIDE DEF t, both
<1>14. Replaced(t, "card", "card2") = Detach(both, "card")
  BY <1>0, <1>1, <1>6, <1>7 DEF Replaced
<1> QED BY <1>12, <1>13, <1>14 DEF t

-----------------------------------------------------------------------------
(* ErrorNotice: the notice                                                 *)

\* The page is one of these trees; the notice is in it once it is made.
TreeOf(cards, at) == tree = Kids(cards, at) /\ (at = "none" <=> ~notice.made)

\* The notice is a notice; only a button's request has made it, act2's only when
\* act2 is on the page; and it tells of no failure that is over.
TellsOf(cards) ==
    /\ notice \in [made : BOOLEAN, hidden : BOOLEAN, text : Messages \cup {NoMessage},
                   source : Buttons \cup {NoNode}]
    /\ last \in [Senders -> Failures \cup {"none", "worked"}]
    /\ notice.made \/ notice.hidden
    /\ notice.source = "act2" => cards = <<"card2">>
    /\ ~notice.hidden /\ notice.source # NoNode /\ (notice.source = "act2" <=> cards = <<"card2">>)
        => /\ notice.text.from = notice.source
           /\ last[notice.source] = notice.text.why

NoticeInv == \E cards \in Cards, at \in Places : TreeOf(cards, at) /\ TellsOf(cards)

\* Which elements are on the page.
LEMMA OnPage ==
    ASSUME NEW cards \in Cards, NEW at \in Places
    PROVE  /\ InPage(Kids(cards, at), "act") <=> cards = <<"card">>
           /\ InPage(Kids(cards, at), "send") <=> cards = <<"card">>
           /\ InPage(Kids(cards, at), "card") <=> cards = <<"card">>
           /\ InPage(Kids(cards, at), "dialog") <=> cards = <<"card">>
           /\ InPage(Kids(cards, at), "act2") <=> cards = <<"card2">>
           /\ InPage(Kids(cards, at), "panel")
           /\ InPage(Kids(cards, at), "notice") <=> at = "main" \/ (at = "article" /\ cards = <<"card">>)
<1>1. /\ "card" \in ToSet(cards) <=> cards = <<"card">>
      /\ "card2" \in ToSet(cards) <=> cards = <<"card2">>
  BY CardSets DEF Cards
<1>2. "body" \in Nodes /\ {"act", "send", "card", "dialog", "act2", "panel", "notice"} \subseteq Nodes
  BY PageAssumption
<1>3. \A m \in Nodes : InPage(Kids(cards, at), m) <=> "body" \in Anc(cards, at)[m]
  BY <1>2, HoldsFacts DEF InPage
<1>4. /\ "body" \in Anc(cards, at)["act"] <=> cards = <<"card">>
      /\ "body" \in Anc(cards, at)["send"] <=> cards = <<"card">>
      /\ "body" \in Anc(cards, at)["card"] <=> cards = <<"card">>
      /\ "body" \in Anc(cards, at)["dialog"] <=> cards = <<"card">>
  BY <1>1, <1>2 DEF Anc
<1>5. /\ "body" \in Anc(cards, at)["act2"] <=> cards = <<"card2">>
      /\ "body" \in Anc(cards, at)["panel"]
  BY <1>1, <1>2 DEF Anc
<1>6. "body" \in Anc(cards, at)["notice"] <=> at = "main" \/ (at = "article" /\ cards = <<"card">>)
  BY <1>1, <1>2 DEF Anc, Places
<1> QED BY <1>2, <1>3, <1>4, <1>5, <1>6

LEMMA TwoCards == <<"card">> # <<"card2">>
  OBVIOUS

\* After ensureNotice the notice is in the page, wherever it was.
LEMMA Ensured ==
    ASSUME NEW cards \in Cards, NEW at \in Places, TreeOf(cards, at)
    PROVE  \E one \in {"main", "article"} : EnsureNotice(tree) = Kids(cards, one)
<1>1. CASE notice.made
  BY <1>1 DEF EnsureNotice, TreeOf, Places
<1>2. CASE ~notice.made
  <2>1. at = "none" /\ tree = Kids(cards, at)
    BY <1>2 DEF TreeOf
  <2>2. tree["main"] = <<"title", "panel">>
    BY <2>1, KidsFacts
  <2>3. FirstChild(tree, "main") = "title"
    BY <2>2 DEF FirstChild
  <2>4. EnsureNotice(tree) = Kids(cards, "main")
    BY <1>2, <2>1, <2>3, InsertNotice DEF EnsureNotice
  <2> QED BY <2>4
<1> QED BY <1>1, <1>2

\* showError of an element on the page puts the notice where it belongs.
LEMMA ShownAt ==
    ASSUME NEW cards \in Cards, NEW at \in Places, TreeOf(cards, at), TellsOf(cards),
           NEW from \in Buttons \cup {NoNode}, NEW message \in Messages,
           from # NoNode => InPage(tree, from),
           ShowError(message, from)
    PROVE  \E to \in {"main", "article"} :
               /\ to = (IF open /\ from = "send" THEN "article" ELSE "main")
               /\ tree' = Kids(cards, to)
               /\ notice' = [made |-> TRUE, hidden |-> FALSE, text |-> message, source |-> from]
<1>1. PICK one \in {"main", "article"} : EnsureNotice(tree) = Kids(cards, one)
  BY Ensured
<1>2. cards = <<"card2">> => from # "send"
  BY OnPage, TwoCards, PageAssumption, NoNodeAssumption DEF TreeOf
<1>3. PlaceNotice(Kids(cards, one), from) = Kids(cards, IF open /\ from = "send" THEN "article" ELSE "main")
  BY <1>2, PlaceFacts
<1> QED BY <1>1, <1>3 DEF ShowError

LEMMA ShownInv ==
    ASSUME NEW cards \in Cards, NEW at \in Places, TreeOf(cards, at), TellsOf(cards),
           NEW from \in Buttons \cup {NoNode}, NEW message \in Messages,
           from # NoNode => InPage(tree, from),
           ShowError(message, from),
           last' \in [Senders -> Failures \cup {"none", "worked"}],
           from # NoNode => message.from = from /\ last'[from] = message.why
    PROVE  NoticeInv'
<1>1. PICK to \in {"main", "article"} :
               /\ tree' = Kids(cards, to)
               /\ notice' = [made |-> TRUE, hidden |-> FALSE, text |-> message, source |-> from]
  BY ShownAt
<1>2. from = "act2" => cards = <<"card2">>
  BY OnPage, PageAssumption, NoNodeAssumption DEF TreeOf
<1>3. to \in Places /\ TreeOf(cards, to)'
  BY <1>1 DEF TreeOf, Places
<1>4. TellsOf(cards)'
  BY <1>1, <1>2 DEF TellsOf
<1> QED BY <1>3, <1>4 DEF NoticeInv

LEMMA NoticeInvInit ==
    ASSUME NoticeInit
    PROVE  NoticeInv
<1>1. Page = Kids(<<"card">>, "none")
  BY PageAssumption DEF Page, NewTree, Kids
<1>2. <<"card">> \in Cards /\ "none" \in Places
  BY DEF Cards, Places
<1>3. TreeOf(<<"card">>, "none")
  BY <1>1 DEF NoticeInit, TreeOf
<1>4. NoNode \in Buttons \cup {NoNode} /\ NoNode # "act2"
  BY PageAssumption, NoNodeAssumption
<1>5. TellsOf(<<"card">>)
  BY <1>4 DEF NoticeInit, TellsOf
<1> QED BY <1>2, <1>3, <1>5 DEF NoticeInv

\* A failure: told, or nobody hears of it.
LEMMA FailureStep ==
    ASSUME NEW cards \in Cards, NEW at \in Places, TreeOf(cards, at), TellsOf(cards),
           NEW e \in Senders, NEW how \in Failures,
           Ended(e, how),
           IF Ignored(e) \/ ~InPage(tree, e) THEN UNCHANGED <<tree, notice>>
           ELSE ShowError([from |-> e, why |-> how], e)
    PROVE  NoticeInv'
<1>1. /\ last' \in [Senders -> Failures \cup {"none", "worked"}] /\ last'[e] = how
      /\ \A d \in Senders \ {e} : last'[d] = last[d]
  BY DEF TellsOf, Ended
<1>2. CASE Ignored(e) \/ ~InPage(tree, e)
  <2>1. TreeOf(cards, at)'
    BY <1>2 DEF TreeOf
  <2>2. notice.source = e => ~(notice.source = "act2" <=> cards = <<"card2">>)
    <3>1. notice.source = e => ~InPage(tree, e) /\ e \in Buttons
      BY <1>2, PageAssumption, NoNodeAssumption DEF Ignored, TellsOf, Buttons, Senders
    <3> QED BY <3>1, OnPage, TwoCards DEF TreeOf, Buttons, Cards
  <2>3. notice.source \in Senders \cup {NoNode}
    BY DEF TellsOf, Senders
  <2>4. TellsOf(cards)'
    BY <1>1, <1>2, <2>2, <2>3 DEF TellsOf
  <2> QED BY <2>1, <2>4 DEF NoticeInv
<1>3. CASE ~(Ignored(e) \/ ~InPage(tree, e))
  <2>1. e \in Buttons /\ [from |-> e, why |-> how] \in Messages
    BY <1>3 DEF Ignored, Senders, Messages
  <2> QED BY <1>1, <1>3, <2>1, ShownInv
<1> QED BY <1>2, <1>3

\* A success: its reply may replace the card, and it clears the notice only of the
\* element that it was sent by.
LEMMA WorksStep ==
    ASSUME NEW cards \in Cards, NEW at \in Places, TreeOf(cards, at), TellsOf(cards),
           NEW e \in Senders, RequestWorks(e)
    PROVE  NoticeInv'
<1>1. PICK t \in Replies(e) :
          Ended(e, "worked") /\ tree' = t /\ AfterRequest(IF InPage(t, e) THEN e ELSE "panel")
  BY DEF RequestWorks
<1>2. /\ last' \in [Senders -> Failures \cup {"none", "worked"}]
      /\ \A d \in Senders \ {e} : last'[d] = last[d]
  BY <1>1 DEF TellsOf, Ended
<1>3. PICK next \in Cards : t = Kids(next, at) /\ (next = cards \/ (cards = <<"card">> /\ next = <<"card2">>))
  <2>1. CASE t = tree
    BY <2>1 DEF TreeOf
  <2>2. CASE t # tree
    <3>1. InPage(tree, "card") /\ t = Replaced(tree, "card", "card2")
      BY <1>1, <2>2 DEF Replies
    <3>2. cards = <<"card">>
      BY <3>1, OnPage DEF TreeOf
    <3>3. t = Kids(<<"card2">>, at)
      BY <3>1, <3>2, ReplacedFacts DEF TreeOf
    <3> QED BY <3>2, <3>3 DEF Cards
  <2> QED BY <2>1, <2>2
<1>4. notice' = notice \/ notice' = [notice EXCEPT !.hidden = TRUE, !.source = NoNode]
  BY <1>1 DEF AfterRequest, HideError
<1>5. TreeOf(next, at)'
  BY <1>1, <1>3, <1>4 DEF TreeOf, TellsOf
<1>6. notice.source \in Senders \cup {NoNode} /\ NoNode \notin Senders /\ NoNode # "act2" /\ "panel" \notin Buttons
  BY PageAssumption, NoNodeAssumption DEF TellsOf, Senders, Buttons
<1>7. CASE notice' = [notice EXCEPT !.hidden = TRUE, !.source = NoNode]
  <2>1. TellsOf(next)'
    BY <1>2, <1>6, <1>7 DEF TellsOf
  <2> QED BY <1>5, <2>1 DEF NoticeInv
<1>8. CASE notice' = notice /\ notice' # [notice EXCEPT !.hidden = TRUE, !.source = NoNode]
  <2>1. ~(notice.source # NoNode /\ notice.source = IF InPage(t, e) THEN e ELSE "panel")
    BY <1>1, <1>8 DEF AfterRequest, HideError
  <2>2. notice.source = e => ~(notice.source = "act2" <=> next = <<"card2">>)
    <3>1. notice.source = e => ~InPage(t, e) /\ e \in Buttons
      BY <1>6, <2>1 DEF TellsOf
    <3> QED BY <1>3, <3>1, OnPage, TwoCards DEF Buttons, Cards
  <2>3. notice.source = "act2" => next = <<"card2">>
    BY <1>3 DEF TellsOf
  <2>4. (notice.source = "act2" <=> next = <<"card2">>) => (notice.source = "act2" <=> cards = <<"card2">>)
    BY <1>3, TwoCards DEF TellsOf
  <2>5. TellsOf(next)'
    <3>1. notice' \in [made : BOOLEAN, hidden : BOOLEAN, text : Messages \cup {NoMessage},
                       source : Buttons \cup {NoNode}] /\ (notice'.made \/ notice'.hidden)
      BY <1>8 DEF TellsOf
    <3>2. ~notice.hidden /\ notice.source # NoNode /\ (notice.source = "act2" <=> next = <<"card2">>)
            => notice.text.from = notice.source /\ last'[notice.source] = notice.text.why
      BY <1>2, <1>6, <2>2, <2>4 DEF TellsOf
    <3> QED BY <1>2, <1>8, <2>3, <3>1, <3>2 DEF TellsOf
  <2> QED BY <1>5, <2>5 DEF NoticeInv
<1> QED BY <1>4, <1>7, <1>8

LEMMA NoticeInvStep ==
    ASSUME NoticeInv, [NoticeNext]_noticeVars
    PROVE  NoticeInv'
<1>1. PICK cards \in Cards, at \in Places : TreeOf(cards, at) /\ TellsOf(cards)
  BY DEF NoticeInv
<1>2. ASSUME UNCHANGED <<tree, notice, last>> PROVE NoticeInv'
  BY <1>1, <1>2 DEF NoticeInv, TreeOf, TellsOf
<1>3. ASSUME NEW e \in Senders, SendRequest(e) PROVE NoticeInv'
  BY <1>2, <1>3 DEF SendRequest
<1>4. ASSUME NEW e \in Senders, RequestWorks(e) PROVE NoticeInv'
  BY <1>1, <1>4, WorksStep
<1>5. ASSUME NEW e \in Senders, ResponseError(e) PROVE NoticeInv'
  <2>1. "refused" \in Failures
    BY DEF Failures
  <2> QED BY <1>1, <1>5, <2>1, FailureStep DEF ResponseError
<1>6. ASSUME NEW e \in Senders, SendError(e) PROVE NoticeInv'
  <2>1. "unreachable" \in Failures
    BY DEF Failures
  <2> QED BY <1>1, <1>6, <2>1, FailureStep DEF SendError
<1>7. ASSUME NEW why \in Failures, ApiCallFails(why) PROVE NoticeInv'
  <2>1. NoNode \in Buttons \cup {NoNode} /\ [from |-> NoNode, why |-> why] \in Messages
    BY <1>7 DEF Messages
  <2>2. last' \in [Senders -> Failures \cup {"none", "worked"}]
    BY <1>1, <1>7 DEF ApiCallFails, TellsOf
  <2> QED BY <1>1, <1>7, <2>1, <2>2, ShownInv DEF ApiCallFails
<1>8. CASE CloseClick
  <2>1. tree' = tree /\ last' = last /\ notice' = [notice EXCEPT !.hidden = TRUE, !.source = NoNode]
    BY <1>8 DEF CloseClick, HideError
  <2>2. NoNode # "act2"
    BY PageAssumption, NoNodeAssumption
  <2>3. TreeOf(cards, at)' /\ TellsOf(cards)'
    BY <1>1, <2>1, <2>2 DEF TreeOf, TellsOf
  <2> QED BY <2>3 DEF NoticeInv
<1>9. CASE ToggleDialog
  BY <1>2, <1>9 DEF ToggleDialog
<1>10. CASE UNCHANGED noticeVars
  BY <1>2, <1>10 DEF noticeVars
<1> QED BY <1>3, <1>4, <1>5, <1>6, <1>7, <1>8, <1>9, <1>10 DEF NoticeNext

\* The notice is in one place.
LEMMA Holders ==
    ASSUME NEW cards \in Cards, NEW at \in {"main", "article"}
    PROVE  {p \in Nodes : \E i \in DOMAIN Kids(cards, at)[p] : Kids(cards, at)[p][i] = "notice"} = {at}
<1> DEFINE t == Kids(cards, at)
<1>0. at \in Places /\ at \in Nodes /\ "notice" \in Nodes /\ NoNode \notin Nodes
  BY PageAssumption, NoNodeAssumption DEF Places
<1>1. Parent(t, "notice") = at
  BY <1>0, ParentFacts DEF ParentOf
<1>2. \A p \in Nodes : "notice" \in ToSet(t[p]) => p = at
  <2>1. ToSet(cards) \subseteq {"card", "card2"}
    BY CardSets DEF Cards
  <2>2. "notice" \notin ToSet(t["body"]) /\ "notice" \notin ToSet(t["panel"])
    BY <1>0, <2>1, BodySet, PanelSet
  <2>3. "notice" \notin ToSet(t["card"]) /\ "notice" \notin ToSet(t["dialog"]) /\ "notice" \notin ToSet(t["card2"])
    BY <1>0, CardSet, DialogSet, CardTwoSet
  <2>4. "notice" \in ToSet(t["main"]) => at = "main"
    <3>1. ToSet(t["main"]) = {"title", "panel"} \cup (IF at = "main" THEN {"notice"} ELSE {})
      BY <1>0, MainSet
    <3> QED BY <3>1
  <2>5. "notice" \in ToSet(t["article"]) => at = "article"
    <3>1. ToSet(t["article"]) = {"header", "send"} \cup (IF at = "article" THEN {"notice"} ELSE {})
      BY <1>0, ArticleSet
    <3> QED BY <3>1
  <2>6. \A p \in {"title", "act", "header", "send", "act2", "notice"} : "notice" \notin ToSet(t[p])
    BY <1>0, EmptySets
  <2> HIDE DEF t
  <2> QED BY <2>2, <2>3, <2>4, <2>5, <2>6, PageAssumption
<1>3. "notice" \in ToSet(t[at])
  <2>1. CASE at = "main"
    BY <1>0, <2>1, MainSet
  <2>2. CASE at = "article"
    BY <1>0, <2>2, ArticleSet
  <2> QED BY <2>1, <2>2
<1> HIDE DEF t
<1>4. \A p \in Nodes : "notice" \in ToSet(t[p]) <=> \E i \in DOMAIN t[p] : t[p][i] = "notice"
  BY DEF ToSet
<1> QED BY <1>0, <1>2, <1>3, <1>4 DEF t

\* A failure is told as NoticeShownAndKept says.
LEMMA Told ==
    ASSUME NoticeInv, NEW e \in Senders, NEW how \in Failures,
           Ended(e, how),
           IF Ignored(e) \/ ~InPage(tree, e) THEN UNCHANGED <<tree, notice>>
           ELSE ShowError([from |-> e, why |-> how], e)
    PROVE  NoticeShownAndKept
<1>1. PICK cards \in Cards, at \in Places : TreeOf(cards, at) /\ TellsOf(cards)
  BY DEF NoticeInv
<1>2. inflight \ inflight' = {e} /\ last'[e] = how /\ open' = open
  BY <1>1 DEF Ended, TellsOf
<1>3. ~notice.hidden => ~notice'.hidden
  BY DEF ShowError
<1>4. ASSUME e \in Buttons, InPage(tree, e)
      PROVE  /\ ~notice'.hidden /\ notice'.text = [from |-> e, why |-> how]
             /\ IF open /\ e = "send" THEN tree'["article"] = <<"header", "notice", "send">>
                ELSE tree'["main"][1] = "notice"
             /\ {p \in Nodes : \E i \in DOMAIN tree'[p] : tree'[p][i] = "notice"} =
                   {IF open /\ e = "send" THEN "article" ELSE "main"}
  <2>1. ~Ignored(e) /\ [from |-> e, why |-> how] \in Messages
    BY <1>4, PageAssumption DEF Ignored, Messages, Buttons
  <2>2. PICK to \in {"main", "article"} :
               /\ to = (IF open /\ e = "send" THEN "article" ELSE "main")
               /\ tree' = Kids(cards, to)
               /\ notice' = [made |-> TRUE, hidden |-> FALSE, text |-> [from |-> e, why |-> how], source |-> e]
    BY <1>1, <1>4, <2>1, ShownAt
  <2>3. to \in Places
    BY DEF Places
  <2>4. IF open /\ e = "send" THEN tree'["article"] = <<"header", "notice", "send">>
        ELSE tree'["main"][1] = "notice"
    BY <2>2, <2>3, KidsFacts
  <2>5. {p \in Nodes : \E i \in DOMAIN tree'[p] : tree'[p][i] = "notice"} = {to}
    BY <2>2, Holders
  <2> QED BY <2>2, <2>4, <2>5
<1> QED BY <1>2, <1>3, <1>4 DEF NoticeShownAndKept

LEMMA KeptStep ==
    ASSUME NoticeInv, [NoticeNext]_noticeVars
    PROVE  NoticeShownAndKept
<1>1. PICK cards \in Cards, at \in Places : TreeOf(cards, at) /\ TellsOf(cards)
  BY DEF NoticeInv
<1>2. ASSUME inflight \subseteq inflight', UNCHANGED notice \/ UNCHANGED inflight
      PROVE  NoticeShownAndKept
  BY <1>2 DEF NoticeShownAndKept
<1>3. ASSUME NEW e \in Senders, SendRequest(e) PROVE NoticeShownAndKept
  BY <1>2, <1>3 DEF SendRequest
<1>4. ASSUME NEW e \in Senders, RequestWorks(e) PROVE NoticeShownAndKept
  <2>1. PICK t \in Replies(e) :
            Ended(e, "worked") /\ tree' = t /\ AfterRequest(IF InPage(t, e) THEN e ELSE "panel")
    BY <1>4 DEF RequestWorks
  <2>2. inflight \ inflight' = {e} /\ last'[e] = "worked" /\ "worked" \notin Failures
    BY <1>1, <2>1 DEF Ended, TellsOf, Failures
  <2>3. notice.source # "panel"
    BY <1>1, PageAssumption, NoNodeAssumption DEF TellsOf, Buttons
  <2>4. ~notice.hidden /\ notice'.hidden => notice.source = e
    BY <2>1, <2>3 DEF AfterRequest
  <2> QED BY <2>2, <2>4 DEF NoticeShownAndKept
<1>5. ASSUME NEW e \in Senders, ResponseError(e) PROVE NoticeShownAndKept
  <2>1. "refused" \in Failures
    BY DEF Failures
  <2> QED BY <1>5, <2>1, Told DEF ResponseError
<1>6. ASSUME NEW e \in Senders, SendError(e) PROVE NoticeShownAndKept
  <2>1. "unreachable" \in Failures
    BY DEF Failures
  <2> QED BY <1>6, <2>1, Told DEF SendError
<1>7. ASSUME NEW why \in Failures, ApiCallFails(why) PROVE NoticeShownAndKept
  BY <1>2, <1>7 DEF ApiCallFails
<1>8. CASE CloseClick
  BY <1>2, <1>8 DEF CloseClick
<1>9. CASE ToggleDialog
  BY <1>2, <1>9 DEF ToggleDialog
<1>10. CASE UNCHANGED noticeVars
  BY <1>2, <1>10 DEF noticeVars
<1> QED BY <1>3, <1>4, <1>5, <1>6, <1>7, <1>8, <1>9, <1>10 DEF NoticeNext

LEMMA InvTrue ==
    ASSUME NoticeInv
    PROVE  NoticeTrue
<1>1. PICK cards \in Cards, at \in Places : TreeOf(cards, at) /\ TellsOf(cards)
  BY DEF NoticeInv
<1>2. ASSUME notice.source # NoNode, InPage(tree, notice.source)
      PROVE  notice.source = "act2" <=> cards = <<"card2">>
  <2>1. notice.source \in Buttons
    BY <1>1, <1>2 DEF TellsOf
  <2> QED BY <1>1, <1>2, <2>1, OnPage, TwoCards DEF TreeOf, Buttons, Cards
<1> QED BY <1>1, <1>2 DEF NoticeTrue, TellsOf

\* While the notice shows a failure of an element that is still on the page, that
\* element's last request failed in that way, however requests, replies that render
\* the page afresh, dialogs and clicks on close follow one another
\* (web/static/errors.js).
THEOREM NoticeIsTrue == NoticeSpec => []NoticeTrue
<1>1. NoticeSpec => []NoticeInv
  BY NoticeInvInit, NoticeInvStep, PTL DEF NoticeSpec
<1> QED BY <1>1, InvTrue, PTL

\* Every failed request of an element on the page is told, in the open dialog it came
\* from or at the top of main and nowhere else, and a request that ends hides the
\* notice only if it is a success of the element the notice tells of
\* (web/static/errors.js).
THEOREM NoticeIsKept == NoticeSpec => NoticeKept
<1>1. NoticeSpec => []NoticeInv
  BY NoticeInvInit, NoticeInvStep, PTL DEF NoticeSpec
<1> QED BY <1>1, KeptStep, PTL DEF NoticeSpec, NoticeKept

-----------------------------------------------------------------------------
(* JobForm                                                                 *)

\* A dialog that was opened when no load was under way waits for its own load, or
\* for none.
OwnLoad == showing /\ ~raced /\ loads # <<>> => loads = <<editing>>

\* The form for a new job starts empty.
NewIsEmpty == Loaded /\ untouched /\ ~raced /\ ~editing => form = BuildJobForm

FormInv == row \in Rows /\ loads \in Seq(BOOLEAN) /\ editing \in BOOLEAN /\ OwnLoad /\ UnmappedKept /\ NewIsEmpty

\* The only load leaves none.
LEMMA LastLoad ==
    ASSUME NEW b \in BOOLEAN
    PROVE  RemoveAt(<<b>>, 1) = <<>>
<1> DEFINE one == <<b>>
<1>1. one \in Seq(BOOLEAN) /\ Len(one) = 1
  OBVIOUS
<1> HIDE DEF one
<1>2. 1 \in 1..Len(one)
  BY <1>1
<1>3. RemoveAt(one, 1) \in Seq(BOOLEAN) /\ Len(RemoveAt(one, 1)) = Len(one) - 1
  BY <1>1, <1>2, RemoveAtFacts
<1>4. Len(RemoveAt(one, 1)) = 0
  BY <1>1, <1>3
<1>5. RemoveAt(one, 1) = <<>>
  BY <1>3, <1>4, EmptySeq
<1> QED BY <1>5 DEF one

\* A row of nothing selected.
EmptyRows(boxes) ==
    [boxes : {boxes}, inherit : BOOLEAN, inputs : {DefaultInputs}, text : {<<>>}, summary : {<<>>},
     picked : {FALSE}, cells : {0}]

LEMMA EmptyRowCounted ==
    ASSUME NEW boxes, NEW f \in EmptyRows(boxes)
    PROVE  f.picked = FALSE /\ [f EXCEPT !.cells = 0] = f
  BY DEF EmptyRows

LEMMA MoreBoxes ==
    ASSUME NEW boxes, NEW others, NEW f \in EmptyRows(boxes)
    PROVE  [f EXCEPT !.boxes = others] \in EmptyRows(others)
  BY DEF EmptyRows

LEMMA MkRowEmpty ==
    ASSUME NEW values
    PROVE  \E boxes : MkRow(values) \in EmptyRows(boxes)
<1> DEFINE boxes == BoxesFor(values)
<1>1. MkRow(values) = [boxes |-> boxes, inherit |-> TRUE, inputs |-> DefaultInputs, text |-> <<>>,
                       summary |-> <<>>, picked |-> FALSE, cells |-> 0]
  BY DEF MkRow
<1> HIDE DEF boxes
<1>2. MkRow(values) \in EmptyRows(boxes)
  BY <1>1 DEF EmptyRows
<1> QED BY <1>2

LEMMA MkSpecRowEmpty == \E boxes : MkSpecRow \in EmptyRows(boxes)
<1> DEFINE modes == [i \in 1..2 |-> LET mode == <<"draft-mtp", "ngram-mod">>[i]
                                    IN Choice(Encode(mode, DefaultInputs[mode]), mode)]
           f == MkRow(<<"none">>)
<1>1. MkSpecRow = [f EXCEPT !.boxes = f.boxes \o modes]
  BY DEF MkSpecRow
<1>2. PICK boxes : f \in EmptyRows(boxes)
  BY MkRowEmpty
<1> HIDE DEF modes, f
<1>3. [f EXCEPT !.boxes = f.boxes \o modes] \in EmptyRows(f.boxes \o modes)
  BY <1>2, MoreBoxes
<1> QED BY <1>1, <1>3

\* The empty form asks for a selection: counting changes nothing.
LEMMA EmptyCounted ==
    ASSUME row \in Rows
    PROVE  UpdateMatrixCount(BuildJobForm) = BuildJobForm
<1>1. \E boxes : BuildJobForm \in EmptyRows(boxes)
  <2>1. CASE row \in {"temperature", "gpu_assign", "tensor_split"}
    <3>1. \E values : BuildJobForm = MkRow(values)
      BY <2>1 DEF BuildJobForm, RenderedForm, MkTextRow
    <3> QED BY <3>1, MkRowEmpty
  <2>2. CASE row = "spec_type"
    <3>1. BuildJobForm = MkSpecRow
      BY <2>2 DEF BuildJobForm, RenderedForm
    <3> QED BY <3>1, MkSpecRowEmpty
  <2> QED BY <2>1, <2>2 DEF Rows
<1>2. BuildJobForm.picked = FALSE /\ [BuildJobForm EXCEPT !.cells = 0] = BuildJobForm
  BY <1>1, EmptyRowCounted
<1> QED BY <1>2 DEF UpdateMatrixCount

LEMMA FormInvInit ==
    ASSUME FormInit
    PROVE  FormInv
<1>1. ~Loaded /\ loads = <<>> /\ editing = FALSE /\ row \in Rows
  BY DEF FormInit, Loaded
<1>2. loads \in Seq(BOOLEAN)
  BY <1>1
<1> QED BY <1>1, <1>2 DEF FormInv, OwnLoad, UnmappedKept, NewIsEmpty

LEMMA FormInvStep ==
    ASSUME FormInv, [FormNext]_formVars
    PROVE  FormInv'
<1>1. ASSUME NEW edit \in BOOLEAN, OpenForm(edit) PROVE FormInv'
  <2>1. ~Loaded' /\ loads' \in Seq(BOOLEAN) /\ editing' = edit /\ raced' = (loads # <<>>)
    BY <1>1 DEF OpenForm, Loaded, FormInv
  <2>2. loads = <<>> => loads' = <<edit>>
    BY <1>1 DEF OpenForm, FormInv
  <2>3. row' \in Rows /\ editing' \in BOOLEAN
    BY <1>1 DEF OpenForm, FormInv
  <2>4. OwnLoad'
    BY <2>1, <2>2 DEF OwnLoad
  <2>5. UnmappedKept' /\ NewIsEmpty'
    BY <2>1 DEF UnmappedKept, NewIsEmpty
  <2> QED BY <2>1, <2>3, <2>4, <2>5 DEF FormInv
<1>2. CASE FormArrives
  <2>1. PICK i \in DOMAIN loads :
            /\ loads' = RemoveAt(loads, i)
            /\ form' = IF ~showing THEN NoForm
                       ELSE UpdateMatrixCount(IF loads[i] THEN PrefillJobForm(job) ELSE BuildJobForm)
            /\ unmapped' = IF loads[i] THEN Unmapped(job) ELSE unmapped
            /\ UNCHANGED <<row, more, job, showing, editing, raced>>
    BY <1>2 DEF FormArrives
  <2>2. loads' \in Seq(BOOLEAN)
    <3>1. loads \in Seq(BOOLEAN) /\ i \in 1..Len(loads)
      BY <2>1 DEF FormInv
    <3> QED BY <2>1, <3>1, RemoveAtFacts
  <2>3. CASE showing /\ ~raced
    <3>1. loads = <<editing>>
      <4>1. loads # <<>>
        BY <2>1
      <4> QED BY <2>3, <4>1 DEF FormInv, OwnLoad
    <3>2. i = 1 /\ loads[i] = editing /\ editing \in BOOLEAN
      BY <2>1, <3>1 DEF FormInv
    <3>3. loads' = <<>>
      BY <2>1, <3>1, <3>2, LastLoad
    <3>4. editing => unmapped'.path = job.path
      BY <2>1, <3>2 DEF Unmapped
    <3>5. BuildJobForm' = BuildJobForm
      BY <2>1 DEF BuildJobForm, RenderedForm, MkTextRow, MkSpecRow
    <3>6. ~editing => form' = BuildJobForm
      BY <2>1, <2>3, <3>2, EmptyCounted DEF FormInv
    <3> QED BY <2>1, <2>2, <3>2, <3>3, <3>4, <3>5, <3>6 DEF FormInv, OwnLoad, UnmappedKept, NewIsEmpty
  <2>4. CASE ~(showing /\ ~raced)
    BY <2>1, <2>2, <2>4 DEF FormInv, OwnLoad, UnmappedKept, NewIsEmpty, Loaded
  <2> QED BY <2>3, <2>4
<1>3. ASSUME NEW f, Edited(f) PROVE FormInv'
  BY <1>3 DEF Edited, FormInv, OwnLoad, UnmappedKept, NewIsEmpty, Loaded
<1>4. CASE CloseForm \/ SubmitNewJob
  BY <1>4 DEF CloseForm, SubmitNewJob, FormInv, OwnLoad, UnmappedKept, NewIsEmpty, Loaded
<1>5. CASE ToggleValue \/ ToggleInherit
  BY <1>3, <1>5 DEF ToggleValue, ToggleInherit
<1>6. CASE AddCustom \/ TypeText
  BY <1>3, <1>6 DEF AddCustom, TypeText
<1>7. CASE ChangeSetting \/ Pick
  BY <1>3, <1>7 DEF ChangeSetting, Pick
<1>8. CASE UNCHANGED formVars
  <2>1. BuildJobForm' = BuildJobForm
    BY <1>8 DEF formVars, BuildJobForm
  <2> QED BY <1>8, <2>1 DEF formVars, FormInv, OwnLoad, UnmappedKept, NewIsEmpty, Loaded
<1>9. CASE LoadFails
  <2>1. PICK i \in DOMAIN loads :
            /\ loads' = RemoveAt(loads, i) /\ form' = NoForm
            /\ UNCHANGED <<row, showing, editing, raced>>
    BY <1>9 DEF LoadFails
  <2>2. loads \in Seq(BOOLEAN) /\ i \in 1..Len(loads) /\ ~Loaded'
    BY <2>1 DEF FormInv, Loaded
  <2>3. loads' \in Seq(BOOLEAN)
    BY <2>1, <2>2, RemoveAtFacts
  <2>4. CASE showing /\ ~raced
    <3>1. loads = <<editing>> /\ editing \in BOOLEAN
      BY <2>2, <2>4 DEF FormInv, OwnLoad
    <3>2. i = 1
      BY <2>2, <3>1
    <3>3. loads' = <<>>
      BY <2>1, <3>1, <3>2, LastLoad
    <3> QED BY <2>1, <2>2, <2>3, <3>3 DEF FormInv, OwnLoad, UnmappedKept, NewIsEmpty
  <2>5. CASE ~(showing /\ ~raced)
    BY <2>1, <2>2, <2>3, <2>5 DEF FormInv, OwnLoad, UnmappedKept, NewIsEmpty
  <2> QED BY <2>4, <2>5
<1>10. CASE SubmitFails
  <2>1. UNCHANGED <<row, showing, editing, form, unmapped, loads, untouched, raced>>
    BY <1>10 DEF SubmitFails
  <2>2. BuildJobForm' = BuildJobForm
    BY <2>1 DEF BuildJobForm
  <2>3. Saved(form).path = unmapped.path
    BY DEF Saved, MergeOverrides, KeepUnsweepable
  <2>4. job' = job \/ (editing /\ job' = Saved(form))
    BY <1>10 DEF SubmitFails, Submitted
  <2> QED BY <2>1, <2>2, <2>3, <2>4 DEF FormInv, OwnLoad, UnmappedKept, NewIsEmpty, Loaded
<1> QED BY <1>1, <1>2, <1>4, <1>5, <1>6, <1>7, <1>8, <1>9, <1>10 DEF FormNext

\* However loads of the form and the job overtake one another, in a dialog that was
\* opened when none was under way: a job's setting that the form has no control for
\* is what a save will write back, and the form for a new job starts empty
\* (openJobForm and loadJobForm in benchmarks.html).
THEOREM FormOfItsOwn == FormSpec => [](UnmappedKept /\ NewIsEmpty)
<1>1. FormSpec => []FormInv
  BY FormInvInit, FormInvStep, PTL DEF FormSpec
<1>2. FormInv => UnmappedKept /\ NewIsEmpty
  BY DEF FormInv
<1> QED BY <1>1, <1>2, PTL

-----------------------------------------------------------------------------
(* Pages                                                                   *)

\* A behaviour of the pages is one of each script: of the one that runs, and the
\* others stutter.
LEMMA EachScript ==
    /\ Spec => NoticeSpec
    /\ Spec => LogPanelSpec
    /\ Spec => LogResizeSpec
    /\ Spec => FormSpec
<1>1. Init => NoticeInit /\ PanelInit /\ SizeInit /\ FormInit
  BY DEF Init
<1>2. [Next]_vars => /\ [NoticeNext]_noticeVars /\ [PanelNext]_panelVars
                     /\ [SizeNext]_sizeVars /\ [FormNext]_formVars
  BY DEF Next, vars, Errors, InView, LogPanels, LogHeight, Form
<1> QED BY <1>1, <1>2, PTL DEF Spec, NoticeSpec, LogPanelSpec, LogResizeSpec, FormSpec

\* Whichever script runs on the page, the promises of the error notice, the log panel
\* and the log's height hold, and a job's form is its own.
THEOREM PagesCorrect ==
    Spec => /\ []NoticeTrue /\ NoticeKept
            /\ LogPanelKept
            /\ []LogHeightKept
            /\ [](UnmappedKept /\ NewIsEmpty)
BY EachScript, NoticeIsTrue, NoticeIsKept, LogPanelCorrect, LogHeightCorrect, FormOfItsOwn
=============================================================================
