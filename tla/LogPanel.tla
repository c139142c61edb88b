------------------------------ MODULE LogPanel -----------------------------
(***************************************************************************)
(* A log panel of a page (web/static/log-panel.js): it follows the log's   *)
(* end while its checkbox says so, and copies the log.  A swap may put a   *)
(* fresh panel into the page, which is set up once htmx has settled.  What *)
(* Clear does is in LogStream; here it empties the log.                    *)
(***************************************************************************)
EXTENDS Dom

CONSTANTS
    MaxLogLines,    \* bound: lines in the log
    MaxCopies       \* bound: copies that are not over

VARIABLES
    ready,          \* _logPanelInit
    buttons,        \* the listeners for clicks of the panel's buttons
    ticked, liveTail, \* the checkbox, and what the script knows of it
    log,            \* the number of lines, and the one scrolled to
    noted,          \* the observer has a change to report
    label,          \* the copy button's text, and the one kept at set up
    writing,        \* writeText calls of the clipboard under way
    timers,         \* timeouts that will put the label back
    areas,          \* textareas in the page
    secure,         \* the clipboard can be used
    off, threw      \* history: not at the end by the user's hand, or by lines
                    \* from before the set up; execCommand calls that threw

panelVars == <<ready, buttons, ticked, liveTail, log, noted, label, writing, timers, areas,
               secure, off, threw>>

Labels == {"Copy", "Copied!", "Failed"}

PanelTypeOK ==
    /\ {ready, ticked, liveTail, noted, secure, off} \subseteq BOOLEAN
    /\ buttons \in Seq({"copy", "clear"})
    /\ log \in [lines : 0..MaxLogLines, at : 0..MaxLogLines]
    /\ label \in [text : Labels, kept : Labels]
    /\ {writing, timers, areas, threw} \subseteq 0..MaxCopies

\* What of the panel does not survive a swap (closures of the old one do no harm).
Fresh ==
    /\ ready' = FALSE /\ buttons' = <<>> /\ noted' = FALSE /\ off' = FALSE
    /\ ticked' \in BOOLEAN /\ liveTail' = TRUE
    /\ log' = [lines |-> 0, at |-> 0]
    /\ label' = [text |-> "Copy", kept |-> "Copy"]
    /\ writing' = 0 /\ timers' = 0

PanelInit ==
    /\ ready = FALSE /\ buttons = <<>> /\ noted = FALSE /\ off = FALSE
    /\ ticked \in BOOLEAN /\ liveTail = TRUE
    /\ log = [lines |-> 0, at |-> 0]
    /\ label = [text |-> "Copy", kept |-> "Copy"]
    /\ writing = 0 /\ timers = 0
    /\ areas = 0 /\ secure \in BOOLEAN /\ threw = 0

ToEnd(l) == [l EXCEPT !.at = l.lines]

InitEverySettle ==  \* faulty variant of InitLogPanels: forgets that it was set up
    /\ ready' = TRUE
    /\ buttons' = AddEventListener(AddEventListener(buttons, "copy"), "clear")
    /\ liveTail' = ticked
    /\ label' = [label EXCEPT !.kept = label.text]
    /\ UNCHANGED <<ticked, log, noted, writing, timers, areas, secure, off, threw>>

\* initLogPanels, when the page has loaded and after every htmx swap: a panel is
\* set up once.
InitLogPanels ==
    /\ ~ready
    /\ ready' = TRUE
    /\ buttons' = AddEventListener(AddEventListener(buttons, "copy"), "clear")
    /\ liveTail' = ticked
    /\ label' = [label EXCEPT !.kept = label.text]
    /\ UNCHANGED <<ticked, log, noted, writing, timers, areas, secure, off, threw>>

PanelSwapped == Fresh /\ UNCHANGED <<areas, secure, threw>>

\* The change of the checkbox.
Tick ==
    /\ ticked' = ~ticked
    /\ IF ready THEN /\ liveTail' = ticked'
                     /\ log' = IF liveTail' THEN ToEnd(log) ELSE log
                     /\ off' = (off /\ ~liveTail')
       ELSE UNCHANGED <<liveTail, log, off>>
    /\ UNCHANGED <<ready, buttons, noted, label, writing, timers, areas, secure, threw>>

\* The stream's script adds a line; the browser keeps the position.
LineAdded ==
    /\ log.lines < MaxLogLines
    /\ log' = [log EXCEPT !.lines = @ + 1]
    /\ noted' = ready
    /\ off' = (off \/ ~ready)
    /\ UNCHANGED <<ready, buttons, ticked, liveTail, label, writing, timers, areas,
                   secure, threw>>

LogCleared ==
    /\ ready
    /\ log' = [lines |-> 0, at |-> 0]
    /\ noted' = TRUE
    /\ UNCHANGED <<ready, buttons, ticked, liveTail, label, writing, timers, areas,
                   secure, off, threw>>

\* The MutationObserver's callback, after the script that made the change.
Observe ==
    /\ noted
    /\ noted' = FALSE
    /\ log' = IF liveTail THEN ToEnd(log) ELSE log
    /\ off' = (off /\ ~liveTail)
    /\ UNCHANGED <<ready, buttons, ticked, liveTail, label, writing, timers, areas,
                   secure, threw>>

ScrollLog ==
    /\ \E at \in 0..log.lines : log' = [log EXCEPT !.at = at]
    /\ off' = TRUE
    /\ UNCHANGED <<ready, buttons, ticked, liveTail, noted, label, writing, timers,
                   areas, secure, threw>>

-----------------------------------------------------------------------------
\* The end of a copy: the button says how it went, for a while.
Say(text) ==
    /\ label' = [label EXCEPT !.text = text]
    /\ timers' = timers + 1

\* copyWithTextarea: the textarea is taken out again, unless the browser throws.
CopyWithTextarea ==
    \/ Say("Copied!") /\ UNCHANGED <<areas, threw>>
    \/ Say("Failed") /\ UNCHANGED <<areas, threw>>
    \/ Say("Failed") /\ areas' = areas + 1 /\ threw' = threw + 1

CopyClick ==
    /\ ready /\ writing + timers + threw < MaxCopies
    /\ IF secure THEN /\ writing' = writing + Dispatched(buttons, "copy")
                      /\ UNCHANGED <<label, timers, areas, threw>>
       ELSE CopyWithTextarea /\ UNCHANGED writing
    /\ UNCHANGED <<ready, buttons, ticked, liveTail, log, noted, secure, off>>

\* writeText resolves, or is refused and the textarea is tried.
ClipboardAnswers ==
    /\ writing > 0 /\ writing' = writing - 1
    /\ (Say("Copied!") /\ UNCHANGED <<areas, threw>>) \/ CopyWithTextarea
    /\ UNCHANGED <<ready, buttons, ticked, liveTail, log, noted, secure, off>>

LabelTimer ==
    /\ timers > 0 /\ timers' = timers - 1
    /\ label' = [label EXCEPT !.text = label.kept]
    /\ UNCHANGED <<ready, buttons, ticked, liveTail, log, noted, writing, areas,
                   secure, off, threw>>

PanelNext ==
    \/ InitLogPanels \/ PanelSwapped \/ Tick \/ LineAdded \/ LogCleared \/ Observe
    \/ ScrollLog \/ CopyClick \/ ClipboardAnswers \/ LabelTimer

-----------------------------------------------------------------------------
\* With live tail on, a panel shows the end of its log as soon as the browser has
\* reported the last change, unless the user has scrolled since (or the lines
\* were there before the panel was set up); the checkbox and the script agree.
ShowsTheEnd ==
    ready => /\ liveTail = ticked
             /\ liveTail /\ ~noted /\ ~off => log.at = log.lines

\* A click copies once, however often the panel is looked at after a swap.
\* However often and fast the log is copied, the button ends up with its own
\* text, and nothing of a copy is left in the page but the textarea of a browser
\* that threw.
CopiesLeaveNoTrace ==
    /\ \A button \in {"copy", "clear"} : Dispatched(buttons, button) = (IF ready THEN 1 ELSE 0)
    /\ writing = 0 /\ timers = 0 => label.text = "Copy"
    /\ areas = threw

\* With live tail off, only the user (and Clear) moves what is shown.
StaysWhenOff ==
    ready /\ ready' /\ ~liveTail /\ ~liveTail' /\ log'.at # log.at
        => off' \/ log'.lines = 0

LogPanelSpec == PanelInit /\ [][PanelNext]_panelVars

LogPanelKept ==
    /\ [](ShowsTheEnd /\ CopiesLeaveNoTrace)
    /\ [][StaysWhenOff]_panelVars
=============================================================================
