------------------------------- MODULE Pages -------------------------------
(***************************************************************************)
(* The scripts of the web pages that keep what the user sees and enters in *)
(* order while htmx renders the page afresh.  They share the elements of   *)
(* the page and nothing else (each has its own listeners and variables),   *)
(* so that a behaviour here is one of one of them: Init picks the script.  *)
(***************************************************************************)
EXTENDS ErrorNotice, KeepInView, LogPanel, LogResize, JobForm

VARIABLE script

vars == <<script, noticeVars, viewVars, panelVars, sizeVars, formVars>>

Scripts == {"errors", "keep-in-view", "log-panel", "log-resize", "job-form"}

\* The scripts that do not run are at one of their initial states.
Init ==
    /\ script \in Scripts
    /\ NoticeInit /\ ViewInit /\ PanelInit /\ SizeInit /\ FormInit
    /\ script # "keep-in-view" => panel = [p \in Panels |-> Table([i \in 1..MaxRows |-> 1])]
    /\ script # "log-panel" => ticked /\ secure
    /\ script # "log-resize" => stored = 0 /\ usable /\ window = Max(Windows)
    /\ script # "job-form" => row = "tensor_split" /\ ~more

Errors ==
    /\ script = "errors" /\ NoticeNext
    /\ UNCHANGED <<script, viewVars, panelVars, sizeVars, formVars>>

InView ==
    /\ script = "keep-in-view" /\ ViewNext
    /\ UNCHANGED <<script, noticeVars, panelVars, sizeVars, formVars>>

LogPanels ==
    /\ script = "log-panel" /\ PanelNext
    /\ UNCHANGED <<script, noticeVars, viewVars, sizeVars, formVars>>

LogHeight ==
    /\ script = "log-resize" /\ SizeNext
    /\ UNCHANGED <<script, noticeVars, viewVars, panelVars, formVars>>

Form ==
    /\ script = "job-form" /\ FormNext
    /\ UNCHANGED <<script, noticeVars, viewVars, panelVars, sizeVars>>

Next == Errors \/ InView \/ LogPanels \/ LogHeight \/ Form

Spec == Init /\ [][Next]_vars

TypeOK ==
    /\ script \in Scripts
    /\ NoticeTypeOK /\ ViewTypeOK /\ PanelTypeOK /\ LogResizeTypeOK /\ FormTypeOK
=============================================================================
