------------------------------ MODULE Downloads ------------------------------
(***************************************************************************)
(* The downloads of one file (internal/huggingface/downloader.go): its     *)
(* entry in active, the goroutines that write its .part file, and callers  *)
(* that start, resume and cancel it.  What is in the files is left out.    *)
(***************************************************************************)
EXTENDS Naturals, FiniteSets

CONSTANTS Callers, MaxRuns      \* bound: starts that make a goroutine

VARIABLES
    active,     \* the goroutine that d.active has for the file, or NoRun
    run,        \* what each goroutine does, its last status, and its context
    started,    \* goroutines made so far
    expiring,   \* goroutines whose entry will be removed after 30 seconds
    caller,     \* what a caller waits for
    gaveUp      \* history: a start waited five seconds for a goroutine in vain

vars == <<active, run, started, expiring, caller, gaveUp>>

NoRun == 0
Runs == 1..MaxRuns
Terminal == {"complete", "failed", "cancelled"}
Idle == [in |-> "nothing", for |-> NoRun]
NotMade == [at |-> "not made", status |-> "none", cancelled |-> FALSE]

TypeOK ==
    /\ active \in Runs \cup {NoRun} /\ started \in 0..MaxRuns
    /\ run \in [Runs -> [at : {"not made", "starting", "writing", "leaving", "gone"},
                         status : {"none", "downloading"} \cup Terminal, cancelled : BOOLEAN]]
    /\ expiring \subseteq Runs
    /\ caller \in [Callers -> [in : {"nothing", "start", "Cancel"}, for : Runs \cup {NoRun}]]
    /\ gaveUp \in BOOLEAN

Init ==
    /\ active = NoRun /\ started = 0
    /\ run = [i \in Runs |-> NotMade]
    /\ expiring = {}
    /\ caller = [c \in Callers |-> Idle]
    /\ gaveUp = FALSE

\* The end of start, under the lock: a new entry, whatever active has by now.
MakeRun(c) ==
    /\ started < MaxRuns
    /\ started' = started + 1
    /\ active' = started'
    /\ run' = [run EXCEPT ![started'] = [at |-> "starting", status |-> "downloading",
                                         cancelled |-> FALSE]]
    /\ caller' = [caller EXCEPT ![c] = Idle]
    /\ UNCHANGED expiring

\* start, first time under the lock: a download that is going on is kept (the
\* step is left out: nothing changes but the callbacks); an ended one's entry is
\* evicted and its goroutine waited for.
Start(c) ==
    /\ caller[c] = Idle
    /\ \/ active = NoRun /\ MakeRun(c)
       \/ /\ active # NoRun /\ run[active].status \in Terminal
          /\ active' = NoRun
          /\ caller' = [caller EXCEPT ![c] = [in |-> "start", for |-> active]]
          /\ UNCHANGED <<run, started, expiring>>
    /\ UNCHANGED gaveUp

\* start goes on when the old goroutine is gone, or after five seconds.
StartGoesOn(c) ==
    /\ caller[c].in = "start"
    /\ gaveUp' = (gaveUp \/ run[caller[c].for].at # "gone")
    /\ MakeRun(c)

Cancel(c) ==
    /\ caller[c] = Idle /\ active # NoRun
    /\ run' = [run EXCEPT ![active].cancelled = TRUE]
    /\ caller' = [caller EXCEPT ![c] = [in |-> "Cancel", for |-> active]]
    /\ UNCHANGED <<active, started, expiring, gaveUp>>

\* Cancel waits for the goroutine, five seconds at the longest.
CancelReturns(c) ==
    /\ caller[c].in = "Cancel"
    /\ caller' = [caller EXCEPT ![c] = Idle]
    /\ UNCHANGED <<active, run, started, expiring, gaveUp>>

\* run: cancelled before it ran, or it opens the .part file.
RunBegins(i) ==
    /\ run[i].at = "starting"
    /\ IF run[i].cancelled
       THEN run' = [run EXCEPT ![i].at = "leaving", ![i].status = "cancelled"]
       ELSE run' = [run EXCEPT ![i].at = "writing"]
    /\ UNCHANGED <<active, started, expiring, caller, gaveUp>>

\* The download is complete or has failed, or its end of the context is noticed;
\* the file is closed before the status is sent.
RunEnds(i) ==
    /\ run[i].at = "writing"
    /\ \E status \in Terminal :
        /\ status = "cancelled" => run[i].cancelled
        /\ run' = [run EXCEPT ![i].at = "leaving", ![i].status = status]
    /\ UNCHANGED <<active, started, expiring, caller, gaveUp>>

RunLeaves(i) ==
    /\ run[i].at = "leaving"
    /\ run' = [run EXCEPT ![i].at = "gone"]
    /\ expiring' = expiring \cup {i}
    /\ UNCHANGED <<active, started, caller, gaveUp>>

\* 30 seconds later: the entry is deleted by its name, whose it is by now.
Expire(i) ==
    /\ i \in expiring
    /\ expiring' = expiring \ {i}
    /\ active' = NoRun
    /\ UNCHANGED <<run, started, caller, gaveUp>>

Next ==
    \/ \E c \in Callers : Start(c) \/ StartGoesOn(c) \/ Cancel(c) \/ CancelReturns(c)
    \/ \E i \in Runs : RunBegins(i) \/ RunEnds(i) \/ RunLeaves(i) \/ Expire(i)

Spec == Init /\ [][Next]_vars

-----------------------------------------------------------------------------
\* No resume opens the .part file beside a goroutine that has not noticed its
\* cancelled context yet, as long as no start gave up waiting
\* (internal/huggingface/downloader.go:34).
NothingRaces ==
    ~gaveUp => ~\E i, k \in Runs : /\ i # k /\ run[i].cancelled
                                   /\ run[i].at = "writing" /\ run[k].at = "writing"
=============================================================================
