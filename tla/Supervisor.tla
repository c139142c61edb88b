----------------------------- MODULE Supervisor -----------------------------
(***************************************************************************)
(* One supervised program: internal/process/supervisor.go, as the router   *)
(* Manager and the Instances of internal/process/instances.go use it.      *)
(*                                                                         *)
(* Every Start forks a process, a goroutine that waits for its exit        *)
(* (monitorProcess) and one that polls its health endpoint (pollHealth).   *)
(* Callers of Stop and Restart wait outside the lock.  One action is one   *)
(* critical section of Supervisor.mu or one event outside it: a process    *)
(* becomes healthy or exits, a health request is answered.                 *)
(*                                                                         *)
(* All processes of a supervisor serve the same health URL, one after the  *)
(* other.  Log lines and HealthOK, which only the web page shows, are left *)
(* out.                                                                    *)
(***************************************************************************)
EXTENDS Integers, FiniteSets

CONSTANTS
    Procs,      \* the processes that can be started, each once
    Callers,    \* goroutines that call Stop and Restart
    None        \* a nil command

ASSUME NoneAssumption == None \notin Procs

VARIABLES
    state,      \* Supervisor.status.State
    cmd,        \* Supervisor.cmd; config and cancel are set and cleared with it
    life,       \* what each process does
    monitor,    \* its monitorProcess goroutine; from "closed" on, done is closed
    poller,     \* its pollHealth goroutine
    at,         \* where each caller is, and the process it captured
    astray      \* history: the live processes that a race has lost

vars == <<state, cmd, life, monitor, poller, at, astray>>

Idle == [pc |-> "idle", proc |-> None]

\* A caller past Stop's nil check has a process to wait for.
Places == [pc : {"idle", "stopChecked", "restart", "start"}, proc : {None}]
          \cup [pc : {"stopping", "killing", "restopping", "rekilling"}, proc : Procs]

TypeOK ==
    /\ state \in {"stopped", "starting", "running", "failed"}
    /\ cmd \in Procs \cup {None}
    /\ life \in [Procs -> {"unborn", "up", "healthy", "exited", "crashed"}]
    /\ monitor \in [Procs -> {"none", "waiting", "closed", "ended"}]
    /\ poller \in [Procs -> {"none", "sleeping", "asking", "passed", "timedOut", "ended"}]
    /\ at \in [Callers -> Places]
    /\ astray \subseteq Procs

Init ==
    /\ state = "stopped"
    /\ cmd = None
    /\ life = [p \in Procs |-> "unborn"]
    /\ monitor = [p \in Procs |-> "none"]
    /\ poller = [p \in Procs |-> "none"]
    /\ at = [c \in Callers |-> Idle]
    /\ astray = {}

Live(p) == life[p] \in {"up", "healthy"}

Gone(p) == life[p] \in {"exited", "crashed"}

Healthy == \E p \in Procs : life[p] = "healthy"

ActiveOnlyRunning == state = "running"

Active == state \in {"starting", "running"}

-----------------------------------------------------------------------------
(* The processes.                                                          *)

\* The program answers its health endpoint; the port is one process's alone.
BecomeHealthy(p) ==
    /\ life[p] = "up" /\ ~Healthy
    /\ life' = [life EXCEPT ![p] = "healthy"]
    /\ UNCHANGED <<state, cmd, monitor, poller, at, astray>>

\* The program ends by itself, on SIGTERM, or killed.
Exit(p) ==
    /\ Live(p)
    /\ \E how \in {"exited", "crashed"} : life' = [life EXCEPT ![p] = how]
    /\ astray' = astray \ {p}
    /\ UNCHANGED <<state, cmd, monitor, poller, at>>

-----------------------------------------------------------------------------
(* Start.                                                                  *)

Launch(p) ==
    /\ life[p] = "unborn"
    /\ life' = [life EXCEPT ![p] = "up"]
    /\ cmd' = p
    /\ state' = "starting"
    /\ monitor' = [monitor EXCEPT ![p] = "waiting"]
    /\ poller' = [poller EXCEPT ![p] = "sleeping"]

Start(p) ==
    /\ ~Active
    /\ Launch(p)
    /\ UNCHANGED <<at, astray>>

-----------------------------------------------------------------------------
(* monitorProcess.                                                         *)

CloseDoneOnExit(p) ==
    /\ monitor[p] = "waiting" /\ Gone(p)
    /\ monitor' = [monitor EXCEPT ![p] = IF life[p] = "crashed" THEN "waiting" ELSE "closed"]
    /\ UNCHANGED <<state, cmd, life, poller, at, astray>>

\* Wait returns, and done is closed.
CloseDone(p) ==
    /\ monitor[p] = "waiting" /\ Gone(p)
    /\ monitor' = [monitor EXCEPT ![p] = "closed"]
    /\ UNCHANGED <<state, cmd, life, poller, at, astray>>

\* The exit is recorded, unless the process has been stopped or replaced.
RecordExit(p) ==
    /\ monitor[p] = "closed"
    /\ monitor' = [monitor EXCEPT ![p] = "ended"]
    /\ IF cmd = p
       THEN state' = IF life[p] = "crashed" THEN "failed" ELSE "stopped"
       ELSE UNCHANGED state
    /\ UNCHANGED <<cmd, life, poller, at, astray>>

-----------------------------------------------------------------------------
(* pollHealth.                                                             *)

PollMove(p, from, to) ==
    /\ poller[p] = from
    /\ poller' = [poller EXCEPT ![p] = to]
    /\ UNCHANGED <<cmd, life, monitor, at>>

\* It wakes before its deadline and looks at the status.
PollWake(p) ==
    /\ PollMove(p, "sleeping", IF Active THEN "asking" ELSE "ended")
    /\ UNCHANGED <<state, astray>>

\* Its request is answered 200, by whichever process answers at the URL.
PollAnswered(p) ==
    /\ Healthy
    /\ PollMove(p, "asking", "passed")
    /\ UNCHANGED <<state, astray>>

PollUnanswered(p) ==
    /\ PollMove(p, "asking", "sleeping")
    /\ UNCHANGED <<state, astray>>

PollRecord(p) ==
    /\ PollMove(p, "passed", "ended")
    /\ state' = "running"
    /\ astray' = astray \ {cmd}

\* The deadline has passed: a process that is still starting has failed, and
\* is not looked after any more.
PollTimeout(p) ==
    /\ PollMove(p, "sleeping", "timedOut")
    /\ IF state = "starting"
       THEN state' = "failed" /\ astray' = astray \cup {q \in Procs : q = cmd /\ Live(q)}
       ELSE UNCHANGED <<state, astray>>

-----------------------------------------------------------------------------
(* Stop and Restart.                                                       *)

CallerMove(c, pc, proc) ==
    /\ at' = [at EXCEPT ![c] = [pc |-> pc, proc |-> proc]]
    /\ UNCHANGED <<life, monitor, poller>>

\* Instances.Stop looks whether the instance is active before it calls Stop.
InstancesStop(c) ==
    /\ at[c] = Idle
    /\ Active
    /\ CallerMove(c, "stopChecked", None)
    /\ UNCHANGED <<state, cmd, astray>>

\* Restart captures the config, which is there when cmd is.
Restart(c) ==
    /\ at[c] = Idle
    /\ cmd # None
    /\ CallerMove(c, "restart", None)
    /\ UNCHANGED <<state, cmd, astray>>

StopWithoutCheck(c) ==
    /\ at[c].pc \in {"idle", "stopChecked", "restart"}
    /\ CallerMove(c, IF at[c].pc = "restart" THEN "restopping" ELSE "stopping", cmd)
    /\ UNCHANGED <<state, cmd, astray>>

\* Stop, its first critical section; then SIGTERM and the wait for done.
\* With no process to stop it is an error, and Restart goes on to Start.
Stop(c) ==
    /\ at[c].pc \in {"idle", "stopChecked", "restart"}
    /\ IF cmd # None
       THEN CallerMove(c, IF at[c].pc = "restart" THEN "restopping" ELSE "stopping", cmd)
       ELSE CallerMove(c, IF at[c].pc = "restart" THEN "start" ELSE "idle", None)
    /\ UNCHANGED <<state, cmd, astray>>

StopKillUnwaited(c) ==
    /\ at[c].pc \in {"stopping", "restopping"}
    /\ CallerMove(c, IF at[c].pc = "restopping" THEN "start" ELSE "idle", None)
    /\ UNCHANGED <<state, cmd, astray>>

\* StopTimeout has passed: the process is killed, and waited for.
StopKill(c) ==
    /\ at[c].pc \in {"stopping", "restopping"}
    /\ CallerMove(c, IF at[c].pc = "restopping" THEN "rekilling" ELSE "killing", at[c].proc)
    /\ UNCHANGED <<state, cmd, astray>>

\* done is closed: Stop's second critical section, which forgets whatever
\* process there is by now.
StopEnd(c) ==
    /\ at[c].proc # None
    /\ monitor[at[c].proc] \in {"closed", "ended"}
    /\ state' = "stopped" /\ cmd' = None
    /\ astray' = astray \cup {p \in Procs : p = cmd /\ p # at[c].proc /\ Live(p)}
    /\ CallerMove(c, IF at[c].pc \in {"restopping", "rekilling"} THEN "start" ELSE "idle", None)

\* Restart's call of Start, which may be refused or fail.
RestartStart(c) ==
    /\ at[c].pc = "start"
    /\ at' = [at EXCEPT ![c] = Idle]
    /\ \/ ~Active /\ \E p \in Procs : Launch(p)
       \/ UNCHANGED <<state, cmd, life, monitor, poller>>
    /\ UNCHANGED astray

\* Instances.Forget drops the supervisor of an instance that is not active;
\* the goroutines of the dropped one go on without effect.
Forget ==
    /\ ~Active
    /\ \A c \in Callers : at[c] = Idle
    /\ state' = "stopped" /\ cmd' = None
    /\ monitor' = [p \in Procs |-> IF monitor[p] = "none" THEN "none" ELSE "ended"]
    /\ poller' = [p \in Procs |-> IF poller[p] \in {"none", "timedOut"} THEN poller[p] ELSE "ended"]
    /\ UNCHANGED <<life, at, astray>>

-----------------------------------------------------------------------------
ProcStep(p) ==
    BecomeHealthy(p) \/ Exit(p) \/ Start(p) \/ CloseDone(p) \/ RecordExit(p)
    \/ PollWake(p) \/ PollAnswered(p) \/ PollUnanswered(p) \/ PollRecord(p) \/ PollTimeout(p)

CallerStep(c) ==
    InstancesStop(c) \/ Restart(c) \/ Stop(c) \/ StopKill(c) \/ StopEnd(c) \/ RestartStart(c)

Next ==
    \/ \E p \in Procs : ProcStep(p)
    \/ \E c \in Callers : CallerStep(c)
    \/ Forget

Spec == Init /\ [][Next]_vars

Killed(p) == \E c \in Callers : at[c].pc \in {"killing", "rekilling"} /\ at[c].proc = p

(***************************************************************************)
(* Fairness.  Goroutines are scheduled; a poll cannot go round for ever    *)
(* (time passes, so a poller that keeps sleeping meets its deadline); a    *)
(* killed process exits.                                                   *)
(***************************************************************************)
Fairness ==
    /\ \A p \in Procs :
          /\ WF_vars(CloseDone(p) \/ RecordExit(p))
          /\ WF_vars(PollAnswered(p) \/ PollUnanswered(p) \/ PollRecord(p))
          /\ SF_vars(PollTimeout(p))
          /\ WF_vars(Killed(p) /\ Exit(p))
    /\ \A c \in Callers :
          WF_vars(StopKill(c) \/ StopEnd(c) \/ RestartStart(c)
                  \/ (at[c].pc \in {"stopChecked", "restart"} /\ Stop(c)))

FairSpec == Spec /\ Fairness

-----------------------------------------------------------------------------
(* What holds.                                                             *)

\* A supervisor that is not active has no live process, except those that a
\* race has lost: the end of an old process is not taken for the end of its
\* successor, and no supervisor is dropped, nor started anew, over a process
\* it has.
StoppedIsGone == ~Active => \A p \in Procs : Live(p) => p \in astray

\* The supervisor lets go of a live process, which then nobody can stop, in
\* two ways only: a health check that timed out has called this very process
\* failed, and no later one has found it running; or a Stop ends that had
\* waited for another process.
LostOnlyByRaces == [][\A p \in Procs :
    p = cmd /\ cmd' # p /\ Live(p) =>
        \/ p \in astray
        \/ \E c \in Callers : at[c].proc \notin {None, p} /\ at'[c].proc = None]_vars

\* When Stop returns, the process it was to stop is gone, and with it the GPU
\* memory and the port the next Start needs.
StopMeansGone == [][\A c \in Callers :
    at[c].proc # None /\ at'[c].proc = None =>
        life'[at[c].proc] \in {"exited", "crashed"}]_vars

\* Whatever is called stopped is gone, by the supervisor's status and by a Stop
\* that returned.
StoppedMeansGone == []StoppedIsGone /\ StopMeansGone

\* A start ends: the process becomes ready, fails, or is stopped.
StartEnds == state = "starting" ~> state # "starting"

\* Stop and Restart return.
CallsReturn == \A c \in Callers : at[c] # Idle ~> at[c] = Idle

\* Starts, stops and restarts end.
CallsEnd == StartEnds /\ CallsReturn

-----------------------------------------------------------------------------
(* What the comments say.                                                  *)

\* IsRunning "returns true once the process has passed its health check":
\* once the supervisor has itself recorded the end of the process, it does
\* not call it running.
RunningIsRecorded == state = "running" => cmd # None /\ monitor[cmd] # "ended"
=============================================================================
