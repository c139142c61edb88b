------------------------------ MODULE BenchJob ------------------------------
(***************************************************************************)
(* Benchmark jobs and the router they borrow: the job queue and cell loop  *)
(* of internal/benchmark/job_runner.go, the job's environment of           *)
(* internal/api/jobs_env.go, and the interactive starts and stops of       *)
(* internal/api/service.go.                                                *)
(*                                                                         *)
(* A job measures cells one after the other.  For a cell the router has to *)
(* run a build and a model's settings, which are given to it when it       *)
(* starts; when the job ends, the router goes back to the user's.  The     *)
(* user may stop the router at any time; interactive starts first look     *)
(* whether a job is in the way, and start later.                           *)
(*                                                                         *)
(* The router is Supervisor seen from its callers: stopped or failed       *)
(* ("down"), starting, or running ("up"), which alone counts as IsRunning. *)
(* One model is measured.  Settings that a cell applies, from a saved      *)
(* profile or from swept values, are one value of Settings.  The GPU queue *)
(* is GenQueue: here a cell has a claim, and the job keeps what it         *)
(* claimed.  Jobs of Autotune, which keep GPUs across jobs, the writing    *)
(* off of settings that always fail, deleting the record of a job that     *)
(* runs, editing a job between two runs, and edits of the user's settings  *)
(* during a job are left out.                                              *)
(***************************************************************************)
EXTENDS Integers, Sequences, SequencesExt

CONSTANTS
    Builds,         \* the builds of llama.cpp
    UserBuild,      \* the one the user has selected
    Settings,       \* settings that cells apply
    Own,            \* the model's current settings, as the user saved them
    None,           \* no build and no settings
    Plans,          \* the cell sequences that jobs may have
    MaxRuns         \* bound: how often a job is submitted or retried

ASSUME BenchAssumption ==
    /\ UserBuild \in Builds
    /\ Own \notin Settings /\ None \notin Settings /\ None \notin Builds
    /\ MaxRuns \in Nat

VARIABLES
    status,     \* the status of the last job, as stored
    cells,      \* its cells
    current,    \* JobQueue.current # nil
    cancelled,  \* its context has ended
    pc,         \* where JobQueue.run is
    then,       \* what a router restart under way is for
    at,         \* the cell it is at
    prevBuild,  \* the build it has switched to, None after an evaluation
    applied,    \* lastApplied: what it believes the router runs
    env,        \* jobEnv: jobBuildID, jobConfigs, ownsRouter, stoppedForEval
    claimed,    \* a cell holds the GPUs
    kept,       \* the GPUs are kept for the job
    router,     \* the router's state, and what it was started with
    client,     \* an interactive start or restart
    before,     \* history: the router ran, on the user's settings, at Submit
    mishaps,    \* history: what went wrong around the job
    runs        \* history: how many jobs were submitted, and how often one was retried

jobVars == <<status, cells, current, cancelled, at, prevBuild, applied>>

control == <<pc, then>>

gpuVars == <<claimed, kept>>

history == <<before, mishaps, runs>>

vars == <<jobVars, control, env, gpuVars, router, client, history>>

CellOf(build, start, eval) == [status |-> "pending", build |-> build, start |-> start, eval |-> eval]

\* A cell per starting point and preset, in this order.
Group(build, starts, presets, eval) ==
    FlattenSeq([s \in DOMAIN starts |-> [p \in 1..presets |-> CellOf(build, starts[s], eval)]])

\* The cells of a job: builds, then starting points, then presets, and on
\* each build the evaluations last.  A profile with a combination of swept
\* values is one starting point; evalStarts are those that differ in what
\* reaches an evaluation.
ExpandCells(builds, starts, measurements, evalStarts, evals) ==
    FlattenSeq([b \in DOMAIN builds |->
        Group(builds[b], starts, measurements, FALSE) \o Group(builds[b], evalStarts, evals, TRUE)])

Cell == [status : {"pending", "running", "completed", "failed", "skipped"},
         build : Builds, start : Settings \cup {Own}, eval : BOOLEAN]

\* Builds is the outermost dimension of the matrix and the form names each
\* build once: a job is done with a build when it comes to the next.
BuildsInTurn(plan) == \A i, k, m \in DOMAIN plan :
    i < k /\ k < m /\ plan[i].build = plan[m].build => plan[k].build = plan[i].build

ASSUME PlansAssumption == \A plan \in Plans : plan \in Seq(Cell) /\ BuildsInTurn(plan)

InCell == {"check", "ensure", "claim", "apply", "measure", "evalStop", "evalKill", "eval"}

InRestart == {"stop", "stopping", "start", "wait"}

JobDone == {"completed", "failed", "canceled"}

TypeOK ==
    /\ status \in {"none", "pending", "running"} \cup JobDone
    /\ cells \in Seq(Cell)
    /\ {current, cancelled, claimed, kept, before} \subseteq BOOLEAN
    /\ pc \in {"idle", "begin", "next", "restore", "end"} \cup InCell \cup InRestart
    /\ then \in {"none", "ensured", "applied", "restored"}
    /\ at \in 1..(Len(cells) + 1)
    /\ prevBuild \in Builds \cup {None}
    /\ applied \in [build : Builds \cup {None}, start : Settings \cup {Own, None}]
    /\ env \in [build : Builds \cup {None}, config : Settings \cup {None},
                owns : BOOLEAN, stopped : BOOLEAN]
    /\ router \in [state : {"down", "starting", "up"}, build : Builds, config : Settings \cup {Own}]
    /\ client \in {"idle", "checked", "restarting"}
    /\ mishaps \subseteq {"raced", "stopped", "exited", "failed", "cut"}
    /\ runs \in [jobs : 0..MaxRuns, retries : 0..MaxRuns]

NotApplied == [build |-> None, start |-> None]

NoJob == [build |-> None, config |-> None, owns |-> FALSE, stopped |-> FALSE]

Users(r) == r.build = UserBuild /\ r.config = Own

Init ==
    /\ status = "none" /\ cells = <<>> /\ current = FALSE /\ cancelled = FALSE
    /\ pc = "idle" /\ then = "none" /\ at = 1 /\ prevBuild = None /\ applied = NotApplied
    /\ env = NoJob /\ claimed = FALSE /\ kept = FALSE
    /\ router \in [state : {"down", "up"}, build : {UserBuild}, config : {Own}]
    /\ client = "idle"
    /\ before = FALSE /\ mishaps = {} /\ runs = [jobs |-> 0, retries |-> 0]

here == cells[at]

----------------------------------------------------------------------------
\* The queue.

\* Under the queue's lock the job is stored as pending and becomes current.
Begun(cs) ==
    /\ ~current /\ runs.jobs + runs.retries < MaxRuns
    /\ cells' = cs /\ status' = "pending"
    /\ current' = TRUE /\ cancelled' = FALSE
    /\ pc' = "begin"
    /\ before' = (router.state = "up" /\ Users(router))
    /\ at' = 1
    /\ UNCHANGED <<then, prevBuild, applied, env, gpuVars, router, client, mishaps>>

Submit ==
    /\ \E plan \in Plans : Begun(plan)
    /\ runs' = [runs EXCEPT !.jobs = @ + 1]

RetryAll ==
    /\ \E i \in DOMAIN cells : cells[i].status = "failed"
    /\ Begun([i \in DOMAIN cells |-> [cells[i] EXCEPT !.status = "pending"]])
    /\ runs' = [runs EXCEPT !.retries = @ + 1]

\* The same job again: its failed cells are pending, the others as they are.
RetryFailed ==
    /\ runs' = [runs EXCEPT !.retries = @ + 1]
    /\ \E i \in DOMAIN cells : cells[i].status = "failed"
    /\ Begun([i \in DOMAIN cells |->
                 IF cells[i].status = "failed" THEN [cells[i] EXCEPT !.status = "pending"]
                 ELSE cells[i]])

Cancel ==
    /\ current /\ ~cancelled
    /\ cancelled' = TRUE
    /\ UNCHANGED <<status, cells, current, at, prevBuild, applied, control, env, gpuVars, router,
                   client, history>>

Busy == current \/ env.owns

----------------------------------------------------------------------------
\* The loop over the cells.

BeginUnset ==
    /\ pc = "begin"
    /\ status' = "running"
    /\ at' = 0 /\ prevBuild' = None /\ applied' = NotApplied
    /\ pc' = "next"
    /\ UNCHANGED <<cells, current, cancelled, then, env, gpuVars, router, client, history>>

Begin ==
    /\ pc = "begin"
    /\ status' = "running"
    /\ at' = 1 /\ prevBuild' = None /\ applied' = NotApplied
    /\ pc' = "next"
    /\ UNCHANGED <<cells, current, cancelled, then, env, gpuVars, router, client, history>>

SkipCompleted ==
    /\ here.status = "completed"
    /\ at' = at + 1
    /\ UNCHANGED <<cells, pc>>

SkipCancelled ==
    /\ here.status # "completed" /\ cancelled
    /\ cells' = [cells EXCEPT ![at].status = "skipped"]
    /\ at' = at + 1
    /\ UNCHANGED pc

RunCell ==
    /\ here.status # "completed" /\ ~cancelled
    /\ cells' = [cells EXCEPT ![at].status = "running"]
    /\ pc' = IF here.build # prevBuild THEN "check" ELSE "claim"
    /\ UNCHANGED at

NextCell ==
    /\ pc = "next" /\ at <= Len(cells)
    /\ SkipCompleted \/ SkipCancelled \/ RunCell
    /\ UNCHANGED <<status, current, cancelled, prevBuild, applied, then, env, gpuVars, router,
                   client, history>>

\* The status is stored before the router is given back.
LastCell ==
    /\ pc = "next" /\ at > Len(cells)
    /\ status' = IF cancelled THEN "canceled"
                 ELSE IF \E i \in DOMAIN cells : cells[i].status = "completed" THEN "completed"
                 ELSE "failed"
    /\ pc' = "restore"
    /\ UNCHANGED <<cells, current, cancelled, at, prevBuild, applied, then, env, gpuVars, router,
                   client, history>>

\* A cell ends: its claim is given back, and after an evaluation nothing is
\* known of the router any more.
EndCell(result) ==
    /\ cells' = [cells EXCEPT ![at].status = result]
    /\ at' = at + 1
    /\ pc' = "next" /\ then' = "none"
    /\ claimed' = FALSE
    /\ prevBuild' = IF here.eval THEN None ELSE prevBuild
    /\ applied' = IF here.eval THEN NotApplied ELSE applied
    /\ UNCHANGED <<status, current, cancelled, kept, client, before, runs>>

CheckBuild ==
    /\ pc = "check"
    /\ \/ /\ pc' = IF here.eval THEN "claim" ELSE "ensure"
          /\ UNCHANGED <<jobVars, then, gpuVars, client, history>>
       \/ EndCell("failed") /\ UNCHANGED mishaps
    /\ UNCHANGED <<env, router>>

\* EnsureBuildActive.  The router is left alone when it runs the build on
\* the user's settings and knows the model, and when settings follow.
BuildIsServed == router.state = "up" /\ router.build = here.build /\ env.config = None

EnsureWithoutOwning ==
    /\ pc = "ensure"
    /\ \/ /\ BuildIsServed \/ here.start # Own
          /\ env' = [env EXCEPT !.build = here.build]
          /\ prevBuild' = here.build
          /\ pc' = "claim" /\ UNCHANGED then
       \/ /\ here.start = Own
          /\ env' = [env EXCEPT !.build = here.build]
          /\ pc' = "stop" /\ then' = "ensured"
          /\ UNCHANGED prevBuild
    /\ UNCHANGED <<status, cells, current, cancelled, at, applied, gpuVars, router, client, history>>

EnsureBuildActive ==
    /\ pc = "ensure"
    /\ \/ /\ BuildIsServed \/ here.start # Own
          /\ env' = [env EXCEPT !.build = here.build]
          /\ prevBuild' = here.build
          /\ pc' = "claim" /\ UNCHANGED then
       \/ /\ here.start = Own
          /\ env' = [env EXCEPT !.build = here.build, !.owns = TRUE]
          /\ pc' = "stop" /\ then' = "ensured"
          /\ UNCHANGED prevBuild
    /\ UNCHANGED <<status, cells, current, cancelled, at, applied, gpuVars, router, client, history>>

WantAnyBuild(c) == [build |-> UserBuild, start |-> c.start]

\* What a cell that applies settings needs the router to run.
Want(c) == [build |-> c.build, start |-> c.start]

ClaimGPUs ==
    /\ pc = "claim"
    /\ \/ /\ claimed' = TRUE /\ kept' = TRUE
          /\ pc' = IF here.eval THEN "evalStop"
                   ELSE IF here.start # Own /\ applied # Want(here) THEN "apply"
                   ELSE "measure"
          /\ UNCHANGED <<jobVars, then, client, history>>
       \/ EndCell("failed") /\ UNCHANGED mishaps
    /\ UNCHANGED <<env, router>>

ApplyEphemeralConfig ==
    /\ pc = "apply"
    /\ \/ /\ env' = [env EXCEPT !.config = here.start, !.owns = TRUE]
          /\ pc' = "stop" /\ then' = "applied"
          /\ UNCHANGED <<jobVars, gpuVars, client, history>>
       \/ EndCell("failed") /\ UNCHANGED <<env, mishaps>>
    /\ UNCHANGED router

\* The benchmark of the cell: it completes only against a router that runs.
Measure ==
    /\ pc = "measure"
    /\ \/ router.state = "up" /\ EndCell("completed")
       \/ EndCell("failed")
    /\ UNCHANGED <<env, router, mishaps>>

\* StopRouterForEval, once for a job; a build without the evaluation's
\* program fails the cell before.
StopForEval ==
    /\ pc = "evalStop"
    /\ \/ /\ IF env.stopped \/ router.state # "up"
               THEN pc' = "eval" /\ UNCHANGED env
               ELSE pc' = "evalKill" /\ env' = [env EXCEPT !.stopped = TRUE, !.owns = TRUE]
          /\ UNCHANGED <<jobVars, then, gpuVars, client, history>>
       \/ EndCell("failed") /\ UNCHANGED <<env, mishaps>>
    /\ UNCHANGED router

KillForEval ==
    /\ pc = "evalKill"
    /\ IF router.state = "down"
         THEN EndCell("failed") /\ UNCHANGED router
         ELSE /\ router' = [router EXCEPT !.state = "down"]
              /\ pc' = "eval"
              /\ UNCHANGED <<jobVars, then, gpuVars, client, before, runs>>
    /\ UNCHANGED <<env, mishaps>>

Evaluate ==
    /\ pc = "eval"
    /\ \E result \in {"completed", "failed"} : EndCell(result)
    /\ UNCHANGED <<env, router, mishaps>>

----------------------------------------------------------------------------
\* restartRouter, for EnsureBuildActive, ApplyEphemeralConfig and the
\* restoring at the end of the job.

RestartEnds(ok) ==
    CASE then = "restored" ->
            /\ env' = [env EXCEPT !.owns = FALSE]
            /\ pc' = "end" /\ then' = "none"
            /\ UNCHANGED <<jobVars, gpuVars, client, before, runs>>
      [] then # "restored" /\ ~ok ->
            EndCell("failed") /\ UNCHANGED env
      [] then = "ensured" /\ ok ->
            /\ prevBuild' = here.build
            /\ pc' = "claim" /\ then' = "none"
            /\ UNCHANGED <<status, cells, current, cancelled, at, applied, env, gpuVars, client,
                           before, runs>>
      [] then = "applied" /\ ok ->
            /\ applied' = Want(here)
            /\ pc' = "measure" /\ then' = "none"
            /\ UNCHANGED <<status, cells, current, cancelled, at, prevBuild, env, gpuVars, client,
                           before, runs>>

RestartLooks ==
    /\ pc = "stop"
    /\ pc' = IF router.state = "up" THEN "stopping" ELSE "start"
    /\ UNCHANGED <<jobVars, then, env, gpuVars, router, client, history>>

\* Stop is an error when the router is already down.
RestartStops ==
    /\ pc = "stopping"
    /\ IF router.state = "down"
         THEN RestartEnds(FALSE) /\ UNCHANGED router
         ELSE /\ router' = [router EXCEPT !.state = "down"]
              /\ pc' = "start"
              /\ UNCHANGED <<jobVars, then, env, gpuVars, client, before, runs>>
    /\ UNCHANGED mishaps

\* jobRouterOptions: an empty option stands for the user's choice.
Options == [state |-> "starting",
            build |-> IF env.build = None THEN UserBuild ELSE env.build,
            config |-> IF env.config = None THEN Own ELSE env.config]

\* Start is an error when the router is not down, or cannot be launched.
RestartStarts ==
    /\ pc = "start"
    /\ \/ /\ router.state = "down"
          /\ router' = Options
          /\ pc' = "wait"
          /\ UNCHANGED <<jobVars, then, env, gpuVars, client, history>>
       \/ /\ RestartEnds(FALSE)
          /\ mishaps' = mishaps \cup {"failed"}
          /\ UNCHANGED router

\* WaitRunning, for two minutes, or until the job is cancelled, which the
\* restoring does not heed.
RestartWaits ==
    /\ pc = "wait"
    /\ \/ router.state = "up" /\ RestartEnds(TRUE) /\ UNCHANGED mishaps
       \/ router.state = "down" /\ RestartEnds(FALSE) /\ UNCHANGED mishaps
       \/ /\ router.state = "starting"
          /\ RestartEnds(FALSE)
          /\ mishaps' = mishaps \cup {"cut"}
    /\ UNCHANGED router

----------------------------------------------------------------------------
\* The end of the job.

\* Whether the router is restarted for the user: not when the job never
\* took it, or when somebody else stopped it.
RestoreRunning == env.owns /\ router.state = "up"

MustRestore == env.stopped \/ (env.owns /\ router.state = "up")

LeftOfJob == [NoJob EXCEPT !.build = env.build]

LeftOwned == [NoJob EXCEPT !.owns = env.owns]

Cleared == NoJob

ClearEphemeralConfig ==
    /\ pc = "restore"
    /\ env' = Cleared
    /\ IF MustRestore THEN pc' = "stop" /\ then' = "restored"
       ELSE pc' = "end" /\ UNCHANGED then
    /\ UNCHANGED <<jobVars, gpuVars, router, client, history>>

\* ReleaseGPUs; then the queue is free.
End ==
    /\ pc = "end"
    /\ kept' = FALSE
    /\ current' = FALSE
    /\ pc' = "idle"
    /\ UNCHANGED <<status, cells, cancelled, at, prevBuild, applied, then, env, claimed, router,
                   client, history>>

----------------------------------------------------------------------------
\* The router and its user.

\* Bound: once, the router exits on its own or the user stops it.
Undisturbed == mishaps \cap {"exited", "stopped"} = {}

RouterUp ==
    /\ router.state = "starting"
    /\ router' = [router EXCEPT !.state = "up"]
    /\ UNCHANGED <<jobVars, control, env, gpuVars, client, history>>

RouterExit ==
    /\ router.state # "down" /\ Undisturbed
    /\ router' = [router EXCEPT !.state = "down"]
    /\ mishaps' = mishaps \cup {"exited"}
    /\ UNCHANGED <<jobVars, control, env, gpuVars, client, before, runs>>

\* handleServiceStop is not guarded.
UserStop ==
    /\ router.state # "down" /\ Undisturbed
    /\ router' = [router EXCEPT !.state = "down"]
    /\ mishaps' = mishaps \cup {"stopped"}
    /\ UNCHANGED <<jobVars, control, env, gpuVars, client, before, runs>>

\* The guard of handleServiceStart, handleServiceRestart and
\* handleActivateModel: refused while a job is in the way.
ClientCheck ==
    /\ client = "idle" /\ ~Busy
    /\ client' = "checked"
    /\ UNCHANGED <<jobVars, control, env, gpuVars, router, history>>

Raced == IF current THEN mishaps \cup {"raced"} ELSE mishaps

ClientStop ==
    /\ client = "checked" /\ router.state = "up"
    /\ router' = [router EXCEPT !.state = "down"]
    /\ client' = "restarting"
    /\ mishaps' = Raced
    /\ UNCHANGED <<jobVars, control, env, gpuVars, before, runs>>

\* startRouter with the zero options.  It may fail, and it does nothing to
\* a router that is not down.
ClientStart ==
    /\ client \in {"checked", "restarting"}
    /\ client' = "idle"
    /\ \/ /\ router.state = "down"
          /\ router' = [state |-> "starting", build |-> UserBuild, config |-> Own]
          /\ mishaps' = Raced
       \/ UNCHANGED <<router, mishaps>>
    /\ UNCHANGED <<jobVars, control, env, gpuVars, before, runs>>

----------------------------------------------------------------------------
JobStep ==
    \/ Begin \/ NextCell \/ LastCell
    \/ CheckBuild \/ EnsureBuildActive \/ ClaimGPUs \/ ApplyEphemeralConfig \/ Measure
    \/ StopForEval \/ KillForEval \/ Evaluate
    \/ RestartLooks \/ RestartStops \/ RestartStarts \/ RestartWaits
    \/ ClearEphemeralConfig \/ End

Next ==
    \/ Submit \/ RetryFailed \/ Cancel
    \/ JobStep
    \/ RouterUp \/ RouterExit \/ UserStop
    \/ ClientCheck \/ ClientStop \/ ClientStart

Spec == Init /\ [][Next]_vars

\* The goroutine of the job is scheduled; what it waits for, the GPUs, the
\* router, the benchmark, answers or runs into a limit of time.
FairSpec == Spec /\ WF_vars(JobStep)

----------------------------------------------------------------------------
\* Properties.

\* Without a job nothing of the last one is left: no build, settings or
\* ownership in jobEnv, no claim and no kept GPU (ClearEphemeralConfig,
\* ReleaseGPUs, and the order of the deferred calls of JobQueue.run).
HandedBack == ~current => env = NoJob /\ ~claimed /\ ~kept

\* A cell that applies settings is measured on its build under them,
\* whatever was served before, unless an interactive start that was
\* admitted before the job got in the way, or a restart failed or was cut
\* short (the lastApplied shortcut of runCell).
AppliedIsServed ==
    pc = "measure" /\ here.start # Own /\ router.state = "up"
    /\ mishaps \cap {"raced", "failed", "cut"} = {}
        => router.build = here.build /\ router.config = here.start

\* Once a job is over, the router runs the job's build or settings only if
\* the wait for a start was cut short (ownership and restoring).
LeftOnlyByCut ==
    ~current /\ router.state = "up" /\ "cut" \notin mishaps => Users(router)

\* Nothing of a job outlives it, neither in the server nor on the router.
NothingLeft == HandedBack /\ LeftOnlyByCut

\* A job gives back a router that ran when it was submitted, running on the
\* user's build and settings, if nobody stopped it and it did not fail,
\* also when the job itself stopped it for an evaluation
\* (ClearEphemeralConfig, StopRouterForEval).
GivenBack ==
    [][current /\ ~current' /\ before /\ mishaps = {}
        => router'.state = "up" /\ Users(router')]_vars

\* As long as no new job is submitted, a completed cell stays completed and
\* is not measured again: a retry, the going on after a failed cell, a cancel
\* and whatever ends a cell leave it alone (RetryFailed, run).
CompletedKept ==
    [][runs'.jobs = runs.jobs =>
        \A i \in DOMAIN cells :
            cells[i].status = "completed" => cells'[i].status = "completed"]_vars

\* However a job ends, interactive starts are admitted again
\* (routerBusyWithJob).
GuardsReleased == Busy ~> ~Busy

\* The user gets back the router, and the use of it.
UserServed == GivenBack /\ GuardsReleased

\* What the comments of job_runner.go and compare-profiles.md say: a cell
\* of the current settings is measured under the current settings.
OwnIsServed ==
    pc = "measure" /\ here.start = Own /\ router.state = "up" /\ mishaps = {}
        => router.build = here.build /\ router.config = Own
=============================================================================
