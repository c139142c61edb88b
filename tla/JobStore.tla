------------------------------ MODULE JobStore ------------------------------
(***************************************************************************)
(* Image, video and music jobs: the store of internal/api/gen_jobs.go and  *)
(* the goroutine that runs a job (gen_image_jobs.go, gen_video_jobs.go and *)
(* gen_music.go).  There is one store for each kind of job.                *)
(*                                                                         *)
(* A job lives in three places: in memory (jobStore.jobs), in a record     *)
(* file, and in its output file.  One action is one critical section of    *)
(* jobStore.mu, or one step of a goroutine outside it.  A record is        *)
(* written after mu is released, under saveMu; a crash forgets memory, the *)
(* goroutines and the write in flight.                                     *)
(*                                                                         *)
(* The queue is GenQueue, of which only what it guarantees is used here: a *)
(* turn is one job's at a time.  The backends, on the same machine, answer *)
(* polls while they live.  Errors of the disk, which the store only logs,  *)
(* are left out.                                                           *)
(***************************************************************************)
EXTENDS Integers

CONSTANTS
    Jobs,           \* job IDs; each is used once, as random IDs are
    Kinds,          \* the kinds of job: "image", "video", "music"
    MaxCrashes      \* bound: how often the server stops

ASSUME KindsAssumption == Kinds \subseteq {"image", "video", "music"} /\ MaxCrashes \in Nat

VARIABLES
    up,         \* the server: opening, up, closing (jobStore.closed), down
    job,        \* jobStore.jobs: a job's status, and whether it has its path
    record,     \* the record files
    write,      \* record writes begun and not yet on disk
    file,       \* the jobs whose output file exists
    runner,     \* where the goroutine of each job is
    ctx,        \* its context; a video's CancelRequested is ctx # "live"
    backend,    \* the jobs the backend works on
    fate,       \* history: what clients were told of a job
    kind,       \* the kind of job this store holds; it never changes
    crashes     \* history: how often the server stopped

vars == <<up, job, record, write, file, runner, ctx, backend, fate, kind, crashes>>

Unfinished == {"queued", "running"}

Finished == {"succeeded", "failed", "cancelled"}

Entry == [status : {"none"} \cup Unfinished \cup Finished, path : BOOLEAN]

Nothing == [status |-> "none", path |-> FALSE]

\* Where a goroutine posts a request, and where it then waits for its answer.  A
\* song takes two requests.
Posted == [posting |-> "generating", postingSynth |-> "synthesizing"]

Holding == {"turn", "starting", "ready", "posting", "generating", "postingSynth",
            "synthesizing", "answered", "saving", "saved", "attached", "failed",
            "cancelled", "discard", "release"}

Write == [job : Jobs, entry : Entry, by : {"runner", "client"}]

TypeOK ==
    /\ up \in {"opening", "up", "closing", "down"}
    /\ job \in [Jobs -> Entry]
    /\ record \in [Jobs -> Entry]
    /\ write = {} \/ \E w \in Write : write = {w}
    /\ file \subseteq Jobs
    /\ runner \in [Jobs -> {"none", "adding", "waiting", "leaving"} \cup Holding]
    /\ ctx \in [Jobs -> {"live", "ending", "ended"}]
    /\ backend \subseteq Jobs
    /\ fate \in [Jobs -> {"new", "submitted", "accepted", "deleted", "unanswered"}]
    /\ kind \in Kinds
    /\ crashes \in 0..MaxCrashes

Init ==
    /\ up = "up"
    /\ job = [j \in Jobs |-> Nothing]
    /\ record = [j \in Jobs |-> Nothing]
    /\ write = {}
    /\ file = {}
    /\ runner = [j \in Jobs |-> "none"]
    /\ ctx = [j \in Jobs |-> "live"]
    /\ backend = {}
    /\ fate = [j \in Jobs |-> "new"]
    /\ kind \in Kinds
    /\ crashes = 0

Serving == up \in {"up", "closing"}

-----------------------------------------------------------------------------
(* The store.                                                              *)

SaveUnordered(j, e, by) ==
    write' = write \cup (IF up = "up" THEN {[job |-> j, entry |-> e, by |-> by]} ELSE {})

\* saveLocked: under mu it waits for the write in flight, then begins its own.
Save(j, e, by) ==
    IF up = "up"
    THEN write = {} /\ write' = {[job |-> j, entry |-> e, by |-> by]}
    ELSE UNCHANGED write

\* update: the job, if it is there, becomes e, saved when its status changes.
Update(j, e, by) ==
    IF job[j] = Nothing THEN UNCHANGED <<job, write>>
    ELSE /\ job' = [job EXCEPT ![j] = e]
         /\ IF e.status = job[j].status THEN UNCHANGED write ELSE Save(j, e, by)

With(j, status) == [job[j] EXCEPT !.status = status]

\* genJob.start: a cancelled job is left as it is.
Started(j) == IF job[j].status = "cancelled" THEN job[j] ELSE With(j, "running")

\* The rename of atomicfile.Write.
Land == \E w \in write :
    /\ record' = [record EXCEPT ![w.job] = w.entry]
    /\ write' = write \ {w}
    /\ UNCHANGED <<up, job, file, runner, ctx, backend, fate, kind, crashes>>

\* The goroutine that saves a job waits for the write.
Saving(j, by) == \E w \in write : w.job = j /\ w.by = by

-----------------------------------------------------------------------------
(* Clients.                                                                *)

SubmitWithoutSave(j) ==
    /\ up = "up"
    /\ fate[j] = "new" /\ fate' = [fate EXCEPT ![j] = "submitted"]
    /\ \E status \in Unfinished :
          job' = [job EXCEPT ![j] = [status |-> status, path |-> FALSE]]
    /\ runner' = [runner EXCEPT ![j] = "adding"]
    /\ UNCHANGED <<up, record, write, file, ctx, backend, kind, crashes>>

\* A ticket is taken, running at once if the GPU is free, and the job added.
Submit(j) ==
    /\ Serving
    /\ fate[j] = "new" /\ fate' = [fate EXCEPT ![j] = "submitted"]
    /\ \E status \in Unfinished : LET e == [status |-> status, path |-> FALSE] IN
          job' = [job EXCEPT ![j] = e] /\ Save(j, e, "runner")
    /\ runner' = [runner EXCEPT ![j] = "adding"]
    /\ UNCHANGED <<up, record, file, ctx, backend, kind, crashes>>

\* add returns: the job's goroutine starts, and the client has its answer.
Accept(j) ==
    /\ Serving
    /\ runner[j] = "adding" /\ ~Saving(j, "runner")
    /\ runner' = [runner EXCEPT ![j] = "waiting"]
    /\ fate' = [fate EXCEPT ![j] = IF up = "up" /\ @ = "submitted" THEN "accepted" ELSE @]
    /\ UNCHANGED <<up, job, record, write, file, ctx, backend, kind, crashes>>

CancelUnsaved(j) ==
    /\ Serving
    /\ job[j].status \in Unfinished /\ ctx[j] = "live"
    /\ ctx' = [ctx EXCEPT ![j] = "ending"]
    /\ job' = [job EXCEPT ![j] = IF kind = "video" THEN job[j] ELSE With(j, "cancelled")]
    /\ UNCHANGED <<up, record, write, file, runner, backend, fate, kind, crashes>>

\* cancelJob and cancelVideoJob: a video only asks, the others are cancelled
\* at once.
Cancel(j) ==
    /\ Serving
    /\ job[j].status \in Unfinished /\ ctx[j] = "live"
    /\ ctx' = [ctx EXCEPT ![j] = "ending"]
    /\ Update(j, IF kind = "video" THEN job[j] ELSE With(j, "cancelled"), "client")
    /\ UNCHANGED <<up, record, file, runner, backend, fate, kind, crashes>>

\* ... and then the context is cancelled.
CancelContext(j) ==
    /\ Serving
    /\ ctx[j] = "ending" /\ ~Saving(j, "client")
    /\ ctx' = [ctx EXCEPT ![j] = "ended"]
    /\ UNCHANGED <<up, job, record, write, file, runner, backend, fate, kind, crashes>>

\* remove and prune: a finished job goes, with its output and its record.
Remove(j) ==
    /\ Serving
    /\ job[j].status \in Finished
    /\ job' = [job EXCEPT ![j] = Nothing]
    /\ record' = [record EXCEPT ![j] = Nothing]
    /\ file' = IF job[j].path THEN file \ {j} ELSE file
    /\ fate' = [fate EXCEPT ![j] = "deleted"]
    /\ UNCHANGED <<up, write, runner, ctx, backend, kind, crashes>>

\* prune: an old output file that no job owns goes.
PruneOrphan(j) ==
    /\ Serving
    /\ j \in file /\ job[j] = Nothing /\ runner[j] = "none"
    /\ file' = file \ {j}
    /\ UNCHANGED <<up, job, record, write, runner, ctx, backend, fate, kind, crashes>>

-----------------------------------------------------------------------------
(* The goroutine of a job.                                                 *)

RunnerMove(j, from, to) ==
    /\ Serving
    /\ runner[j] = from /\ ~Saving(j, "runner")
    /\ runner' = [runner EXCEPT ![j] = to]
    /\ UNCHANGED <<up, record, fate, kind, crashes>>

Stored == <<job, write>>

\* Wait: the turn is given, or the context has ended.
TurnGiven(j) ==
    /\ \A k \in Jobs : runner[k] \notin Holding
    /\ RunnerMove(j, "waiting", "turn")
    /\ UNCHANGED <<Stored, file, ctx, backend>>

Leave(j) ==
    /\ ctx[j] = "ended"
    /\ RunnerMove(j, "waiting", "leaving")
    /\ UNCHANGED <<Stored, file, ctx, backend>>

\* The backend runs already, or is to be started (startJob).
BackendRuns(j) ==
    /\ RunnerMove(j, "turn", "ready")
    /\ UNCHANGED <<Stored, file, ctx, backend>>

BackendStarts(j) ==
    /\ RunnerMove(j, "turn", "starting")
    /\ Update(j, Started(j), "runner")
    /\ UNCHANGED <<file, ctx, backend>>

\* genReady: the backend is ready, or does not start or the context has ended; a
\* backend that ran a moment ago may be gone.
BackendReady(j) ==
    /\ RunnerMove(j, "starting", "ready")
    /\ UNCHANGED <<Stored, file, ctx, backend>>

BackendNotReady(j) ==
    /\ \E from \in {"turn", "starting"} :
        RunnerMove(j, from, IF kind = "video" /\ ctx[j] = "ended" THEN "cancelled" ELSE "failed")
    /\ UNCHANGED <<Stored, file, ctx, backend>>

\* The job is marked generating, unless it was cancelled; one that is gone
\* from the store is not.
Send(j) ==
    /\ \/ /\ kind # "video" /\ job[j].status = "cancelled"
          /\ RunnerMove(j, "ready", IF kind = "image" THEN "cancelled" ELSE "release")
       \/ /\ kind = "video" \/ job[j].status # "cancelled"
          /\ \/ RunnerMove(j, "ready", "posting")
             \/ kind = "music" /\ RunnerMove(j, "ready", "postingSynth")
    /\ Update(j, Started(j), "runner")
    /\ UNCHANGED <<file, ctx, backend>>

\* The backend has the request.
Post(j) ==
    /\ \E at \in DOMAIN Posted : RunnerMove(j, at, Posted[at])
    /\ backend' = backend \cup {j}
    /\ UNCHANGED <<Stored, file, ctx>>

\* The context ends during the request, which the backend may have or not.
PostCut(j) ==
    /\ kind # "image" /\ ctx[j] = "ended"
    /\ \E at \in DOMAIN Posted : RunnerMove(j, at, "cancelled")
    /\ backend' \in {backend, backend \cup {j}}
    /\ UNCHANGED <<Stored, file, ctx>>

\* The backend is done with a request, or dies.
BackendDone(j) ==
    /\ j \in backend
    /\ backend' = backend \ {j}
    /\ UNCHANGED <<up, job, record, write, file, runner, ctx, fate, kind, crashes>>

\* The answer, or an error.  After the first answer to a song its second request
\* follows, and a song on source audio has only that one.
Answered(j) ==
    /\ j \notin backend
    /\ \/ RunnerMove(j, "generating", "failed") \/ RunnerMove(j, "synthesizing", "failed")
       \/ RunnerMove(j, "synthesizing", "answered")
       \/ RunnerMove(j, "generating", IF kind = "music" THEN "postingSynth" ELSE "answered")
    /\ UNCHANGED <<Stored, file, ctx, backend>>

\* The context ends while the backend works: ace-server is asked to stop, and
\* sd-server is waited for (it is taken to stop within vidCancelWait); an
\* image request has no context.
Abandon(j) ==
    /\ kind = "music" \/ (kind = "video" /\ j \notin backend)
    /\ ctx[j] = "ended"
    /\ \E at \in DOMAIN Posted : RunnerMove(j, Posted[at], "cancelled")
    /\ UNCHANGED <<Stored, file, ctx, backend>>

\* A late answer to a cancelled image job is dropped here.
Keep(j) ==
    /\ RunnerMove(j, "answered", IF kind = "image" /\ job[j].status = "cancelled"
                                 THEN "cancelled" ELSE "saving")
    /\ UNCHANGED <<Stored, file, ctx, backend>>

\* The output file is written, or cannot be.
WriteOutput(j) ==
    /\ \/ RunnerMove(j, "saving", "saved") /\ file' = file \cup {j}
       \/ RunnerMove(j, "saving", "failed") /\ UNCHANGED file
    /\ UNCHANGED <<Stored, ctx, backend>>

AttachUnchecked(j) ==
    /\ kind = "music"
    /\ RunnerMove(j, "saved", "attached")
    /\ Update(j, [job[j] EXCEPT !.path = TRUE], "runner")
    /\ UNCHANGED <<file, ctx, backend>>

\* Music sets the path before it finishes, and drops the file of a job that
\* was deleted meanwhile.
Attach(j) ==
    /\ kind = "music"
    /\ RunnerMove(j, "saved", IF job[j] = Nothing THEN "discard" ELSE "attached")
    /\ Update(j, [job[j] EXCEPT !.path = TRUE], "runner")
    /\ UNCHANGED <<file, ctx, backend>>

Outcome(at) == CASE at \in {"saved", "attached"} -> "succeeded"
                 [] at \in {"cancelled", "leaving"} -> "cancelled"
                 [] OTHER -> "failed"

FinishOverCancelled(j, at) ==
    /\ at \in {"saved", "attached", "cancelled", "leaving", "failed"}
    /\ at = "saved" => kind # "music"
    /\ RunnerMove(j, at, IF at = "leaving" THEN "none" ELSE "release")
    /\ Update(j, [status |-> Outcome(at), path |-> at \in {"saved", "attached"}], "runner")
    /\ UNCHANGED <<file, ctx, backend>>

\* finish.  A cancelled image or song stays cancelled, and an image that was
\* cancelled or deleted loses its files; a video that was to be cancelled is,
\* unless it succeeded.
Finish(j, at) ==
    /\ at \in {"saved", "attached", "cancelled", "leaving", "failed"}
    /\ at = "saved" => kind # "music"
    /\ RunnerMove(j, at, IF at = "leaving" THEN "none"
                         ELSE IF at = "saved" /\ job[j].status \in {"none", "cancelled"}
                         THEN "discard" ELSE "release")
    /\ LET outcome == IF kind = "video" /\ ctx[j] # "live" /\ Outcome(at) # "succeeded"
                      THEN "cancelled" ELSE Outcome(at)
       IN IF job[j].status = "cancelled" THEN UNCHANGED Stored
          ELSE Update(j, [status |-> outcome, path |-> at \in {"saved", "attached"}], "runner")
    /\ UNCHANGED <<file, ctx, backend>>

Discard(j) ==
    /\ RunnerMove(j, "discard", "release")
    /\ file' = file \ {j}
    /\ UNCHANGED <<Stored, ctx, backend>>

\* The deferred ticket.Done.
Release(j) ==
    /\ RunnerMove(j, "release", "none")
    /\ UNCHANGED <<Stored, file, ctx, backend>>

-----------------------------------------------------------------------------
(* The server stops and starts.                                            *)

\* jobStore.close, at the start of a shutdown.
Close ==
    /\ up = "up" /\ crashes < MaxCrashes
    /\ up' = "closing"
    /\ UNCHANGED <<job, record, write, file, runner, ctx, backend, fate, kind, crashes>>

Down ==
    /\ up # "down" /\ crashes < MaxCrashes
    /\ up' = "down"
    /\ crashes' = crashes + 1
    /\ job' = [j \in Jobs |-> Nothing]
    /\ write' = {}
    /\ runner' = [j \in Jobs |-> "none"]
    /\ ctx' = [j \in Jobs |-> "live"]
    /\ backend' = {}
    /\ UNCHANGED kind

Crash == Down /\ UNCHANGED <<record, file, fate>>

\* The server dies while it removes a job, after the output file.
CrashInRemove(j) ==
    /\ Serving
    /\ job[j].status \in Finished /\ job[j].path
    /\ Down
    /\ file' = file \ {j}
    /\ fate' = [fate EXCEPT ![j] = "unanswered"]
    /\ UNCHANGED record

RestoreAsSaved(e) == e

\* genJob.restore: a job that had not finished has failed.
Restore(e) == IF e.status \in Unfinished THEN [e EXCEPT !.status = "failed"] ELSE e

\* open: the records are read.
Open ==
    /\ up = "down"
    /\ up' = "opening"
    /\ job' = [j \in Jobs |-> Restore(record[j])]
    /\ UNCHANGED <<record, write, file, runner, ctx, backend, fate, kind, crashes>>

\* open: the jobs that had not finished are saved again, one by one.
OpenSave(j) ==
    /\ up = "opening"
    /\ record[j] # job[j]
    /\ record' = [record EXCEPT ![j] = job[j]]
    /\ UNCHANGED <<up, job, write, file, runner, ctx, backend, fate, kind, crashes>>

Opened ==
    /\ up = "opening" /\ record = job
    /\ up' = "up"
    /\ UNCHANGED <<job, record, write, file, runner, ctx, backend, fate, kind, crashes>>

-----------------------------------------------------------------------------
RunnerStep(j) ==
    \/ TurnGiven(j) \/ Leave(j) \/ BackendRuns(j) \/ BackendStarts(j)
    \/ BackendReady(j) \/ BackendNotReady(j) \/ Send(j) \/ Post(j) \/ PostCut(j)
    \/ Answered(j) \/ Abandon(j) \/ Keep(j) \/ WriteOutput(j) \/ Attach(j)
    \/ (\E at \in {"leaving"} \cup Holding : Finish(j, at)) \/ Discard(j) \/ Release(j)

ClientStep(j) == Submit(j) \/ Accept(j) \/ Cancel(j) \/ CancelContext(j)
                 \/ Remove(j) \/ PruneOrphan(j) \/ CrashInRemove(j)

Next ==
    \/ \E j \in Jobs : RunnerStep(j) \/ ClientStep(j) \/ BackendDone(j) \/ OpenSave(j)
    \/ Land \/ Close \/ Crash \/ Open \/ Opened

Spec == Init /\ [][Next]_vars

(***************************************************************************)
(* Fairness.  Goroutines run, writes land, the backend answers or dies, a  *)
(* waiting job gets its turn (GenQueue!JobServed), and a server that is    *)
(* shutting down stops and is started again.                               *)
(***************************************************************************)
Fairness ==
    /\ WF_vars(Land) /\ WF_vars(Open) /\ WF_vars(Opened)
    /\ WF_vars(up = "closing" /\ Crash)
    /\ \A j \in Jobs :
          /\ WF_vars(RunnerStep(j)) /\ SF_vars(TurnGiven(j))
          /\ WF_vars(Accept(j)) /\ WF_vars(CancelContext(j))
          /\ WF_vars(BackendDone(j)) /\ WF_vars(OpenSave(j))

FairSpec == Spec /\ Fairness

-----------------------------------------------------------------------------
(* Safety.                                                                 *)

\* While the server is up and nothing is being written, the records say what
\* memory says: a crash at that moment loses nothing.
RecordsCurrent == up = "up" /\ write = {} =>
    \A j \in Jobs : job[j] # Nothing =>
        /\ record[j].status = job[j].status
        /\ job[j].status = "succeeded" => record[j].path

\* A job a client was told of is never lost, whatever crashes come, until it
\* is deleted.
AcceptedKept == Serving => \A j \in Jobs : fate[j] = "accepted" => job[j] # Nothing

\* A job that shows succeeded has its output.
SucceededHasOutput == \A j \in Jobs :
    job[j].status = "succeeded" /\ fate[j] \notin {"deleted", "unanswered"} => j \in file

\* What a client was told of survives, the job and its output.
KeptForClients == AcceptedKept /\ SucceededHasOutput

\* An output file belongs to a job that will be deleted with it, or to a
\* goroutine at work; only a crash leaves one to be pruned later.
NoLeak == crashes = 0 => \A j \in file :
    job[j].path \/ runner[j] \in {"saved", "discard"}

\* The GPU stays booked while sd-server works on an image, even one that was
\* cancelled or deleted meanwhile.
BookedWhileBusy == kind = "image" => \A j \in backend : runner[j] \in Holding

\* Nothing goes on behind the store's back: no file without an owner, and no
\* work of the backend on a GPU that has been given back.
NothingStray == NoLeak /\ BookedWhileBusy

\* A finished job keeps its status: a late result never revives a cancelled
\* job, and a cancel never undoes a result.
FinishedFinal == [][\A j \in Jobs :
    job[j].status \in Finished => job'[j].status \in {job[j].status, "none"}]_vars

(* Liveness.                                                               *)

\* Every accepted job ends, through crashes and restarts too.
JobsEnd == \A j \in Jobs :
    fate[j] = "accepted" ~> Serving /\ (fate[j] = "deleted" \/ job[j].status \in Finished)

(* What the comments and tests say.                                        *)

\* A cancelled video job "shows cancelled only once sd-server has stopped, so
\* the GPU is free by then".
CancelledMeansFree == \A j \in Jobs : job[j].status = "cancelled" => j \notin backend
=============================================================================
