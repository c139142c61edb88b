------------------------------ MODULE GenQueue ------------------------------
(***************************************************************************)
(* The per-GPU job queue of internal/generation/queue.go.                  *)
(*                                                                         *)
(* An image, music or video job submits a ticket on one GPU, waits for its *)
(* turn (or goes away while waiting), works and calls Done.  An LLM        *)
(* measurement takes a set of GPUs at once with Hold.  A benchmark job     *)
(* keeps GPUs between its holds with Keep.                                 *)
(*                                                                         *)
(* One action is one critical section of Queue.mu.  The goroutine that     *)
(* owns a ticket or a hold is a program counter (jobAt, holdAt): between   *)
(* two of its critical sections every other goroutine may run.  The        *)
(* history of finished jobs, which only the web page reads, is left out.   *)
(*                                                                         *)
(* A definition that stands right before another and is used nowhere is a  *)
(* faulty variant of it: with it in place, a property must fail.           *)
(***************************************************************************)
EXTENDS Integers, Sequences, FiniteSets, SequencesExt

CONSTANTS
    GPUs,               \* the GPUs
    Jobs,               \* goroutines that submit generation jobs, one at a time
    Holders,            \* goroutines that call Hold, one hold at a time
    Owners,             \* owners of a benchmark run that keeps GPUs
    MaxWaitingPerGPU,
    None                \* a nil ticket, hold or owner

ASSUME ConstantsAssumption ==
    /\ MaxWaitingPerGPU \in Nat
    /\ IsFiniteSet(Holders)
    /\ Jobs \cap Holders = {}
    /\ None \notin GPUs \cup Jobs \cup Holders \cup Owners

VARIABLES
    gpus,       \* Queue.gpus: one gpuQueue per GPU
    jobAt,      \* where the goroutine of a job is
    jobGPU,     \* the GPU of its ticket, None without a ticket
    holdAt,     \* where the goroutine of a hold is
    holdGPUs,   \* the GPUs it claims
    woken       \* the channel it captured from Queue.changed has been closed

vars == <<gpus, jobAt, jobGPU, holdAt, holdGPUs, woken>>

GPUQueue == [running : Jobs \cup {None}, waiting : Seq(Jobs),
             held : Holders \cup {None}, claims : Nat, keptBy : Owners \cup {None}]

TypeOK ==
    /\ gpus \in [GPUs -> GPUQueue]
    /\ jobAt \in [Jobs -> {"idle", "waiting", "giveBack", "working"}]
    /\ jobGPU \in [Jobs -> GPUs \cup {None}]
    /\ holdAt \in [Holders -> {"idle", "waiting", "holding"}]
    /\ holdGPUs \in [Holders -> SUBSET GPUs]
    /\ woken \in [Holders -> BOOLEAN]

EmptyQueue == [running |-> None, waiting |-> <<>>,
               held |-> None, claims |-> 0, keptBy |-> None]

Init ==
    /\ gpus = [g \in GPUs |-> EmptyQueue]
    /\ jobAt = [j \in Jobs |-> "idle"]
    /\ jobGPU = [j \in Jobs |-> None]
    /\ holdAt = [h \in Holders |-> "idle"]
    /\ holdGPUs = [h \in Holders |-> {}]
    /\ woken = [h \in Holders |-> FALSE]

-----------------------------------------------------------------------------
(* The helpers that run with Queue.mu held, as functions of one gpuQueue.  *)

UnusedIgnoresHold(q) == q.running = None

Unused(q) == q.running = None /\ q.held = None

OpenIgnoresClaims(q) == Unused(q)

Open(q) == Unused(q) /\ q.claims = 0

Start(q, j) == [q EXCEPT !.running = j]

Enqueue(q, j) == [q EXCEPT !.waiting = Append(q.waiting, j)]

Dequeue(q, i) == [q EXCEPT !.waiting = RemoveAt(q.waiting, i)]

StartLast(q) ==
    IF Open(q) /\ q.waiting # <<>>
    THEN [q EXCEPT !.running = Last(q.waiting), !.waiting = Front(q.waiting)]
    ELSE q

StartNext(q) ==
    IF Open(q) /\ q.waiting # <<>>
    THEN [q EXCEPT !.running = Head(q.waiting), !.waiting = Tail(q.waiting)]
    ELSE q

Finish(q) == StartNext([q EXCEPT !.running = None])

Take(q, h) == [q EXCEPT !.held = h]

Claim(q) == [q EXCEPT !.claims = q.claims + 1]

UnclaimOnly(q) == [q EXCEPT !.claims = q.claims - 1]

Unclaim(q) == StartNext([q EXCEPT !.claims = q.claims - 1])

\* The queues after f(q) is done to each GPU of a set.
OnGPUs(S, f(_)) == [g \in GPUs |-> IF g \in S THEN f(gpus[g]) ELSE gpus[g]]

\* notifyLocked: every Hold caller in its select is woken.
Notify == woken' = [h \in Holders |-> holdAt[h] = "waiting"]

-----------------------------------------------------------------------------
(* Generation jobs.                                                        *)

Submit(j, g) ==
    /\ jobAt[j] = "idle"
    /\ Open(gpus[g]) \/ Len(gpus[g].waiting) < MaxWaitingPerGPU
    /\ jobGPU' = [jobGPU EXCEPT ![j] = g]
    /\ jobAt' = [jobAt EXCEPT ![j] = "waiting"]
    /\ gpus' = [gpus EXCEPT ![g] =
                 IF Open(gpus[g]) THEN Start(gpus[g], j) ELSE Enqueue(gpus[g], j)]
    /\ UNCHANGED <<holdAt, holdGPUs, woken>>

\* Wait returns nil: the ticket's ready channel is closed.
Ready(j) ==
    /\ jobAt[j] = "waiting"
    /\ gpus[jobGPU[j]].running = j
    /\ jobAt' = [jobAt EXCEPT ![j] = "working"]
    /\ UNCHANGED <<gpus, jobGPU, holdAt, holdGPUs, woken>>

\* Wait with ctx ended, the ticket still waiting: it leaves the queue.
LeaveQueue(j) ==
    /\ jobAt[j] = "waiting"
    /\ \E i \in 1..Len(gpus[jobGPU[j]].waiting) :
          /\ gpus[jobGPU[j]].waiting[i] = j
          /\ gpus' = [gpus EXCEPT ![jobGPU[j]] = Dequeue(gpus[jobGPU[j]], i)]
    /\ jobAt' = [jobAt EXCEPT ![j] = "idle"]
    /\ jobGPU' = [jobGPU EXCEPT ![j] = None]
    /\ UNCHANGED <<holdAt, holdGPUs, woken>>

\* Wait with ctx ended, but the job was started in between: Wait unlocks and
\* will call Done.
LeaveStarted(j) ==
    /\ jobAt[j] = "waiting"
    /\ j \notin ToSet(gpus[jobGPU[j]].waiting)
    /\ jobAt' = [jobAt EXCEPT ![j] = "giveBack"]
    /\ UNCHANGED <<gpus, jobGPU, holdAt, holdGPUs, woken>>

DoneWithoutNotify(j) ==
    /\ jobAt[j] \in {"working", "giveBack"}
    /\ jobAt' = [jobAt EXCEPT ![j] = "idle"]
    /\ jobGPU' = [jobGPU EXCEPT ![j] = None]
    /\ gpus[jobGPU[j]].running = j
    /\ gpus' = [gpus EXCEPT ![jobGPU[j]] = Finish(gpus[jobGPU[j]])]
    /\ UNCHANGED <<holdAt, holdGPUs, woken>>

Done(j) ==
    /\ jobAt[j] \in {"working", "giveBack"}
    /\ jobAt' = [jobAt EXCEPT ![j] = "idle"]
    /\ jobGPU' = [jobGPU EXCEPT ![j] = None]
    /\ IF gpus[jobGPU[j]].running = j
       THEN /\ gpus' = [gpus EXCEPT ![jobGPU[j]] =
                         Finish(gpus[jobGPU[j]])]
            /\ Notify
       ELSE UNCHANGED <<gpus, woken>>
    /\ UNCHANGED <<holdAt, holdGPUs>>

-----------------------------------------------------------------------------
(* LLM measurements.                                                       *)

SomeUnused(S) == \E g \in S : Unused(gpus[g])

AllUnused(S) == \A g \in S : Unused(gpus[g])

\* Hold, its first pass through the loop: the GPUs are claimed, and taken
\* when nothing runs on any of them.
Hold(h, S) ==
    /\ holdAt[h] = "idle"
    /\ holdGPUs' = [holdGPUs EXCEPT ![h] = S]
    /\ IF AllUnused(S)
       THEN /\ holdAt' = [holdAt EXCEPT ![h] = "holding"]
            /\ gpus' = OnGPUs(S, LAMBDA q : Take(Claim(q), h))
       ELSE /\ holdAt' = [holdAt EXCEPT ![h] = "waiting"]
            /\ gpus' = OnGPUs(S, Claim)
    /\ UNCHANGED <<jobAt, jobGPU, woken>>

\* Hold, a later pass: the channel it captured was closed.
HoldAgain(h) ==
    /\ holdAt[h] = "waiting"
    /\ woken[h]
    /\ woken' = [woken EXCEPT ![h] = FALSE]
    /\ IF AllUnused(holdGPUs[h])
       THEN /\ holdAt' = [holdAt EXCEPT ![h] = "holding"]
            /\ gpus' = OnGPUs(holdGPUs[h], LAMBDA q : Take(q, h))
       ELSE UNCHANGED <<holdAt, gpus>>
    /\ UNCHANGED <<jobAt, jobGPU, holdGPUs>>

HoldCancelKeepsClaim(h) ==
    /\ holdAt[h] = "waiting"
    /\ holdAt' = [holdAt EXCEPT ![h] = "idle"]
    /\ holdGPUs' = [holdGPUs EXCEPT ![h] = {}]
    /\ woken' = [woken EXCEPT ![h] = FALSE]
    /\ UNCHANGED <<gpus, jobAt, jobGPU>>

\* Hold with ctx ended while waiting.
HoldCancel(h) ==
    /\ holdAt[h] = "waiting"
    /\ holdAt' = [holdAt EXCEPT ![h] = "idle"]
    /\ holdGPUs' = [holdGPUs EXCEPT ![h] = {}]
    /\ gpus' = OnGPUs(holdGPUs[h], Unclaim)
    /\ woken' = [woken EXCEPT ![h] = FALSE]
    /\ UNCHANGED <<jobAt, jobGPU>>

\* The release function a Hold returned.
ReleaseHold(h) ==
    /\ holdAt[h] = "holding"
    /\ holdAt' = [holdAt EXCEPT ![h] = "idle"]
    /\ gpus' = OnGPUs(holdGPUs[h], LAMBDA q : Unclaim(Take(q, None)))
    /\ holdGPUs' = [holdGPUs EXCEPT ![h] = {}]
    /\ Notify
    /\ UNCHANGED <<jobAt, jobGPU>>

KeepUncounted(g, o) ==
    /\ gpus[g].keptBy = None
    /\ gpus' = [gpus EXCEPT ![g] = [gpus[g] EXCEPT !.keptBy = o]]
    /\ UNCHANGED <<jobAt, jobGPU, holdAt, holdGPUs, woken>>

\* Keep, as its one caller (jobEnv.keepGPUs) uses it: one GPU at a time, and
\* a GPU already kept is not kept twice.
Keep(g, o) ==
    /\ gpus[g].keptBy = None
    /\ gpus' = [gpus EXCEPT ![g] = [Claim(gpus[g]) EXCEPT !.keptBy = o]]
    /\ UNCHANGED <<jobAt, jobGPU, holdAt, holdGPUs, woken>>

\* The release function a Keep returned.
ReleaseKeep(g) ==
    /\ gpus[g].keptBy # None
    /\ gpus' = [gpus EXCEPT ![g] = Unclaim([gpus[g] EXCEPT !.keptBy = None])]
    /\ Notify
    /\ UNCHANGED <<jobAt, jobGPU, holdAt, holdGPUs>>

-----------------------------------------------------------------------------
(* The read-only calls, used by the properties.                            *)

Claimed(g) == gpus[g].claims > 0

\* Ticket.Position, on the ticket's queue: 0 when it is not waiting there.
Position(q, j) ==
    IF j \in ToSet(q.waiting)
    THEN CHOOSE i \in 1..Len(q.waiting) : q.waiting[i] = j
    ELSE 0

-----------------------------------------------------------------------------
JobStep(j) == (\E g \in GPUs : Submit(j, g)) \/ Ready(j) \/ LeaveQueue(j)
              \/ LeaveStarted(j) \/ Done(j)

HoldStep(h) == (\E S \in (SUBSET GPUs) \ {{}} : Hold(h, S)) \/ HoldAgain(h)
               \/ HoldCancel(h) \/ ReleaseHold(h)

KeepStep(g) == (\E o \in Owners : Keep(g, o)) \/ ReleaseKeep(g)

Next == (\E j \in Jobs : JobStep(j)) \/ (\E h \in Holders : HoldStep(h))
        \/ (\E g \in GPUs : KeepStep(g))

Spec == Init /\ [][Next]_vars

(***************************************************************************)
(* Fairness.  A goroutine whose channel is closed is scheduled, a job that *)
(* has its turn finishes, a measurement releases its GPUs (every caller    *)
(* defers the release), and a benchmark job ends.  Nobody has to submit a  *)
(* job, to hold or to keep, and nobody has to give up waiting.             *)
(***************************************************************************)
Fairness ==
    /\ \A j \in Jobs : WF_vars(Ready(j)) /\ WF_vars(Done(j))
    /\ \A h \in Holders : WF_vars(HoldAgain(h)) /\ WF_vars(ReleaseHold(h))
    /\ \A g \in GPUs : WF_vars(ReleaseKeep(g))

FairSpec == Spec /\ Fairness

-----------------------------------------------------------------------------
(* Safety.                                                                 *)

\* The goroutines that believe they may use GPU g: jobs whose Wait returned
\* nil, and measurements whose Hold returned.
UsersOf(g) ==
    {j \in Jobs : jobAt[j] = "working" /\ jobGPU[j] = g}
    \cup {h \in Holders : holdAt[h] = "holding" /\ g \in holdGPUs[h]}

\* "Queue lets one image or music job run on each GPU at a time": no two
\* goroutines ever use a GPU together, jobs or measurements.
OneUser == \A g \in GPUs : \A x, y \in UsersOf(g) : x = y

\* The queue's own record agrees with the goroutines: a GPU that is running
\* or held belongs to a live ticket or hold, and a goroutine that may use a
\* GPU is the one recorded there.  Otherwise a GPU is closed for good (Done
\* and release are no-ops for anyone else) or given to two.
RunningRecorded ==
    /\ \A g \in GPUs, j \in Jobs : gpus[g].running = j => jobAt[j] # "idle" /\ jobGPU[j] = g
    /\ \A j \in Jobs : jobAt[j] \in {"working", "giveBack"} => gpus[jobGPU[j]].running = j

HeldRecorded == \A g \in GPUs, h \in Holders :
    gpus[g].held = h <=> holdAt[h] = "holding" /\ g \in holdGPUs[h]

Recorded == RunningRecorded /\ HeldRecorded

\* A ticket in a queue has a goroutine that waits for it, stands in the queue
\* once, and does not run at the same time: no job is started that nobody
\* will ever finish.
TicketsOwned == \A g \in GPUs :
    /\ IsInjective(gpus[g].waiting)
    /\ \A j \in Jobs : j \in ToSet(gpus[g].waiting) =>
          jobAt[j] = "waiting" /\ jobGPU[j] = g /\ gpus[g].running # j

\* claims counts the Holds that wait for a GPU or have it, and the Keep: one
\* too many closes the GPU for good, one too few lets a job start under a
\* measurement.
ClaimsCounted == \A g \in GPUs :
    gpus[g].claims = Cardinality({h \in Holders : g \in holdGPUs[h]})
                     + (IF gpus[g].keptBy = None THEN 0 ELSE 1)

\* No GPU stands idle while a job waits for it and nobody claims it: every
\* way of giving up a GPU or a claim starts the next job.
WorkConserving == \A g \in GPUs : Open(gpus[g]) => gpus[g].waiting = <<>>

\* A Hold sleeps on its channel only while one of its GPUs is in use: no
\* wake-up is lost between its look at the GPUs and its select.
NoLostWakeup == \A h \in Holders :
    holdAt[h] = "waiting" /\ ~woken[h] => ~AllUnused(holdGPUs[h])

\* The queue's bookkeeping as a whole.
Bookkeeping == Recorded /\ TicketsOwned /\ ClaimsCounted

\* Nobody waits for a GPU that is free for them, neither a job nor a measurement.
NobodyForgotten == WorkConserving /\ NoLostWakeup

(* Action properties.                                                      *)

\* "While claims > 0 no new job starts, so a hold is not kept waiting by jobs
\* arriving after it."
ClaimKeepsJobsOut == [][\A g \in GPUs :
    gpus'[g].running \notin {gpus[g].running, None} => gpus'[g].claims = 0]_vars

\* Jobs already waiting keep their places: a waiting job's position never
\* grows, and a job that starts was first in the queue, or found it empty.
FirstComeFirstServed == [][\A g \in GPUs :
    /\ \A j \in ToSet(gpus[g].waiting) : Position(gpus'[g], j) <= Position(gpus[g], j)
    /\ gpus'[g].running \notin {gpus[g].running, None} =>
          \/ gpus[g].waiting = <<>>
          \/ Position(gpus[g], gpus'[g].running) = 1]_vars

(* Liveness.                                                               *)

\* A Hold is granted (or given up), whatever jobs arrive meanwhile, once the
\* other measurements stop coming.
HoldGranted == \A h \in Holders :
    <>[](\A k \in Holders \ {h} : holdAt[k] # "holding")
        => (holdAt[h] = "waiting" ~> holdAt[h] # "waiting")

\* A waiting job gets its turn (or leaves), however often its GPU is held or
\* kept, as long as the claims end now and then.
JobServed == \A j \in Jobs, g \in GPUs :
    []<>~Claimed(g)
        => (jobAt[j] = "waiting" /\ jobGPU[j] = g ~> jobAt[j] # "waiting")

\* Everybody who waits is served.
Served == HoldGranted /\ JobServed

-----------------------------------------------------------------------------
(* The abstract specification it implements.                               *)

Wants == [u \in Jobs \cup Holders |->
    IF u \in Jobs
    THEN {g \in GPUs : u \in ToSet(gpus[g].waiting)}
    ELSE IF holdAt[u] = "waiting" THEN holdGPUs[u] ELSE {}]

Has == [u \in Jobs \cup Holders |->
    {g \in GPUs : u \in {gpus[g].running, gpus[g].held}}]

Turns == INSTANCE GPUTurns
            WITH Users <- Jobs \cup Holders, Prior <- Holders, wants <- Wants, has <- Has

\* Every step of the queue is one user asking, withdrawing or giving back,
\* followed by grants of whole requests that respect the measurements'
\* priority.
ImplementsTurns == Turns!Spec

=============================================================================
