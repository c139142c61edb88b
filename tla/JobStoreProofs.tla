--------------------------- MODULE JobStoreProofs ---------------------------
(***************************************************************************)
(* Proofs about JobStore: records agree with memory, what a client was     *)
(* told of is kept through crashes, no output or work is left behind, and  *)
(* a finished job keeps its status, for any number of jobs and of crashes. *)
(***************************************************************************)
EXTENDS JobStore, TLAPS

\* The record write of job j that is in flight, if there is one.
Pending(j) == {w \in write : w.job = j}

\* A job without a status is no job, and one that has succeeded has its path.
Sound(e) == (e.status = "none" => e = Nothing) /\ (e.status = "succeeded" => e.path)

Entries(j) == {job[j], record[j]} \cup {w.entry : w \in Pending(j)}

WholeEntries(j) ==
    /\ \A e \in Entries(j) : Sound(e)
    /\ \A w \in Pending(j) : w.entry.status # "none"

\* Nobody has heard of a job that was not submitted.
Unheard(j) == fate[j] = "new" =>
    /\ job[j] = Nothing /\ record[j] = Nothing /\ Pending(j) = {}
    /\ runner[j] = "none" /\ j \notin file

\* What memory says is on its way to the record, or there.
Followed(j) == up = "up" /\ job[j] # Nothing =>
    /\ \A w \in Pending(j) : w.entry.status = job[j].status
    /\ Pending(j) = {} => record[j].status = job[j].status

\* A cancel is written after the record has begun to exist.
RecordFirst(j) == \A w \in Pending(j) :
    w.by = "client" => record[j] # Nothing \/ job[j] = Nothing

\* An accepted job has a record at all times, and is in memory once the
\* server has read it; a job that a goroutine works on was removed, if it is
\* not in memory.
Told(j) ==
    /\ fate[j] = "accepted" => record[j] # Nothing /\ (up # "down" => job[j] # Nothing)
    /\ runner[j] # "none" /\ job[j] = Nothing => fate[j] = "deleted"

\* What the server reads at its start.
AsRecorded(j) == up = "opening" => job[j] = Restore(record[j])

\* No goroutine of the old server survives it, and no job in memory.
AtRest(j) ==
    /\ ~Serving => runner[j] = "none" /\ Pending(j) = {}
    /\ up = "down" => job[j] = Nothing

\* A goroutine that has not finished its job finds it unfinished or
\* cancelled, and discards only the output of a job that is not to have one.
NotFinished(j) ==
    /\ runner[j] \notin {"none", "release", "discard"} =>
          job[j].status \notin {"succeeded", "failed"}
    /\ runner[j] = "discard" => job[j].status \in {"none", "cancelled"}

\* A job that shows succeeded anywhere, or that is about to, has its output,
\* until it is deleted.
HasOutput(j) == fate[j] \notin {"deleted", "unanswered"} =>
    /\ (\E e \in Entries(j) : e.status = "succeeded") =>
          j \in file /\ (up # "down" => job[j].status = "succeeded")
    /\ runner[j] \in {"saved", "attached"} => j \in file

\* Before a crash, an output comes from a goroutine that saved it, and is
\* owned by the job from then on.
OwnsOutput(j) == crashes = 0 /\ j \in file =>
    /\ runner[j] \in {"saved", "attached", "discard", "release", "none"}
    /\ job[j].path \/ runner[j] \in {"saved", "discard"}

\* Only a crash takes the server down.
Restarted == ~Serving => crashes > 0

\* sd-server works on an image while its goroutine waits for the answer.
AwaitsAnswer(j) ==
    kind = "image" /\ j \in backend => runner[j] \in {"generating", "synthesizing"}

JobInv(j) ==
    /\ WholeEntries(j) /\ Unheard(j) /\ Followed(j) /\ RecordFirst(j) /\ Told(j)
    /\ AsRecorded(j) /\ AtRest(j) /\ NotFinished(j) /\ HasOutput(j) /\ OwnsOutput(j)
    /\ AwaitsAnswer(j)

IInv == TypeOK /\ Restarted /\ \A j \in Jobs : JobInv(j)

-----------------------------------------------------------------------------
(* What a step does to the store.                                          *)

RunnerPlaces == {"none", "adding", "waiting", "leaving"} \cup Holding

WriteOK == write = {} \/ \E w \in Write : write = {w}

\* Nothing happens in the store to the other jobs.
OthersStored(j) == \A k \in Jobs \ {j} : job'[k] = job[k] /\ Pending(k)' = Pending(k)

\* A job that is there becomes e, and is saved if its status changes while the
\* records are written.
Becomes(j, e) ==
    /\ job[j] # Nothing /\ job'[j] = e
    /\ e \in Entry /\ e.status # "none" /\ Sound(e)
    /\ job[j].status \in Finished => e.status = job[j].status
    /\ \/ /\ Pending(j)' = Pending(j)
          /\ up = "up" => e.status = job[j].status
       \/ /\ up = "up" /\ Pending(j) = {}
          /\ \E by \in {"runner", "client"} :
                Pending(j)' = {[job |-> j, entry |-> e, by |-> by]}

EntryStep(j) ==
    \/ job'[j] = job[j] /\ Pending(j)' = Pending(j)
    \/ \E e \in Entry : Becomes(j, e)

\* update, of a job that keeps its status if it is finished.
LEMMA UpdateStep ==
    ASSUME TypeOK, NEW j \in Jobs, NEW e \in Entry, NEW by \in {"runner", "client"},
           Update(j, e, by),
           job[j] # Nothing => /\ e.status # "none" /\ Sound(e)
                               /\ job[j].status \in Finished => e.status = job[j].status
    PROVE  /\ job' \in [Jobs -> Entry] /\ WriteOK'
           /\ OthersStored(j) /\ EntryStep(j)
           /\ job'[j] = IF job[j] = Nothing THEN Nothing ELSE e
<1>1. CASE job[j] = Nothing
  BY <1>1 DEF Update, TypeOK, WriteOK, OthersStored, EntryStep, Pending
<1>2. CASE job[j] # Nothing /\ write' = write /\ (up = "up" => e.status = job[j].status)
  <2>1. job' = [job EXCEPT ![j] = e]
    BY <1>2 DEF Update
  <2>2. Becomes(j, e)
    BY <1>2, <2>1 DEF TypeOK, Becomes, Pending
  <2>3. OthersStored(j)
    BY <1>2, <2>1 DEF TypeOK, OthersStored, Pending
  <2> QED BY <1>2, <2>1, <2>2, <2>3 DEF TypeOK, WriteOK, EntryStep
<1>3. CASE job[j] # Nothing /\ up = "up" /\ write = {} /\ write' = {[job |-> j, entry |-> e, by |-> by]}
  <2> DEFINE w == [job |-> j, entry |-> e, by |-> by]
  <2>1. job' = [job EXCEPT ![j] = e] /\ w \in Write /\ w.job = j
    BY <1>3 DEF Update, Write
  <2>2. write' = {w}
    BY <1>3
  <2> HIDE DEF w
  <2>3. Pending(j)' = {w} /\ \A k \in Jobs : Pending(k) = {}
    BY <1>3, <2>1, <2>2 DEF Pending
  <2>4. \A k \in Jobs \ {j} : Pending(k)' = {}
    BY <2>1, <2>2 DEF Pending
  <2>5. Becomes(j, e)
    BY <1>3, <2>1, <2>3 DEF TypeOK, Becomes, w
  <2>6. WriteOK'
    BY <2>1, <2>2 DEF WriteOK
  <2>7. OthersStored(j)
    BY <2>1, <2>3, <2>4 DEF TypeOK, OthersStored
  <2> QED BY <1>3, <2>1, <2>5, <2>6, <2>7 DEF TypeOK, EntryStep
<1>4. CASE job[j] # Nothing
  <2>1. CASE e.status = job[j].status
    BY <1>2, <1>4, <2>1 DEF Update
  <2>2. CASE e.status # job[j].status
    <3>1. Save(j, e, by)
      BY <1>4, <2>2 DEF Update
    <3>2. CASE up = "up"
      BY <1>3, <1>4, <3>1, <3>2 DEF Save
    <3>3. CASE up # "up"
      BY <1>2, <1>4, <3>1, <3>3 DEF Save
    <3> QED BY <3>2, <3>3
  <2> QED BY <2>1, <2>2
<1> QED BY <1>1, <1>4

\* A step that leaves the store alone.
LEMMA StoredStep ==
    ASSUME TypeOK, NEW j \in Jobs, UNCHANGED Stored
    PROVE  job' \in [Jobs -> Entry] /\ WriteOK' /\ OthersStored(j) /\ EntryStep(j)
  BY DEF Stored, TypeOK, WriteOK, OthersStored, EntryStep, Pending

\* A job that nothing happens to keeps its part of the invariant.
LEMMA JobKept ==
    ASSUME NEW k \in Jobs, JobInv(k), UNCHANGED <<up, kind, crashes>>,
           job'[k] = job[k], record'[k] = record[k], Pending(k)' = Pending(k),
           runner'[k] = runner[k], fate'[k] = fate[k],
           k \in file' <=> k \in file, k \in backend' <=> k \in backend
    PROVE  JobInv(k)'
<1>1. Entries(k)' = Entries(k)
  BY DEF Entries
<1>2. WholeEntries(k)' /\ Unheard(k)' /\ Followed(k)' /\ RecordFirst(k)' /\ Told(k)'
  BY <1>1 DEF JobInv, WholeEntries, Unheard, Followed, RecordFirst, Told
<1>3. AsRecorded(k)' /\ AtRest(k)' /\ NotFinished(k)' /\ HasOutput(k)'
  BY <1>1 DEF JobInv, AsRecorded, AtRest, Serving, NotFinished, HasOutput
<1>4. OwnsOutput(k)' /\ AwaitsAnswer(k)'
  BY DEF JobInv, OwnsOutput, AwaitsAnswer
<1> QED BY <1>2, <1>3, <1>4 DEF JobInv

\* A step on one job in memory keeps what the invariant says of memory and
\* records.
LEMMA StoreKept ==
    ASSUME TypeOK, NEW j \in Jobs, JobInv(j), Serving,
           UNCHANGED <<up, record, fate>>, EntryStep(j), fate[j] # "new",
           runner'[j] # "none" => runner[j] # "none"
    PROVE  /\ WholeEntries(j)' /\ Unheard(j)' /\ Followed(j)' /\ RecordFirst(j)'
           /\ Told(j)' /\ AsRecorded(j)' /\ AtRest(j)'
<1>1. Unheard(j)' /\ AsRecorded(j)' /\ AtRest(j)'
  BY DEF Unheard, AsRecorded, AtRest, Serving
<1>2. CASE job'[j] = job[j] /\ Pending(j)' = Pending(j)
  <2>1. Entries(j)' = Entries(j)
    BY <1>2 DEF Entries
  <2> QED BY <1>1, <1>2, <2>1 DEF JobInv, WholeEntries, Followed, RecordFirst, Told
<1>3. ASSUME NEW e \in Entry, Becomes(j, e)
      PROVE  WholeEntries(j)' /\ Followed(j)' /\ RecordFirst(j)' /\ Told(j)'
  <2>1. /\ job[j] # Nothing /\ job'[j] = e /\ e # Nothing /\ Sound(e) /\ e.status # "none"
        /\ Sound(job[j]) /\ Sound(record[j])
    BY <1>3 DEF Becomes, Nothing, JobInv, WholeEntries, Entries
  <2>2. Told(j)'
    BY <2>1 DEF JobInv, Told
  <2>3. CASE Pending(j)' = Pending(j) /\ (up = "up" => e.status = job[j].status)
    <3>1. WholeEntries(j)'
      BY <2>1, <2>3 DEF JobInv, WholeEntries, Entries
    <3>2. Followed(j)' /\ RecordFirst(j)'
      BY <2>1, <2>3 DEF JobInv, Followed, RecordFirst
    <3> QED BY <2>2, <3>1, <3>2
  <2>4. ASSUME up = "up", Pending(j) = {}, NEW by \in {"runner", "client"},
               Pending(j)' = {[job |-> j, entry |-> e, by |-> by]}
        PROVE  WholeEntries(j)' /\ Followed(j)' /\ RecordFirst(j)' /\ Told(j)'
    <3> DEFINE w == [job |-> j, entry |-> e, by |-> by]
    <3>1. Pending(j)' = {w} /\ w.entry = e
      BY <2>4
    <3> HIDE DEF w
    <3>2. WholeEntries(j)'
      BY <2>1, <3>1 DEF WholeEntries, Entries
    <3>3. Followed(j)'
      BY <2>1, <3>1 DEF Followed
    <3>4. record[j].status = job[j].status
      BY <2>1, <2>4 DEF JobInv, Followed
    <3>5. record[j] # Nothing
      BY <2>1, <3>4 DEF Sound, Nothing
    <3> QED BY <2>2, <3>2, <3>3, <3>5 DEF RecordFirst
  <2> QED BY <1>3, <2>2, <2>3, <2>4 DEF Becomes
<1> QED BY <1>1, <1>2, <1>3 DEF EntryStep

\* What succeeded has its output still, and what succeeds has it now.
LEMMA OutputKept ==
    ASSUME TypeOK, NEW j \in Jobs, JobInv(j), Serving, UNCHANGED <<up, record, fate>>,
           EntryStep(j),
           runner'[j] \in {"saved", "attached"} =>
              j \in file' \/ fate[j] \in {"deleted", "unanswered"},
           job'[j].status = "succeeded" => j \in file' \/ fate[j] \in {"deleted", "unanswered"}
    PROVE  HasOutput(j)'
<1> SUFFICES ASSUME fate[j] \notin {"deleted", "unanswered"}
             PROVE  /\ \A e \in Entries(j)' : e.status = "succeeded" =>
                          j \in file' /\ job'[j].status = "succeeded"
                    /\ runner'[j] \in {"saved", "attached"} => j \in file'
  BY DEF HasOutput
<1>1. \A e \in Entries(j) : e.status = "succeeded" => job[j].status = "succeeded"
  BY DEF JobInv, HasOutput, Serving
<1>2. job[j].status = "succeeded" => job'[j].status = "succeeded"
  BY DEF EntryStep, Becomes, Finished
<1>3. \A e \in Entries(j)' : e \in Entries(j) \/ e = job'[j]
  BY DEF EntryStep, Becomes, Entries
<1> QED BY <1>1, <1>2, <1>3

-----------------------------------------------------------------------------
(* The goroutine of a job.                                                 *)

\* A goroutine moves, and with it nothing but its own job.
LEMMA RunnerMoved ==
    ASSUME TypeOK, NEW j \in Jobs, NEW from, NEW to \in RunnerPlaces, RunnerMove(j, from, to)
    PROVE  /\ Serving /\ UNCHANGED <<up, record, fate, kind, crashes>>
           /\ runner[j] = from /\ runner'[j] = to
           /\ runner' \in [Jobs -> RunnerPlaces]
           /\ \A k \in Jobs \ {j} : runner'[k] = runner[k]
  BY DEF RunnerMove, TypeOK, RunnerPlaces

\* A goroutine's step keeps the invariant, if it is right for its own job.
LEMMA RunnerKept ==
    ASSUME IInv, NEW j \in Jobs, Serving, UNCHANGED <<up, record, fate, kind, crashes>>,
           runner' \in [Jobs -> RunnerPlaces], \A k \in Jobs \ {j} : runner'[k] = runner[k],
           job' \in [Jobs -> Entry], WriteOK', OthersStored(j), EntryStep(j),
           file' \subseteq Jobs, backend' \subseteq Jobs, ctx' \in [Jobs -> {"live", "ending", "ended"}],
           \A k \in Jobs \ {j} : (k \in file' <=> k \in file) /\ (k \in backend' <=> k \in backend),
           fate[j] # "new", runner'[j] # "none" => runner[j] # "none",
           NotFinished(j)', OwnsOutput(j)', AwaitsAnswer(j)',
           runner'[j] \in {"saved", "attached"} =>
              j \in file' \/ fate[j] \in {"deleted", "unanswered"},
           job'[j].status = "succeeded" => j \in file' \/ fate[j] \in {"deleted", "unanswered"}
    PROVE  IInv'
<1>1. TypeOK' /\ Restarted'
  BY DEF IInv, TypeOK, WriteOK, RunnerPlaces, Restarted, Serving
<1>2. ASSUME NEW k \in Jobs \ {j} PROVE JobInv(k)'
  BY <1>2, JobKept DEF IInv, OthersStored
<1>3. JobInv(j)'
  BY StoreKept, OutputKept DEF IInv, JobInv
<1> QED BY <1>1, <1>2, <1>3 DEF IInv

\* The places of a goroutine whose job is not through, and has no output yet.
Early == {"adding", "waiting", "leaving", "turn", "starting", "ready", "posting", "generating",
          "postingSynth", "synthesizing", "answered", "saving", "failed", "cancelled"}

\* A goroutine at work that goes on without touching an output or the backend:
\* the job's status stays, or becomes one that is not finished.
LEMMA EarlyKept ==
    ASSUME IInv, NEW j \in Jobs, NEW from \in Early, NEW to \in Early \cup {"release"},
           RunnerMove(j, from, to), UNCHANGED <<file, ctx>>,
           job' \in [Jobs -> Entry], WriteOK', OthersStored(j), EntryStep(j),
           job'[j].status \in {job[j].status} \cup Unfinished,
           backend' \subseteq Jobs, backend \ {j} = backend' \ {j}, AwaitsAnswer(j)'
    PROVE  IInv'
<1>1. Early \cup {"release"} \subseteq RunnerPlaces
  BY DEF Early, RunnerPlaces, Holding
<1>2. /\ Serving /\ UNCHANGED <<up, record, fate, kind, crashes>>
      /\ runner[j] = from /\ runner'[j] = to
      /\ runner' \in [Jobs -> RunnerPlaces]
      /\ \A k \in Jobs \ {j} : runner'[k] = runner[k]
  BY <1>1, RunnerMoved DEF IInv
<1>3. fate[j] # "new" /\ job[j].status \notin {"succeeded", "failed"}
  BY <1>2 DEF IInv, JobInv, Unheard, NotFinished, Early
<1>4. NotFinished(j)' /\ job'[j].status # "succeeded"
  BY <1>2, <1>3 DEF NotFinished, Early, Unfinished
<1>5. OwnsOutput(j)'
  BY <1>2 DEF IInv, JobInv, OwnsOutput, Early
<1> QED BY <1>1, <1>2, <1>3, <1>4, <1>5, RunnerKept DEF IInv, TypeOK, Early

\* The same, when nothing else happens at all.
LEMMA EarlyMove ==
    ASSUME IInv, NEW j \in Jobs, NEW from \in Early, NEW to \in Early,
           RunnerMove(j, from, to), UNCHANGED <<Stored, file, ctx, backend>>,
           from \in {"generating", "synthesizing"} => kind # "image" \/ j \notin backend
    PROVE  IInv'
<1>1. j \notin backend \/ kind # "image"
  BY DEF IInv, JobInv, AwaitsAnswer, RunnerMove
<1>2. AwaitsAnswer(j)'
  BY <1>1 DEF AwaitsAnswer, RunnerMove
<1>3. job' \in [Jobs -> Entry] /\ WriteOK' /\ OthersStored(j) /\ EntryStep(j)
  BY StoredStep DEF IInv
<1>4. job'[j].status \in {job[j].status} \cup Unfinished
  BY DEF Stored
<1> QED BY <1>2, <1>3, <1>4, EarlyKept DEF IInv, TypeOK

\* The steps up to the backend's readiness, and what is made of its answer.
LEMMA MoveInv ==
    ASSUME IInv, NEW j \in Jobs,
           \/ TurnGiven(j) \/ Leave(j) \/ BackendRuns(j) \/ BackendReady(j)
           \/ BackendNotReady(j) \/ Keep(j)
    PROVE  IInv'
<1>1. UNCHANGED <<Stored, file, ctx, backend>>
  BY DEF TurnGiven, Leave, BackendRuns, BackendReady, BackendNotReady, Keep
<1>2. CASE TurnGiven(j) \/ Leave(j) \/ BackendRuns(j) \/ BackendReady(j)
  BY <1>1, <1>2, EarlyMove DEF TurnGiven, Leave, BackendRuns, BackendReady, Early
<1>3. CASE BackendNotReady(j)
  <2> DEFINE to == IF kind = "video" /\ ctx[j] = "ended" THEN "cancelled" ELSE "failed"
  <2>1. to \in Early /\ {"turn", "starting"} \subseteq Early
    BY DEF Early
  <2>2. PICK from \in {"turn", "starting"} : RunnerMove(j, from, to)
    BY <1>3 DEF BackendNotReady
  <2> HIDE DEF to
  <2> QED BY <1>1, <2>1, <2>2, EarlyMove
<1>4. CASE Keep(j)
  <2> DEFINE to == IF kind = "image" /\ job[j].status = "cancelled" THEN "cancelled" ELSE "saving"
  <2>1. to \in Early /\ "answered" \in Early
    BY DEF Early
  <2>2. RunnerMove(j, "answered", to)
    BY <1>4 DEF Keep
  <2> HIDE DEF to
  <2> QED BY <1>1, <2>1, <2>2, EarlyMove
<1> QED BY <1>2, <1>3, <1>4

\* genJob.start, of a job that its goroutine works on: it runs, unless it was
\* cancelled or removed.
LEMMA StartKept ==
    ASSUME IInv, NEW j \in Jobs, NEW from \in {"turn", "ready"}, NEW to \in Early \cup {"release"},
           RunnerMove(j, from, to), Update(j, Started(j), "runner"),
           UNCHANGED <<file, ctx, backend>>
    PROVE  IInv'
<1>1. /\ from \in Early /\ TypeOK /\ runner[j] = from
      /\ job[j].status \notin {"succeeded", "failed"}
  BY DEF IInv, JobInv, NotFinished, RunnerMove, Early
<1>2. job[j] \in Entry /\ Sound(job[j])
  BY <1>1 DEF IInv, JobInv, WholeEntries, Entries, TypeOK
<1>3. /\ Started(j) \in Entry /\ Started(j).status \in {job[j].status} \cup Unfinished
      /\ job[j] # Nothing => /\ Started(j).status # "none" /\ Sound(Started(j))
                             /\ job[j].status \in Finished => Started(j).status = job[j].status
  <2>1. CASE job[j].status = "cancelled"
    BY <1>2, <2>1 DEF Started, Sound
  <2>2. CASE job[j].status # "cancelled"
    BY <1>1, <1>2, <2>2 DEF Started, With, Sound, Entry, Unfinished, Finished
  <2> QED BY <2>1, <2>2
<1>4. /\ job' \in [Jobs -> Entry] /\ WriteOK'
      /\ OthersStored(j) /\ EntryStep(j)
      /\ job'[j] = IF job[j] = Nothing THEN Nothing ELSE Started(j)
  BY <1>1, <1>3, UpdateStep
<1>5. job'[j].status \in {job[j].status} \cup Unfinished
  BY <1>3, <1>4
<1>6. AwaitsAnswer(j)'
  BY <1>1 DEF IInv, JobInv, AwaitsAnswer, RunnerMove
<1> QED BY <1>1, <1>4, <1>5, <1>6, EarlyKept DEF IInv, TypeOK

\* The job is started, when the backend is or when it is ready.
LEMMA StartInv ==
    ASSUME IInv, NEW j \in Jobs, BackendStarts(j) \/ Send(j)
    PROVE  IInv'
<1>1. CASE BackendStarts(j)
  BY <1>1, StartKept DEF BackendStarts, Early
<1>2. CASE Send(j)
  <2>1. \E to \in Early \cup {"release"} : RunnerMove(j, "ready", to)
    <3>1. CASE kind # "video" /\ job[j].status = "cancelled"
             /\ RunnerMove(j, "ready", IF kind = "image" THEN "cancelled" ELSE "release")
      <4>1. CASE kind = "image"
        BY <3>1, <4>1 DEF Early
      <4>2. CASE kind # "image"
        BY <3>1, <4>2 DEF Early
      <4> QED BY <4>1, <4>2
    <3>2. CASE RunnerMove(j, "ready", "posting") \/ RunnerMove(j, "ready", "postingSynth")
      BY <3>2 DEF Early
    <3> QED BY <1>2, <3>1, <3>2 DEF Send
  <2> QED BY <1>2, <2>1, StartKept DEF Send
<1> QED BY <1>1, <1>2

\* A request is posted, from where its answer is awaited.
LEMMA PostedFacts ==
    ASSUME NEW at \in DOMAIN Posted
    PROVE  at \in {"posting", "postingSynth"} /\ Posted[at] \in {"generating", "synthesizing"}
  BY DEF Posted

\* The request reaches the backend, or is cut off.
LEMMA PostInv ==
    ASSUME IInv, NEW j \in Jobs, Post(j) \/ PostCut(j)
    PROVE  IInv'
<1>1. PICK at \in DOMAIN Posted : \/ RunnerMove(j, at, Posted[at])
                                  \/ RunnerMove(j, at, "cancelled") /\ kind # "image"
  BY DEF Post, PostCut
<1>2. /\ at \in Early /\ Posted[at] \in Early /\ "cancelled" \in Early
      /\ Posted[at] \in {"generating", "synthesizing"}
  BY PostedFacts DEF Early
<1>3. UNCHANGED <<Stored, file, ctx>> /\ backend' \in {backend, backend \cup {j}}
  BY DEF Post, PostCut
<1>4. PICK to \in Early : RunnerMove(j, at, to)
                          /\ (to \in {"generating", "synthesizing"} \/ kind # "image")
  BY <1>1, <1>2
<1>5. AwaitsAnswer(j)'
  BY <1>4, RunnerMoved DEF AwaitsAnswer, RunnerMove, IInv, TypeOK
<1>6. job' \in [Jobs -> Entry] /\ WriteOK' /\ OthersStored(j) /\ EntryStep(j)
  BY <1>3, StoredStep DEF IInv
<1>7. job'[j].status \in {job[j].status} \cup Unfinished
  BY <1>3 DEF Stored
<1> QED BY <1>2, <1>3, <1>4, <1>5, <1>6, <1>7, EarlyKept DEF IInv, TypeOK

\* The answer comes, or is given up.
LEMMA AnswerInv ==
    ASSUME IInv, NEW j \in Jobs, Answered(j) \/ Abandon(j)
    PROVE  IInv'
<1>1. UNCHANGED <<Stored, file, ctx, backend>> /\ (j \notin backend \/ kind # "image")
  BY DEF Answered, Abandon
<1>2. CASE Answered(j)
  <2>1. CASE kind = "music"
    BY <1>1, <1>2, <2>1, EarlyMove DEF Answered, Early
  <2>2. CASE kind # "music"
    BY <1>1, <1>2, <2>2, EarlyMove DEF Answered, Early
  <2> QED BY <2>1, <2>2
<1>3. CASE Abandon(j)
  <2>1. PICK at \in DOMAIN Posted : RunnerMove(j, Posted[at], "cancelled")
    BY <1>3 DEF Abandon
  <2>2. Posted[at] \in Early /\ "cancelled" \in Early
    BY PostedFacts DEF Early
  <2> QED BY <1>1, <2>1, <2>2, EarlyMove
<1> QED BY <1>2, <1>3

\* The output file is written, or cannot be.
LEMMA WriteOutputInv ==
    ASSUME IInv, NEW j \in Jobs, WriteOutput(j)
    PROVE  IInv'
<1>1. UNCHANGED <<Stored, ctx, backend>> /\ TypeOK
  BY DEF WriteOutput, IInv
<1>2. job' \in [Jobs -> Entry] /\ WriteOK' /\ OthersStored(j) /\ EntryStep(j)
  BY <1>1, StoredStep
<1>3. CASE RunnerMove(j, "saving", "failed") /\ UNCHANGED file
  BY <1>1, <1>3, EarlyMove DEF Early
<1>4. CASE RunnerMove(j, "saving", "saved") /\ file' = file \cup {j}
  <2>1. "saved" \in RunnerPlaces
    BY DEF RunnerPlaces, Holding
  <2>2. /\ Serving /\ UNCHANGED <<up, record, fate, kind, crashes>>
        /\ runner[j] = "saving" /\ runner'[j] = "saved"
        /\ runner' \in [Jobs -> RunnerPlaces]
        /\ \A k \in Jobs \ {j} : runner'[k] = runner[k]
    BY <1>1, <1>4, <2>1, RunnerMoved
  <2>3. fate[j] # "new" /\ job'[j] = job[j] /\ job[j].status \notin {"succeeded", "failed"}
    BY <1>1, <2>2 DEF IInv, JobInv, Unheard, NotFinished, Stored
  <2>4. NotFinished(j)' /\ OwnsOutput(j)'
    BY <2>2, <2>3 DEF NotFinished, OwnsOutput
  <2>5. AwaitsAnswer(j)'
    BY <1>1, <2>2 DEF IInv, JobInv, AwaitsAnswer
  <2>6. file' \subseteq Jobs /\ j \in file'
        /\ \A k \in Jobs \ {j} : (k \in file' <=> k \in file) /\ (k \in backend' <=> k \in backend)
    BY <1>1, <1>4 DEF TypeOK
  <2>7. /\ runner[j] # "none" /\ backend' \subseteq Jobs
        /\ ctx' \in [Jobs -> {"live", "ending", "ended"}]
    BY <1>1, <2>2 DEF TypeOK
  <2> QED BY <1>2, <2>2, <2>3, <2>4, <2>5, <2>6, <2>7, RunnerKept
<1> QED BY <1>3, <1>4 DEF WriteOutput

\* A goroutine sets the path of its job, and keeps the output only for a job
\* that is still there.
LEMMA AttachInv ==
    ASSUME IInv, NEW j \in Jobs, Attach(j)
    PROVE  IInv'
<1> DEFINE to == IF job[j] = Nothing THEN "discard" ELSE "attached"
           e == [job[j] EXCEPT !.path = TRUE]
<1>1. /\ RunnerMove(j, "saved", to) /\ Update(j, e, "runner")
      /\ UNCHANGED <<file, ctx, backend>> /\ TypeOK
  BY DEF Attach, IInv
<1>2. to \in RunnerPlaces
  BY DEF RunnerPlaces, Holding
<1>3. /\ e \in Entry /\ e.path /\ e.status = job[j].status
      /\ job[j] # Nothing => e.status # "none" /\ Sound(e)
  <2>1. job[j] \in Entry /\ e \in Entry /\ e.path /\ e.status = job[j].status
    BY <1>1 DEF TypeOK, Entry
  <2>2. Sound(job[j])
    BY DEF IInv, JobInv, WholeEntries, Entries
  <2> QED BY <2>1, <2>2 DEF Sound
<1>4. to = IF job[j] = Nothing THEN "discard" ELSE "attached"
  OBVIOUS
<1> HIDE DEF to, e
<1>5. /\ job' \in [Jobs -> Entry] /\ WriteOK'
      /\ OthersStored(j) /\ EntryStep(j)
      /\ job'[j] = IF job[j] = Nothing THEN Nothing ELSE e
  BY <1>1, <1>3, UpdateStep
<1>6. /\ Serving /\ UNCHANGED <<up, record, fate, kind, crashes>>
      /\ runner[j] = "saved" /\ runner'[j] = to
      /\ runner' \in [Jobs -> RunnerPlaces]
      /\ \A k \in Jobs \ {j} : runner'[k] = runner[k]
  BY <1>1, <1>2, RunnerMoved
<1>7. fate[j] # "new" /\ job[j].status \notin {"succeeded", "failed"}
  BY <1>6 DEF IInv, JobInv, Unheard, NotFinished
<1>8. job'[j].status = job[j].status
  BY <1>3, <1>5
<1>9. NotFinished(j)' /\ OwnsOutput(j)'
  BY <1>3, <1>4, <1>5, <1>6, <1>7, <1>8 DEF NotFinished, OwnsOutput, Nothing
<1>10. AwaitsAnswer(j)'
  BY <1>1, <1>6 DEF IInv, JobInv, AwaitsAnswer
<1>11. j \in file' \/ fate[j] \in {"deleted", "unanswered"}
  BY <1>1, <1>6 DEF IInv, JobInv, HasOutput
<1> QED BY <1>1, <1>5, <1>6, <1>7, <1>8, <1>9, <1>10, <1>11, RunnerKept DEF TypeOK

\* finish: a job is finished once, succeeded only with its output.
LEMMA FinishInv ==
    ASSUME IInv, NEW j \in Jobs, NEW at, Finish(j, at)
    PROVE  IInv'
<1> DEFINE to == IF at = "leaving" THEN "none"
                 ELSE IF at = "saved" /\ job[j].status \in {"none", "cancelled"}
                 THEN "discard" ELSE "release"
           outcome == IF kind = "video" /\ ctx[j] # "live" /\ Outcome(at) # "succeeded"
                      THEN "cancelled" ELSE Outcome(at)
           path == at \in {"saved", "attached"}
           e == [status |-> outcome, path |-> path]
<1>0. path \in BOOLEAN /\ (path <=> at \in {"saved", "attached"})
  OBVIOUS
<1>1. /\ at \in {"saved", "attached", "cancelled", "leaving", "failed"}
      /\ RunnerMove(j, at, to) /\ UNCHANGED <<file, ctx, backend>> /\ TypeOK
      /\ IF job[j].status = "cancelled" THEN UNCHANGED Stored ELSE Update(j, e, "runner")
  BY DEF Finish, IInv
<1>2. /\ to \in RunnerPlaces
      /\ to = "discard" <=> at = "saved" /\ job[j].status \in {"none", "cancelled"}
      /\ to \in {"none", "discard", "release"}
  BY DEF RunnerPlaces, Holding
<1>3. outcome \in Finished /\ (outcome = "succeeded" => at \in {"saved", "attached"})
  BY <1>1 DEF Outcome, Finished
<1> HIDE DEF to, outcome, path
<1>4. /\ Serving /\ UNCHANGED <<up, record, fate, kind, crashes>>
      /\ runner[j] = at /\ runner'[j] = to
      /\ runner' \in [Jobs -> RunnerPlaces]
      /\ \A k \in Jobs \ {j} : runner'[k] = runner[k]
  BY <1>1, <1>2, RunnerMoved
<1>5. fate[j] # "new" /\ job[j].status \notin {"succeeded", "failed"} /\ Sound(job[j])
  BY <1>1, <1>4 DEF IInv, JobInv, Unheard, NotFinished, WholeEntries, Entries
<1>6. /\ e \in Entry /\ e.status = outcome /\ e.status # "none" /\ Sound(e)
      /\ e.path <=> at \in {"saved", "attached"}
  <2>1. e \in Entry /\ e.status = outcome /\ e.path = path /\ e.status # "none"
    BY <1>0, <1>3 DEF Entry, Finished
  <2> HIDE DEF e
  <2> QED BY <1>0, <1>3, <2>1 DEF Sound
<1> HIDE DEF e
<1>7. /\ job' \in [Jobs -> Entry] /\ WriteOK' /\ OthersStored(j) /\ EntryStep(j)
      /\ job'[j] = IF job[j] = Nothing \/ job[j].status = "cancelled" THEN job[j] ELSE e
  <2>1. CASE job[j].status = "cancelled"
    BY <1>1, <2>1, StoredStep DEF Stored
  <2>2. CASE job[j].status # "cancelled"
    <3>1. job[j].status \in Finished => e.status = job[j].status
      BY <1>5, <2>2 DEF Finished
    <3> QED BY <1>1, <1>6, <2>2, <3>1, UpdateStep
  <2> QED BY <2>1, <2>2
<1>8. NotFinished(j)'
  BY <1>2, <1>4, <1>5, <1>7 DEF NotFinished, Sound, Nothing
<1>9. OwnsOutput(j)'
  <2> SUFFICES ASSUME crashes = 0, j \in file, to # "discard" PROVE to \in {"release", "none"} /\ job'[j].path
    BY <1>1, <1>4 DEF OwnsOutput
  <2>1. at \in {"saved", "attached"} /\ (job[j].path \/ at = "saved")
    BY <1>1, <1>4 DEF IInv, JobInv, OwnsOutput
  <2>2. at = "saved" => job[j].status \notin {"none", "cancelled"}
    BY <1>2
  <2>3. job[j] = Nothing => job[j].status = "none" /\ job[j].path = FALSE
    BY DEF Nothing
  <2>4. CASE at = "saved"
    BY <1>2, <1>6, <1>7, <2>2, <2>3, <2>4
  <2>5. CASE at = "attached"
    BY <1>2, <1>6, <1>7, <2>1, <2>3, <2>5
  <2> QED BY <2>1, <2>4, <2>5
<1>10. AwaitsAnswer(j)'
  BY <1>1, <1>4 DEF IInv, JobInv, AwaitsAnswer
<1>11. job'[j].status = "succeeded" => j \in file' \/ fate[j] \in {"deleted", "unanswered"}
  <2>1. job'[j].status = "succeeded" => at \in {"saved", "attached"}
    BY <1>3, <1>5, <1>6, <1>7
  <2> QED BY <1>1, <1>4, <2>1 DEF IInv, JobInv, HasOutput
<1>12. runner'[j] \notin {"saved", "attached"} /\ runner[j] # "none"
  BY <1>1, <1>2, <1>4
<1> QED BY <1>1, <1>4, <1>5, <1>7, <1>8, <1>9, <1>10, <1>11, <1>12, RunnerKept DEF TypeOK

\* An output that nobody is to have is dropped, and the GPU is given back.
LEMMA LastInv ==
    ASSUME IInv, NEW j \in Jobs, Discard(j) \/ Release(j)
    PROVE  IInv'
<1>1. /\ UNCHANGED <<Stored, ctx, backend>> /\ TypeOK /\ file' \in {file, file \ {j}}
      /\ "release" \in RunnerPlaces /\ "none" \in RunnerPlaces
  BY DEF Discard, Release, IInv, RunnerPlaces, Holding
<1>2. /\ Serving /\ UNCHANGED <<up, record, fate, kind, crashes>>
      /\ \/ runner[j] = "discard" /\ runner'[j] = "release" /\ file' = file \ {j}
         \/ runner[j] = "release" /\ runner'[j] = "none" /\ file' = file
      /\ runner' \in [Jobs -> RunnerPlaces]
      /\ \A k \in Jobs \ {j} : runner'[k] = runner[k]
  BY <1>1, RunnerMoved DEF Discard, Release
<1>3. job' \in [Jobs -> Entry] /\ WriteOK' /\ OthersStored(j) /\ EntryStep(j) /\ job' = job
  BY <1>1, StoredStep DEF Stored
<1>4. fate[j] # "new" /\ (runner[j] = "discard" => job[j].status # "succeeded")
  BY <1>2 DEF IInv, JobInv, Unheard, NotFinished
<1>5. NotFinished(j)' /\ AwaitsAnswer(j)' /\ OwnsOutput(j)'
  BY <1>1, <1>2, <1>3 DEF IInv, JobInv, NotFinished, AwaitsAnswer, OwnsOutput
<1>6. job'[j].status = "succeeded" => j \in file' \/ fate[j] \in {"deleted", "unanswered"}
  BY <1>2, <1>3, <1>4 DEF IInv, JobInv, HasOutput, Entries
<1>7. runner'[j] \notin {"saved", "attached"} /\ (runner'[j] # "none" => runner[j] # "none")
  BY <1>2
<1>8. \A k \in Jobs \ {j} : (k \in file' <=> k \in file) /\ (k \in backend' <=> k \in backend)
  BY <1>1
<1> QED BY <1>1, <1>2, <1>3, <1>4, <1>5, <1>6, <1>7, <1>8, RunnerKept DEF TypeOK

\* Every step of a goroutine keeps the invariant.
LEMMA RunnerInv ==
    ASSUME IInv, NEW j \in Jobs, RunnerStep(j)
    PROVE  IInv'
<1>1. CASE \E at \in {"leaving"} \cup Holding : Finish(j, at)
  BY <1>1, FinishInv
<1>2. CASE \/ TurnGiven(j) \/ Leave(j) \/ BackendRuns(j) \/ BackendReady(j)
           \/ BackendNotReady(j) \/ Keep(j)
  BY <1>2, MoveInv
<1>3. CASE BackendStarts(j) \/ Send(j) \/ Post(j) \/ PostCut(j) \/ Answered(j) \/ Abandon(j)
  BY <1>3, StartInv, PostInv, AnswerInv
<1>4. CASE WriteOutput(j) \/ Attach(j) \/ Discard(j) \/ Release(j)
  BY <1>4, WriteOutputInv, AttachInv, LastInv
<1> QED BY <1>1, <1>2, <1>3, <1>4 DEF RunnerStep

-----------------------------------------------------------------------------
(* The clients.                                                            *)

\* A step that is right for the job it is about, and leaves the others alone.
LEMMA OneJobKept ==
    ASSUME IInv, TypeOK', NEW j \in Jobs, JobInv(j)', UNCHANGED <<up, kind, crashes>>,
           OthersStored(j),
           \A k \in Jobs \ {j} :
              /\ record'[k] = record[k] /\ runner'[k] = runner[k] /\ fate'[k] = fate[k]
              /\ (k \in file' <=> k \in file) /\ (k \in backend' <=> k \in backend)
    PROVE  IInv'
<1>1. Restarted'
  BY DEF IInv, Restarted, Serving
<1>2. ASSUME NEW k \in Jobs \ {j} PROVE JobInv(k)'
  BY <1>2, JobKept DEF IInv, OthersStored
<1> QED BY <1>1, <1>2 DEF IInv

\* A job is submitted: its record is begun, unless the server is closing.
LEMMA SubmitInv ==
    ASSUME IInv, NEW j \in Jobs, Submit(j)
    PROVE  IInv'
<1>1. /\ Serving /\ fate[j] = "new" /\ fate' = [fate EXCEPT ![j] = "submitted"]
      /\ runner' = [runner EXCEPT ![j] = "adding"]
      /\ UNCHANGED <<up, record, file, ctx, backend, kind, crashes>>
      /\ TypeOK /\ "adding" \in RunnerPlaces
  BY DEF Submit, IInv, RunnerPlaces
<1>2. PICK status \in Unfinished :
        /\ job' = [job EXCEPT ![j] = [status |-> status, path |-> FALSE]]
        /\ Save(j, [status |-> status, path |-> FALSE], "runner")
  BY DEF Submit
<1> DEFINE e == [status |-> status, path |-> FALSE]
           w == [job |-> j, entry |-> e, by |-> "runner"]
<1>3. e \in Entry /\ e.status = status /\ e # Nothing /\ Sound(e)
      /\ e.status \notin {"none"} \cup Finished
  BY DEF Entry, Unfinished, Finished, Nothing, Sound
<1>4. job' = [job EXCEPT ![j] = e] /\ Save(j, e, "runner")
  BY <1>2
<1> HIDE DEF e
<1>5. w \in Write /\ w.job = j /\ w.entry = e /\ w.by = "runner"
  BY <1>3 DEF Write
<1>6. \/ up = "up" /\ write = {} /\ write' = {w}
      \/ up # "up" /\ write' = write
  BY <1>4 DEF Save
<1> HIDE DEF w
<1>7. /\ job[j] = Nothing /\ record[j] = Nothing /\ Pending(j) = {} /\ runner[j] = "none"
      /\ j \notin file
  BY <1>1 DEF IInv, JobInv, Unheard
<1>8. \/ up = "up" /\ Pending(j)' = {w}
      \/ up # "up" /\ Pending(j)' = {}
  BY <1>5, <1>6, <1>7 DEF Pending
<1>9. job'[j] = e /\ record'[j] = Nothing /\ fate'[j] = "submitted" /\ runner'[j] = "adding"
  BY <1>1, <1>4, <1>7 DEF TypeOK
<1>10. TypeOK'
  BY <1>1, <1>3, <1>4, <1>5, <1>6 DEF TypeOK, RunnerPlaces
<1>11. \A k \in Jobs \ {j} : job'[k] = job[k] /\ Pending(k)' = Pending(k)
  BY <1>1, <1>4, <1>5, <1>6 DEF TypeOK, Pending
<1>12. JobInv(j)'
  <2>1. \A x \in Entries(j)' : x \in {e, Nothing}
    BY <1>5, <1>8, <1>9 DEF Entries
  <2>2. Sound(Nothing) /\ Nothing.status # "succeeded"
    BY DEF Sound, Nothing
  <2>3. WholeEntries(j)' /\ RecordFirst(j)'
    BY <1>3, <1>5, <1>8, <2>1, <2>2 DEF WholeEntries, RecordFirst
  <2>4. Unheard(j)' /\ Followed(j)' /\ Told(j)' /\ AsRecorded(j)' /\ AtRest(j)'
    BY <1>1, <1>3, <1>5, <1>8, <1>9 DEF Unheard, Followed, Told, AsRecorded, AtRest, Serving
  <2>5. NotFinished(j)' /\ HasOutput(j)' /\ OwnsOutput(j)'
    BY <1>1, <1>3, <1>7, <1>9, <2>1, <2>2 DEF NotFinished, HasOutput, OwnsOutput, Finished
  <2>6. AwaitsAnswer(j)'
    BY <1>1, <1>7 DEF IInv, JobInv, AwaitsAnswer
  <2> QED BY <2>3, <2>4, <2>5, <2>6 DEF JobInv
<1>13. \A k \in Jobs \ {j} : runner'[k] = runner[k] /\ fate'[k] = fate[k]
  BY <1>1 DEF TypeOK
<1> QED BY <1>1, <1>10, <1>11, <1>12, <1>13, OneJobKept DEF OthersStored

\* A job is accepted once its record is there.
LEMMA AcceptInv ==
    ASSUME IInv, NEW j \in Jobs, Accept(j)
    PROVE  IInv'
<1>1. /\ Serving /\ runner[j] = "adding" /\ ~Saving(j, "runner") /\ TypeOK
      /\ runner' = [runner EXCEPT ![j] = "waiting"]
      /\ fate' = [fate EXCEPT ![j] = IF up = "up" /\ fate[j] = "submitted"
                                     THEN "accepted" ELSE fate[j]]
      /\ UNCHANGED <<up, job, record, write, file, ctx, backend, kind, crashes>>
  BY DEF Accept, IInv
<1>2. /\ runner'[j] = "waiting"
      /\ fate'[j] = IF up = "up" /\ fate[j] = "submitted" THEN "accepted" ELSE fate[j]
      /\ \A k \in Jobs \ {j} : runner'[k] = runner[k] /\ fate'[k] = fate[k]
  BY <1>1 DEF TypeOK
<1>3. TypeOK'
  BY <1>1 DEF TypeOK
<1>4. \A k \in Jobs : Pending(k)' = Pending(k) /\ Entries(k)' = Entries(k)
  BY <1>1 DEF Pending, Entries
<1>5. up = "up" /\ fate[j] = "submitted" => record[j] # Nothing /\ job[j] # Nothing
  <2> SUFFICES ASSUME up = "up", fate[j] = "submitted" PROVE record[j] # Nothing /\ job[j] # Nothing
    OBVIOUS
  <2>1. job[j] # Nothing /\ Sound(job[j])
    BY <1>1 DEF IInv, JobInv, Told, WholeEntries, Entries
  <2>2. CASE Pending(j) = {}
    <3>1. record[j].status = job[j].status /\ job[j].status # "none"
      BY <2>1, <2>2 DEF IInv, JobInv, Followed, Sound
    <3> QED BY <2>1, <3>1 DEF Nothing
  <2>3. CASE Pending(j) # {}
    <3>1. PICK w \in Pending(j) : TRUE
      BY <2>3
    <3>2. w \in write /\ w.job = j /\ w.by \in {"runner", "client"}
      BY <1>1 DEF TypeOK, Pending, Write
    <3>3. w.by = "client"
      BY <1>1, <3>2 DEF Saving
    <3> QED BY <2>1, <3>3 DEF IInv, JobInv, RecordFirst
  <2> QED BY <2>1, <2>2, <2>3
<1>6. JobInv(j)'
  <2>1. fate[j] # "new" /\ fate'[j] # "new" /\ (fate'[j] = "deleted" <=> fate[j] = "deleted")
        /\ (fate'[j] = "unanswered" <=> fate[j] = "unanswered")
    BY <1>1, <1>2 DEF IInv, JobInv, Unheard
  <2>2. WholeEntries(j)' /\ Unheard(j)' /\ Followed(j)' /\ RecordFirst(j)'
    BY <1>1, <1>4, <2>1 DEF IInv, JobInv, WholeEntries, Unheard, Followed, RecordFirst
  <2>3. Told(j)'
    BY <1>1, <1>2, <1>5, <2>1 DEF IInv, JobInv, Told
  <2>4. AsRecorded(j)' /\ AtRest(j)'
    BY <1>1 DEF IInv, JobInv, AsRecorded, AtRest, Serving
  <2>5. NotFinished(j)' /\ OwnsOutput(j)'
    BY <1>1, <1>2 DEF IInv, JobInv, NotFinished, OwnsOutput
  <2>6. HasOutput(j)' /\ AwaitsAnswer(j)'
    BY <1>1, <1>2, <1>4, <2>1 DEF IInv, JobInv, HasOutput, AwaitsAnswer
  <2> QED BY <2>2, <2>3, <2>4, <2>5, <2>6 DEF JobInv
<1> QED BY <1>1, <1>2, <1>3, <1>4, <1>6, OneJobKept DEF OthersStored

\* A cancel changes only a job that is not finished.
LEMMA CancelInv ==
    ASSUME IInv, NEW j \in Jobs, Cancel(j)
    PROVE  IInv'
<1> DEFINE e == IF kind = "video" THEN job[j] ELSE With(j, "cancelled")
<1>1. /\ Serving /\ job[j].status \in Unfinished /\ Update(j, e, "client") /\ TypeOK
      /\ ctx' = [ctx EXCEPT ![j] = "ending"]
      /\ UNCHANGED <<up, record, file, runner, backend, fate, kind, crashes>>
  BY DEF Cancel, IInv
<1>2. /\ e \in Entry /\ e.path = job[j].path /\ e.status \in {job[j].status, "cancelled"}
      /\ e.status \notin {"none", "succeeded", "failed"} /\ Sound(e)
      /\ job[j].status \notin Finished /\ job[j] # Nothing
  <2>1. job[j] \in Entry /\ job[j].status \notin {"none"} \cup Finished /\ job[j] # Nothing
    BY <1>1 DEF TypeOK, Unfinished, Finished, Nothing
  <2>2. CASE kind = "video"
    BY <2>1, <2>2 DEF Sound, Finished
  <2>3. CASE kind # "video"
    BY <2>1, <2>3 DEF With, Entry, Sound, Finished
  <2> QED BY <2>1, <2>2, <2>3
<1> HIDE DEF e
<1>3. /\ job' \in [Jobs -> Entry] /\ WriteOK' /\ OthersStored(j) /\ EntryStep(j)
      /\ job'[j] = e
  BY <1>1, <1>2, UpdateStep
<1>4. fate[j] # "new"
  BY <1>2 DEF IInv, JobInv, Unheard
<1>5. NotFinished(j)' /\ OwnsOutput(j)' /\ AwaitsAnswer(j)'
  BY <1>1, <1>2, <1>3 DEF IInv, JobInv, NotFinished, OwnsOutput, AwaitsAnswer, Unfinished
<1>6. runner'[j] \in {"saved", "attached"} => j \in file' \/ fate[j] \in {"deleted", "unanswered"}
  BY <1>1 DEF IInv, JobInv, HasOutput
<1>7. runner' \in [Jobs -> RunnerPlaces] /\ ctx' \in [Jobs -> {"live", "ending", "ended"}]
  BY <1>1 DEF TypeOK, RunnerPlaces
<1> QED BY <1>1, <1>2, <1>3, <1>4, <1>5, <1>6, <1>7, RunnerKept DEF TypeOK

\* Steps that change nothing but a context, or nothing.
LEMMA NothingInv ==
    ASSUME IInv, UNCHANGED <<up, job, record, write, file, runner, backend, fate, kind, crashes>>,
           ctx' \in [Jobs -> {"live", "ending", "ended"}]
    PROVE  IInv'
<1>1. TypeOK' /\ Restarted'
  BY DEF IInv, TypeOK, Restarted, Serving
<1>2. ASSUME NEW k \in Jobs PROVE JobInv(k)'
  <2>1. Pending(k)' = Pending(k)
    BY DEF Pending
  <2> QED BY <2>1, JobKept DEF IInv
<1> QED BY <1>1, <1>2 DEF IInv

\* A finished job is removed, with its output and its record.
LEMMA RemoveInv ==
    ASSUME IInv, NEW j \in Jobs, Remove(j)
    PROVE  IInv'
<1>1. /\ Serving /\ job[j].status \in Finished /\ TypeOK
      /\ job' = [job EXCEPT ![j] = Nothing] /\ record' = [record EXCEPT ![j] = Nothing]
      /\ file' = IF job[j].path THEN file \ {j} ELSE file
      /\ fate' = [fate EXCEPT ![j] = "deleted"]
      /\ UNCHANGED <<up, write, runner, ctx, backend, kind, crashes>>
  BY DEF Remove, IInv
<1>2. Nothing \in Entry /\ Sound(Nothing) /\ Nothing.status = "none"
  BY DEF Nothing, Entry, Sound
<1>3. TypeOK'
  BY <1>1, <1>2 DEF TypeOK
<1>4. /\ job'[j] = Nothing /\ record'[j] = Nothing /\ fate'[j] = "deleted"
      /\ \A k \in Jobs \ {j} : job'[k] = job[k] /\ record'[k] = record[k] /\ fate'[k] = fate[k]
      /\ \A k \in Jobs : Pending(k)' = Pending(k)
  BY <1>1 DEF TypeOK, Pending
<1>5. JobInv(j)'
  <2>1. WholeEntries(j)' /\ RecordFirst(j)'
    BY <1>2, <1>4 DEF IInv, JobInv, WholeEntries, Entries, RecordFirst
  <2>2. Unheard(j)' /\ Followed(j)' /\ Told(j)' /\ AsRecorded(j)' /\ AtRest(j)' /\ HasOutput(j)'
    BY <1>1, <1>4 DEF Unheard, Followed, Told, AsRecorded, AtRest, Serving, HasOutput
  <2>3. NotFinished(j)'
    BY <1>2, <1>4 DEF NotFinished
  <2>4. OwnsOutput(j)' /\ AwaitsAnswer(j)'
    BY <1>1 DEF IInv, JobInv, OwnsOutput, AwaitsAnswer
  <2> QED BY <2>1, <2>2, <2>3, <2>4 DEF JobInv
<1> QED BY <1>1, <1>3, <1>4, <1>5, OneJobKept DEF OthersStored

\* An output without an owner is pruned.
LEMMA PruneInv ==
    ASSUME IInv, NEW j \in Jobs, PruneOrphan(j)
    PROVE  IInv'
<1>1. /\ Serving /\ job[j] = Nothing /\ runner[j] = "none" /\ file' = file \ {j} /\ TypeOK
      /\ UNCHANGED <<up, job, record, write, runner, ctx, backend, fate, kind, crashes>>
  BY DEF PruneOrphan, IInv
<1>2. TypeOK'
  BY <1>1 DEF TypeOK
<1>3. \A k \in Jobs : Pending(k)' = Pending(k) /\ Entries(k)' = Entries(k)
  BY <1>1 DEF Pending, Entries
<1>4. JobInv(j)'
  <2>1. WholeEntries(j)' /\ Unheard(j)' /\ Followed(j)' /\ RecordFirst(j)' /\ Told(j)'
    BY <1>1, <1>3 DEF IInv, JobInv, WholeEntries, Unheard, Followed, RecordFirst, Told
  <2>2. AsRecorded(j)' /\ AtRest(j)' /\ NotFinished(j)' /\ OwnsOutput(j)' /\ AwaitsAnswer(j)'
    BY <1>1, <1>3 DEF IInv, JobInv, AsRecorded, AtRest, Serving, NotFinished, OwnsOutput, AwaitsAnswer
  <2>3. HasOutput(j)'
    BY <1>1, <1>3 DEF IInv, JobInv, HasOutput, Serving, Nothing
  <2> QED BY <2>1, <2>2, <2>3 DEF JobInv
<1> QED BY <1>1, <1>2, <1>3, <1>4, OneJobKept DEF OthersStored

\* The backend is done with a request, or dies.
LEMMA BackendDoneInv ==
    ASSUME IInv, NEW j \in Jobs, BackendDone(j)
    PROVE  IInv'
<1>1. /\ backend' = backend \ {j} /\ TypeOK
      /\ UNCHANGED <<up, job, record, write, file, runner, ctx, fate, kind, crashes>>
  BY DEF BackendDone, IInv
<1>2. TypeOK'
  BY <1>1 DEF TypeOK
<1>3. \A k \in Jobs : Pending(k)' = Pending(k) /\ Entries(k)' = Entries(k)
  BY <1>1 DEF Pending, Entries
<1>4. JobInv(j)'
  <2>1. WholeEntries(j)' /\ Unheard(j)' /\ Followed(j)' /\ RecordFirst(j)' /\ Told(j)'
    BY <1>1, <1>3 DEF IInv, JobInv, WholeEntries, Unheard, Followed, RecordFirst, Told
  <2>2. AsRecorded(j)' /\ AtRest(j)' /\ NotFinished(j)' /\ OwnsOutput(j)' /\ AwaitsAnswer(j)'
    BY <1>1, <1>3 DEF IInv, JobInv, AsRecorded, AtRest, Serving, NotFinished, OwnsOutput, AwaitsAnswer
  <2>3. HasOutput(j)'
    BY <1>1, <1>3 DEF IInv, JobInv, HasOutput
  <2> QED BY <2>1, <2>2, <2>3 DEF JobInv
<1> QED BY <1>1, <1>2, <1>3, <1>4, OneJobKept DEF OthersStored

-----------------------------------------------------------------------------
(* Records on their way to the disk, and the server's stops and starts.    *)

\* A record is on disk.
LEMMA LandInv ==
    ASSUME IInv, Land
    PROVE  IInv'
<1>1. PICK w \in write : /\ record' = [record EXCEPT ![w.job] = w.entry]
                         /\ write' = write \ {w}
                         /\ UNCHANGED <<up, job, file, runner, ctx, backend, fate, kind, crashes>>
  BY DEF Land
<1>2. /\ TypeOK /\ write = {w} /\ write' = {} /\ w.job \in Jobs /\ w.entry \in Entry
  BY <1>1 DEF IInv, TypeOK, Write
<1> DEFINE j == w.job
<1>3. TypeOK'
  BY <1>1, <1>2 DEF TypeOK
<1>4. /\ record'[j] = w.entry /\ w \in Pending(j) /\ Pending(j)' = {}
      /\ \A k \in Jobs \ {j} : record'[k] = record[k] /\ Pending(k)' = Pending(k)
  BY <1>1, <1>2 DEF TypeOK, Pending
<1>5. j \in Jobs
  BY <1>2
<1> HIDE DEF j
<1>6. JobInv(j)
  BY <1>5 DEF IInv
<1>7. w.entry \in Entries(j) /\ Entries(j)' \subseteq Entries(j) /\ w.entry.status # "none"
  BY <1>1, <1>4, <1>6 DEF Entries, JobInv, WholeEntries
<1>8. JobInv(j)'
  <2>1. w.entry # Nothing
    BY <1>7 DEF Nothing
  <2>2. WholeEntries(j)' /\ Unheard(j)' /\ RecordFirst(j)'
    BY <1>1, <1>4, <1>6, <1>7 DEF JobInv, WholeEntries, Unheard, RecordFirst
  <2>3. Followed(j)' /\ Told(j)'
    BY <1>1, <1>4, <1>6, <2>1 DEF JobInv, Followed, Told
  <2>4. AsRecorded(j)' /\ AtRest(j)'
    BY <1>1, <1>4, <1>6 DEF JobInv, AsRecorded, AtRest, Serving
  <2>5. NotFinished(j)' /\ OwnsOutput(j)' /\ AwaitsAnswer(j)'
    BY <1>1, <1>6 DEF JobInv, NotFinished, OwnsOutput, AwaitsAnswer
  <2>6. HasOutput(j)'
    BY <1>1, <1>6, <1>7 DEF JobInv, HasOutput
  <2> QED BY <2>2, <2>3, <2>4, <2>5, <2>6 DEF JobInv
<1> QED BY <1>1, <1>3, <1>4, <1>5, <1>8, OneJobKept DEF OthersStored

\* The server begins to close: no record is written from now on.
LEMMA CloseInv ==
    ASSUME IInv, Close
    PROVE  IInv'
<1>1. /\ up = "up" /\ up' = "closing"
      /\ UNCHANGED <<job, record, write, file, runner, ctx, backend, fate, kind, crashes>>
  BY DEF Close
<1>2. TypeOK' /\ Restarted'
  BY <1>1 DEF IInv, TypeOK, Restarted, Serving
<1>3. ASSUME NEW k \in Jobs PROVE JobInv(k)'
  <2>1. JobInv(k) /\ Pending(k)' = Pending(k) /\ Entries(k)' = Entries(k)
    BY <1>1 DEF IInv, Pending, Entries
  <2>2. WholeEntries(k)' /\ Unheard(k)' /\ Followed(k)' /\ RecordFirst(k)' /\ Told(k)'
    BY <1>1, <2>1 DEF JobInv, WholeEntries, Unheard, Followed, RecordFirst, Told
  <2>3. AsRecorded(k)' /\ AtRest(k)' /\ NotFinished(k)' /\ OwnsOutput(k)' /\ AwaitsAnswer(k)'
    BY <1>1, <2>1 DEF JobInv, AsRecorded, AtRest, Serving, NotFinished, OwnsOutput, AwaitsAnswer
  <2>4. HasOutput(k)'
    BY <1>1, <2>1 DEF JobInv, HasOutput
  <2> QED BY <2>2, <2>3, <2>4 DEF JobInv
<1> QED BY <1>2, <1>3 DEF IInv

\* The server goes down, between any two steps, or between the two of a removal.
LEMMA DownInv ==
    ASSUME IInv, Crash \/ \E j \in Jobs : CrashInRemove(j)
    PROVE  IInv'
<1>1. /\ up' = "down" /\ crashes' = crashes + 1 /\ crashes < MaxCrashes
      /\ job' = [j \in Jobs |-> Nothing] /\ write' = {}
      /\ runner' = [j \in Jobs |-> "none"] /\ ctx' = [j \in Jobs |-> "live"]
      /\ backend' = {} /\ UNCHANGED <<kind, record>>
  BY DEF Crash, CrashInRemove, Down
<1>2. /\ file' \subseteq file /\ fate' \in [Jobs -> {"new", "submitted", "accepted", "deleted", "unanswered"}]
      /\ \A k \in Jobs : \/ fate'[k] = fate[k] /\ (k \in file' <=> k \in file)
                         \/ fate'[k] = "unanswered"
  <2>1. CASE Crash
    BY <2>1 DEF Crash, IInv, TypeOK
  <2>2. CASE \E j \in Jobs : CrashInRemove(j)
    BY <2>2 DEF CrashInRemove, IInv, TypeOK
  <2> QED BY <2>1, <2>2
<1>3. Nothing \in Entry /\ Sound(Nothing) /\ Nothing.status = "none"
  BY DEF Nothing, Entry, Sound
<1>4. crashes' \in 0..MaxCrashes /\ crashes' > 0
  BY <1>1, KindsAssumption DEF IInv, TypeOK
<1>5. TypeOK' /\ Restarted'
  BY <1>1, <1>2, <1>3, <1>4 DEF IInv, TypeOK, Restarted
<1>6. ASSUME NEW k \in Jobs PROVE JobInv(k)'
  <2>1. /\ JobInv(k) /\ Pending(k)' = {} /\ job'[k] = Nothing /\ runner'[k] = "none"
        /\ \A e \in Entries(k)' : e = Nothing \/ e = record[k]
    BY <1>1 DEF IInv, Pending, Entries
  <2>2. WholeEntries(k)'
    BY <1>3, <2>1 DEF JobInv, WholeEntries, Entries
  <2>3. Unheard(k)'
    BY <1>1, <1>2, <2>1 DEF JobInv, Unheard
  <2>4. Followed(k)' /\ RecordFirst(k)' /\ AsRecorded(k)' /\ AtRest(k)' /\ NotFinished(k)'
    BY <1>1, <2>1 DEF Followed, RecordFirst, AsRecorded, AtRest, NotFinished
  <2>5. Told(k)'
    BY <1>1, <1>2, <2>1 DEF JobInv, Told
  <2>6. HasOutput(k)'
    BY <1>1, <1>2, <1>3, <2>1 DEF JobInv, HasOutput, Entries
  <2>7. OwnsOutput(k)' /\ AwaitsAnswer(k)'
    BY <1>1, <1>4 DEF OwnsOutput, AwaitsAnswer
  <2> QED BY <2>2, <2>3, <2>4, <2>5, <2>6, <2>7 DEF JobInv
<1> QED BY <1>5, <1>6 DEF IInv

\* restore turns what had not finished into a failure, and nothing else.
LEMMA RestoreFacts ==
    ASSUME NEW e \in Entry, Sound(e)
    PROVE  /\ Restore(e) \in Entry /\ Sound(Restore(e)) /\ Restore(Restore(e)) = Restore(e)
           /\ Restore(e) = Nothing <=> e = Nothing
           /\ Restore(e).status = "succeeded" <=> e.status = "succeeded"
<1>1. CASE e.status \in Unfinished
  BY <1>1 DEF Restore, Entry, Sound, Nothing, Unfinished, Finished
<1>2. CASE e.status \notin Unfinished
  BY <1>2 DEF Restore
<1> QED BY <1>1, <1>2

\* What the invariant says of a job while the server is not serving.
LEMMA RestFacts ==
    ASSUME IInv, ~Serving, NEW k \in Jobs
    PROVE  /\ JobInv(k) /\ runner[k] = "none" /\ Pending(k) = {} /\ crashes # 0
           /\ record[k] \in Entry /\ Sound(record[k])
<1>1. JobInv(k) /\ TypeOK /\ Restarted
  BY DEF IInv
<1>2. record[k] \in Entry /\ record[k] \in Entries(k) /\ crashes \in Nat
  BY <1>1 DEF TypeOK, Entries
<1> QED BY <1>1, <1>2 DEF JobInv, AtRest, Restarted, WholeEntries

\* The server opens: it reads the records.
LEMMA OpenInv ==
    ASSUME IInv, Open
    PROVE  IInv'
<1>1. /\ up = "down" /\ up' = "opening" /\ ~Serving /\ TypeOK
      /\ job' = [j \in Jobs |-> Restore(record[j])]
      /\ UNCHANGED <<record, write, file, runner, ctx, backend, fate, kind, crashes>>
  BY DEF Open, Serving, IInv
<1>2. \A k \in Jobs : Restore(record[k]) \in Entry
  BY <1>1, RestFacts, RestoreFacts
<1>3. TypeOK' /\ Restarted'
  BY <1>1, <1>2 DEF IInv, TypeOK, Restarted
<1>4. ASSUME NEW k \in Jobs PROVE JobInv(k)'
  <2>1. /\ JobInv(k) /\ runner'[k] = "none" /\ Pending(k)' = {} /\ crashes' # 0
        /\ record'[k] = record[k] /\ Sound(record[k]) /\ job'[k] = Restore(record[k])
    BY <1>1, RestFacts DEF Pending
  <2>2. /\ Sound(job'[k]) /\ (job'[k] = Nothing <=> record[k] = Nothing)
        /\ job'[k].status = "succeeded" <=> record[k].status = "succeeded"
    BY <1>1, <2>1, RestFacts, RestoreFacts
  <2>3. Entries(k)' = {job'[k], record[k]} /\ record[k] \in Entries(k)
    BY <2>1 DEF Entries
  <2>4. WholeEntries(k)' /\ Followed(k)' /\ RecordFirst(k)' /\ AsRecorded(k)' /\ AtRest(k)'
    BY <1>1, <2>1, <2>2, <2>3 DEF WholeEntries, Followed, RecordFirst, AsRecorded, AtRest
  <2>5. Unheard(k)' /\ Told(k)'
    BY <1>1, <2>1, <2>2 DEF JobInv, Unheard, Told
  <2>6. NotFinished(k)' /\ OwnsOutput(k)' /\ AwaitsAnswer(k)'
    BY <1>1, <2>1 DEF JobInv, NotFinished, OwnsOutput, AwaitsAnswer
  <2>7. HasOutput(k)'
    BY <1>1, <2>1, <2>2, <2>3 DEF JobInv, HasOutput
  <2> QED BY <2>4, <2>5, <2>6, <2>7 DEF JobInv
<1> QED BY <1>3, <1>4 DEF IInv

\* What was restored is saved, job by job.
LEMMA OpenSaveInv ==
    ASSUME IInv, NEW j \in Jobs, OpenSave(j)
    PROVE  IInv'
<1>1. /\ up = "opening" /\ ~Serving /\ TypeOK
      /\ record' = [record EXCEPT ![j] = job[j]]
      /\ UNCHANGED <<up, job, write, file, runner, ctx, backend, fate, kind, crashes>>
  BY DEF OpenSave, Serving, IInv
<1>2. TypeOK'
  BY <1>1 DEF TypeOK
<1>3. /\ record'[j] = job[j] /\ \A k \in Jobs \ {j} : record'[k] = record[k]
      /\ \A k \in Jobs : Pending(k)' = Pending(k)
  BY <1>1 DEF TypeOK, Pending
<1>4. JobInv(j)'
  <2>1. /\ JobInv(j) /\ runner[j] = "none" /\ Pending(j) = {} /\ job[j] = Restore(record[j])
        /\ record[j] \in Entry /\ Sound(record[j])
    BY <1>1, RestFacts DEF JobInv, AsRecorded
  <2>2. /\ Restore(job[j]) = job[j] /\ Sound(job[j])
        /\ (job[j] = Nothing <=> record[j] = Nothing)
        /\ job[j].status = "succeeded" <=> record[j].status = "succeeded"
    BY <2>1, RestoreFacts
  <2>3. Entries(j)' = {job[j]} /\ job[j] \in Entries(j)
    BY <1>1, <1>3, <2>1 DEF Entries
  <2>4. WholeEntries(j)' /\ Followed(j)' /\ RecordFirst(j)' /\ AsRecorded(j)' /\ AtRest(j)'
    BY <1>1, <1>3, <2>1, <2>2, <2>3 DEF WholeEntries, Followed, RecordFirst, AsRecorded, AtRest
  <2>5. Unheard(j)' /\ Told(j)'
    BY <1>1, <1>3, <2>1, <2>2 DEF JobInv, Unheard, Told
  <2>6. NotFinished(j)' /\ OwnsOutput(j)' /\ AwaitsAnswer(j)'
    BY <1>1, <2>1 DEF JobInv, NotFinished, OwnsOutput, AwaitsAnswer
  <2>7. HasOutput(j)'
    BY <1>1, <2>1, <2>3 DEF JobInv, HasOutput
  <2> QED BY <2>4, <2>5, <2>6, <2>7 DEF JobInv
<1> QED BY <1>1, <1>2, <1>3, <1>4, OneJobKept DEF OthersStored

\* The server is up again, with every record as memory says.
LEMMA OpenedInv ==
    ASSUME IInv, Opened
    PROVE  IInv'
<1>1. /\ up = "opening" /\ up' = "up" /\ ~Serving /\ record = job
      /\ UNCHANGED <<job, record, write, file, runner, ctx, backend, fate, kind, crashes>>
  BY DEF Opened, Serving
<1>2. TypeOK' /\ Restarted'
  BY <1>1 DEF IInv, TypeOK, Restarted, Serving
<1>3. ASSUME NEW k \in Jobs PROVE JobInv(k)'
  <2>1. /\ JobInv(k) /\ runner'[k] = "none" /\ Pending(k)' = {} /\ Pending(k) = {}
        /\ Entries(k)' = Entries(k)
    BY <1>1, RestFacts DEF Pending, Entries
  <2>2. WholeEntries(k)' /\ Unheard(k)' /\ Followed(k)' /\ RecordFirst(k)' /\ Told(k)'
    BY <1>1, <2>1 DEF JobInv, WholeEntries, Unheard, Followed, RecordFirst, Told
  <2>3. AsRecorded(k)' /\ AtRest(k)' /\ NotFinished(k)' /\ OwnsOutput(k)' /\ AwaitsAnswer(k)'
    BY <1>1, <2>1 DEF JobInv, AsRecorded, AtRest, Serving, NotFinished, OwnsOutput, AwaitsAnswer
  <2>4. HasOutput(k)'
    BY <1>1, <2>1 DEF JobInv, HasOutput
  <2> QED BY <2>2, <2>3, <2>4 DEF JobInv
<1> QED BY <1>2, <1>3 DEF IInv

-----------------------------------------------------------------------------
\* At the start there is no job.
LEMMA InitInv == Init => IInv
<1> SUFFICES ASSUME Init PROVE IInv
  OBVIOUS
<1>1. Nothing \in Entry /\ Sound(Nothing) /\ Nothing.status = "none"
  BY DEF Nothing, Entry, Sound
<1>2. TypeOK /\ Restarted
  BY <1>1, KindsAssumption DEF Init, TypeOK, Restarted, Serving
<1>3. ASSUME NEW k \in Jobs PROVE JobInv(k)
  <2>1. /\ Pending(k) = {} /\ job[k] = Nothing /\ record[k] = Nothing /\ Entries(k) = {Nothing}
        /\ runner[k] = "none" /\ fate[k] = "new" /\ file = {} /\ backend = {} /\ up = "up"
    BY DEF Init, Pending, Entries
  <2>2. WholeEntries(k) /\ Unheard(k) /\ Followed(k) /\ RecordFirst(k) /\ Told(k)
    BY <1>1, <2>1 DEF WholeEntries, Unheard, Followed, RecordFirst, Told
  <2>3. AsRecorded(k) /\ AtRest(k) /\ NotFinished(k) /\ HasOutput(k) /\ OwnsOutput(k) /\ AwaitsAnswer(k)
    BY <1>1, <2>1 DEF AsRecorded, AtRest, Serving, NotFinished, HasOutput, OwnsOutput, AwaitsAnswer
  <2> QED BY <2>2, <2>3 DEF JobInv
<1> QED BY <1>2, <1>3 DEF IInv

\* Every step keeps the invariant.
LEMMA NextInv == IInv /\ [Next]_vars => IInv'
<1> SUFFICES ASSUME IInv, [Next]_vars PROVE IInv'
  OBVIOUS
<1>1. ASSUME NEW j \in Jobs, RunnerStep(j) PROVE IInv'
  BY <1>1, RunnerInv
<1>2. ASSUME NEW j \in Jobs, ClientStep(j) PROVE IInv'
  <2>1. CASE Submit(j) \/ Accept(j) \/ Cancel(j)
    BY <2>1, SubmitInv, AcceptInv, CancelInv
  <2>2. CASE CancelContext(j)
    BY <2>2, NothingInv DEF CancelContext, IInv, TypeOK
  <2>3. CASE Remove(j) \/ PruneOrphan(j) \/ CrashInRemove(j)
    BY <2>3, RemoveInv, PruneInv, DownInv
  <2> QED BY <1>2, <2>1, <2>2, <2>3 DEF ClientStep
<1>3. ASSUME NEW j \in Jobs, BackendDone(j) \/ OpenSave(j) PROVE IInv'
  BY <1>3, BackendDoneInv, OpenSaveInv
<1>4. CASE Land \/ Close \/ Crash \/ Open \/ Opened
  BY <1>4, LandInv, CloseInv, DownInv, OpenInv, OpenedInv
<1>5. CASE UNCHANGED vars
  BY <1>5, NothingInv DEF vars, IInv, TypeOK
<1> QED BY <1>1, <1>2, <1>3, <1>4, <1>5 DEF Next

\* The inductive invariant holds in every state of the store.
THEOREM Invariant == Spec => []IInv
  BY InitInv, NextInv, PTL DEF Spec

\* Every variable keeps its type, and in particular at most one record is
\* being written at a time.
THEOREM TypeCorrect == Spec => []TypeOK
<1>1. IInv => TypeOK
  BY DEF IInv
<1> QED BY <1>1, Invariant, PTL

-----------------------------------------------------------------------------
(* What the store promises.                                                *)

\* What the invariant says of a job's entry in memory.
LEMMA EntryFacts ==
    ASSUME IInv, NEW j \in Jobs
    PROVE  /\ JobInv(j) /\ job[j] \in Entry /\ job[j] \in Entries(j)
           /\ Sound(job[j]) /\ (job[j].status = "none" <=> job[j] = Nothing)
<1>1. JobInv(j) /\ job[j] \in Entry /\ job[j] \in Entries(j)
  BY DEF IInv, TypeOK, Entries
<1>2. Sound(job[j])
  BY <1>1 DEF JobInv, WholeEntries
<1> QED BY <1>1, <1>2 DEF Sound, Nothing

\* While the server is up and no record is being written, a crash loses
\* nothing of what memory says (jobStore.update and saveLocked).
THEOREM RecordsAreCurrent == Spec => []RecordsCurrent
<1>1. IInv => RecordsCurrent
  <2> SUFFICES ASSUME IInv, up = "up", write = {}, NEW j \in Jobs, job[j] # Nothing
               PROVE  /\ record[j].status = job[j].status
                      /\ job[j].status = "succeeded" => record[j].path
    BY DEF RecordsCurrent
  <2>1. Pending(j) = {} /\ record[j] \in Entries(j)
    BY DEF Pending, Entries
  <2>2. record[j].status = job[j].status
    BY <2>1 DEF IInv, JobInv, Followed
  <2>3. Sound(record[j])
    BY <2>1 DEF IInv, JobInv, WholeEntries
  <2> QED BY <2>2, <2>3 DEF Sound
<1> QED BY <1>1, Invariant, PTL

\* A job that a client was told of survives every crash until it is deleted,
\* and one that shows succeeded has its output file (add, finish and open).
THEOREM ClientsAreServed == Spec => []KeptForClients
<1>1. IInv => AcceptedKept
  BY DEF IInv, JobInv, Told, AcceptedKept, Serving
<1>2. IInv => SucceededHasOutput
  BY EntryFacts DEF JobInv, HasOutput, SucceededHasOutput
<1> QED BY <1>1, <1>2, Invariant, PTL DEF KeptForClients

\* Before the first crash every output file is some job's or in some goroutine's
\* hands, and sd-server never works on an image without its turn on the GPU
\* (the last lines of runImageJob, and the deferred ticket.Done).
THEOREM NoStrays == Spec => []NothingStray
<1>1. IInv => NoLeak
  BY DEF IInv, TypeOK, JobInv, OwnsOutput, NoLeak
<1>2. IInv => BookedWhileBusy
  BY DEF IInv, TypeOK, JobInv, AwaitsAnswer, BookedWhileBusy, Holding
<1> QED BY <1>1, <1>2, Invariant, PTL DEF NothingStray

-----------------------------------------------------------------------------
(* A finished job keeps its status.                                        *)

Settled(k) == job[k].status \in Finished => job'[k].status \in {job[k].status, "none"}

AllSettled == \A k \in Jobs : Settled(k)

\* update leaves a finished job finished, if its new entry does.
LEMMA UpdateSettles ==
    ASSUME TypeOK, NEW j \in Jobs, NEW e, NEW by, Update(j, e, by),
           job[j].status \in Finished => e.status = job[j].status
    PROVE  AllSettled
<1>1. job' = job \/ job' = [job EXCEPT ![j] = e]
  BY DEF Update
<1> QED BY <1>1 DEF TypeOK, AllSettled, Settled

\* The goroutine of a job writes over no final status.
LEMMA RunnerSettles ==
    ASSUME IInv, NEW j \in Jobs, RunnerStep(j)
    PROVE  AllSettled
<1>1. CASE UNCHANGED Stored
  BY <1>1 DEF Stored, AllSettled, Settled
<1>2. CASE BackendStarts(j) \/ Send(j)
  <2>1. /\ TypeOK /\ Update(j, Started(j), "runner")
        /\ job[j].status \notin {"succeeded", "failed"}
    BY <1>2 DEF BackendStarts, Send, RunnerMove, IInv, JobInv, NotFinished
  <2>2. job[j].status \in Finished => Started(j).status = job[j].status
    BY <2>1 DEF Started, Finished
  <2> QED BY <2>1, <2>2, UpdateSettles
<1>3. CASE Attach(j)
  <2>1. TypeOK /\ Update(j, [job[j] EXCEPT !.path = TRUE], "runner")
    BY <1>3 DEF Attach, IInv
  <2>2. [job[j] EXCEPT !.path = TRUE].status = job[j].status
    BY <2>1 DEF TypeOK, Entry
  <2> QED BY <2>1, <2>2, UpdateSettles
<1>4. ASSUME NEW at, Finish(j, at) PROVE AllSettled
  <2>1. CASE job[j].status = "cancelled"
    BY <1>1, <1>4, <2>1 DEF Finish
  <2>2. CASE job[j].status # "cancelled"
    <3>1. PICK e : Update(j, e, "runner")
      BY <1>4, <2>2 DEF Finish
    <3>2. job[j].status \notin Finished
      BY <1>4, <2>2 DEF Finish, RunnerMove, IInv, JobInv, NotFinished, Finished
    <3> QED BY <3>1, <3>2, UpdateSettles DEF IInv
  <2> QED BY <2>1, <2>2
<1>5. CASE \/ TurnGiven(j) \/ Leave(j) \/ BackendRuns(j) \/ BackendReady(j)
           \/ BackendNotReady(j) \/ Post(j) \/ PostCut(j) \/ Answered(j) \/ Abandon(j)
           \/ Keep(j) \/ WriteOutput(j) \/ Discard(j) \/ Release(j)
  BY <1>1, <1>5 DEF TurnGiven, Leave, BackendRuns, BackendReady, BackendNotReady, Post,
     PostCut, Answered, Abandon, Keep, WriteOutput, Discard, Release
<1> QED BY <1>2, <1>3, <1>4, <1>5 DEF RunnerStep

\* Clients cancel only what is not finished, and remove the rest.
LEMMA ClientSettles ==
    ASSUME IInv, NEW j \in Jobs, ClientStep(j)
    PROVE  AllSettled
<1>1. TypeOK /\ Nothing.status = "none"
  BY DEF IInv, Nothing
<1>2. CASE Submit(j)
  <2>1. PICK e : job' = [job EXCEPT ![j] = e]
    BY <1>2 DEF Submit
  <2>2. job[j].status = "none"
    BY <1>1, <1>2 DEF Submit, IInv, JobInv, Unheard
  <2> QED BY <1>1, <2>1, <2>2 DEF TypeOK, AllSettled, Settled, Finished
<1>3. CASE Cancel(j)
  <2>1. job[j].status \notin Finished
    BY <1>3 DEF Cancel, Unfinished, Finished
  <2> QED BY <1>1, <1>3, <2>1, UpdateSettles DEF Cancel
<1>4. CASE Remove(j)
  BY <1>1, <1>4 DEF Remove, TypeOK, AllSettled, Settled
<1>5. CASE CrashInRemove(j)
  BY <1>1, <1>5 DEF CrashInRemove, Down, AllSettled, Settled
<1>6. CASE Accept(j) \/ CancelContext(j) \/ PruneOrphan(j)
  BY <1>6 DEF Accept, CancelContext, PruneOrphan, AllSettled, Settled
<1> QED BY <1>2, <1>3, <1>4, <1>5, <1>6 DEF ClientStep

\* A late result revives no cancelled job, a cancel undoes no result, and a
\* server that opens begins from nothing (finish, cancelJob and open).
THEOREM FinishedIsFinal == Spec => FinishedFinal
<1>1. IInv /\ [Next]_vars => [AllSettled]_vars
  <2> SUFFICES ASSUME IInv, Next PROVE AllSettled
    OBVIOUS
  <2>1. ASSUME NEW j \in Jobs, RunnerStep(j) \/ ClientStep(j) PROVE AllSettled
    BY <2>1, RunnerSettles, ClientSettles
  <2>2. ASSUME NEW j \in Jobs, BackendDone(j) \/ OpenSave(j) PROVE AllSettled
    BY <2>2 DEF BackendDone, OpenSave, AllSettled, Settled
  <2>3. CASE Land \/ Close \/ Opened
    BY <2>3 DEF Land, Close, Opened, AllSettled, Settled
  <2>4. CASE Crash
    BY <2>4 DEF Crash, Down, Nothing, AllSettled, Settled
  <2>5. CASE Open
    BY <2>5 DEF Open, IInv, JobInv, AtRest, Nothing, Finished, AllSettled, Settled
  <2> QED BY <2>1, <2>2, <2>3, <2>4, <2>5 DEF Next
<1>2. [AllSettled]_vars => [\A j \in Jobs :
        job[j].status \in Finished => job'[j].status \in {job[j].status, "none"}]_vars
  BY DEF AllSettled, Settled
<1> QED BY <1>1, <1>2, Invariant, PTL DEF Spec, FinishedFinal
=============================================================================
