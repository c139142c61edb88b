--------------------------- MODULE BenchJobProofs ---------------------------
(***************************************************************************)
(* Proofs about BenchJob: what is measured is what the cell asks for,      *)
(* nothing of a job outlives it, and the router is given back, for any     *)
(* builds, settings, jobs and retries.                                     *)
(***************************************************************************)
EXTENDS BenchJob, TLAPS

-----------------------------------------------------------------------------
(* The invariant.                                                          *)

\* The goroutine of a job is in a cell, or at its loop over the cells.
AtCell == pc \in InCell \/ then \in {"ensured", "applied"}

Looping == pc = "next" \/ AtCell

\* Where the goroutine is, and what it holds there.
Control ==
    /\ current <=> pc # "idle"
    /\ then # "none" <=> pc \in InRestart
    /\ AtCell => at <= Len(cells) /\ here.status = "running"
    /\ claimed => pc \in {"apply", "measure", "evalStop", "evalKill", "eval"} \/ then = "applied"
    /\ kept => current
    /\ then \in {"ensured", "applied"} => env.owns
    /\ pc = "evalKill" => env.stopped
    /\ pc \in {"idle", "begin", "end"} \/ then = "restored" => env = NoJob

\* A build that one of the cells cs had, up to the n-th, which the job is at;
\* and one that a cell still to be measured has.
Met(cs, n, b) == \E i \in DOMAIN cs : i <= n /\ cs[i].build = b

Ahead(cs, n, b) == \E i \in DOMAIN cs : n <= i /\ cs[i].build = b

\* What the job believes of builds and settings, which is right for the cells
\* ahead.
Beliefs ==
    /\ BuildsInTurn(cells)
    /\ Looping /\ prevBuild # None =>
          Met(cells, at, prevBuild) /\ (Ahead(cells, at, prevBuild) => env.build = prevBuild)
    /\ Looping /\ applied # NotApplied =>
          Met(cells, at, applied.build)
          /\ (Ahead(cells, at, applied.build) => prevBuild = applied.build)
    /\ pc \in {"check", "ensure"} \/ then = "ensured" => here.build # prevBuild
    /\ pc = "ensure" => ~here.eval
    /\ pc \in {"claim", "apply", "measure"} \/ then = "applied" =>
          here.eval \/ (prevBuild = here.build /\ env.build = here.build)
    /\ pc \in {"apply", "measure"} \/ then \in {"applied", "ensured"} => ~here.eval
    /\ pc = "apply" \/ then = "applied" => here.start # Own
    /\ then = "applied" => env.config = here.start
    /\ then = "ensured" => env.build = here.build
    /\ pc = "measure" /\ here.start # Own => applied = Want(here)

\* The router runs what was applied last, as long as a cell ahead may rely on
\* it, and what it was started with for a restart.
Served == mishaps \cap {"raced", "failed", "cut"} = {} /\ router.state # "down" =>
    /\ Looping /\ applied # NotApplied /\ Ahead(cells, at, applied.build)
       /\ ~(pc = "wait" /\ then = "applied")
          => router.build = applied.build /\ router.config = applied.start
    /\ pc = "wait" => router.build = Options.build /\ router.config = Options.config

\* A router on anything but the user's build and settings is the job's, or
\* about to be stopped for the user's.
Foreign == "cut" \notin mishaps /\ router.state # "down" /\ ~Users(router) =>
    /\ router.state = "starting" => pc = "wait"
    /\ env.owns \/ (then = "restored" /\ pc \in {"stop", "stopping"})

\* A router that ran for the user when the job was submitted runs, unless the
\* job has stopped it and will start it.
Steady == current /\ before /\ mishaps = {} =>
    /\ router.state = "down" => env.stopped \/ pc = "start" \/ (then = "restored" /\ pc = "stop")
    /\ router.state = "starting" => pc = "wait"
    /\ pc = "start" => router.state = "down"
    /\ pc \in {"stopping", "evalKill"} => router.state = "up"
    /\ pc = "wait" => router.state # "down"

IInv == TypeOK /\ Control /\ Beliefs /\ Served /\ Foreign /\ Steady

-----------------------------------------------------------------------------
(* Cells and the builds of a job.                                          *)

\* Two lists of cells that differ in the cells' status only.
Alike(cs, ds) ==
    /\ cs \in Seq(Cell) /\ ds \in Seq(Cell)
    /\ Len(ds) = Len(cs) /\ DOMAIN ds = DOMAIN cs
    /\ \A i \in DOMAIN cs : /\ ds[i].build = cs[i].build
                            /\ ds[i].start = cs[i].start
                            /\ ds[i].eval = cs[i].eval

Statuses == {"pending", "running", "completed", "failed", "skipped"}

\* What EndCell and NextCell do to the cells: one gets a new status.
LEMMA StatusFacts ==
    ASSUME NEW cs \in Seq(Cell), NEW i \in DOMAIN cs, NEW s \in Statuses
    PROVE  LET ds == [cs EXCEPT ![i].status = s]
           IN  /\ Alike(cs, ds)
               /\ ds[i].status = s
               /\ \A k \in DOMAIN cs : k # i => ds[k] = cs[k]
<1> DEFINE ds == [cs EXCEPT ![i].status = s]
<1>1. Len(cs) \in Nat /\ DOMAIN cs = 1..Len(cs) /\ \A k \in DOMAIN cs : cs[k] \in Cell
  OBVIOUS
<1>2. DOMAIN ds = DOMAIN cs /\ \A k \in DOMAIN cs : k # i => ds[k] = cs[k]
  OBVIOUS
<1>3. ds[i] = [cs[i] EXCEPT !.status = s]
  OBVIOUS
<1>4. /\ ds[i] \in Cell /\ ds[i].status = s /\ ds[i].build = cs[i].build
      /\ ds[i].start = cs[i].start /\ ds[i].eval = cs[i].eval
  BY <1>1, <1>3 DEF Cell, Statuses
<1> HIDE DEF ds
<1>5. \A k \in 1..Len(cs) : ds[k] \in Cell
  BY <1>1, <1>2, <1>4
<1>6. ds \in Seq(Cell) /\ Len(ds) = Len(cs)
  <2>1. ds = [k \in 1..Len(cs) |-> ds[k]]
    BY <1>1, <1>2 DEF ds
  <2>2. ds \in [1..Len(cs) -> Cell]
    BY <1>5, <2>1
  <2> QED BY <1>1, <1>2, <2>2
<1>7. Alike(cs, ds)
  BY <1>2, <1>4, <1>6 DEF Alike
<1> QED BY <1>2, <1>4, <1>7 DEF ds

\* What RetryFailed does to the cells: failed ones are pending again.
LEMMA RetryFacts ==
    ASSUME NEW cs \in Seq(Cell)
    PROVE  LET ds == [i \in DOMAIN cs |->
                         IF cs[i].status = "failed" THEN [cs[i] EXCEPT !.status = "pending"]
                         ELSE cs[i]]
           IN  /\ Alike(cs, ds)
               /\ \A k \in DOMAIN cs : cs[k].status = "completed" => ds[k] = cs[k]
<1> DEFINE d(i) == IF cs[i].status = "failed" THEN [cs[i] EXCEPT !.status = "pending"] ELSE cs[i]
           ds == [i \in DOMAIN cs |-> d(i)]
<1>1. Len(cs) \in Nat /\ DOMAIN cs = 1..Len(cs) /\ \A k \in DOMAIN cs : cs[k] \in Cell
  OBVIOUS
<1>2. ASSUME NEW k \in DOMAIN cs
      PROVE  /\ d(k) \in Cell /\ d(k).build = cs[k].build
             /\ d(k).start = cs[k].start /\ d(k).eval = cs[k].eval
             /\ cs[k].status = "completed" => d(k) = cs[k]
  <2>1. CASE cs[k].status = "failed"
    BY <1>1, <2>1 DEF Cell
  <2>2. CASE cs[k].status # "failed"
    BY <1>1, <2>2
  <2> QED BY <2>1, <2>2
<1> HIDE DEF d
<1>3. ds \in Seq(Cell) /\ Len(ds) = Len(cs) /\ DOMAIN ds = DOMAIN cs
  <2>1. ds \in [1..Len(cs) -> Cell]
    BY <1>1, <1>2
  <2> QED BY <1>1, <2>1
<1>4. \A k \in DOMAIN cs : ds[k] = d(k)
  OBVIOUS
<1>5. Alike(cs, ds) /\ \A k \in DOMAIN cs : cs[k].status = "completed" => ds[k] = cs[k]
  <2> HIDE DEF ds
  <2> QED BY <1>2, <1>3, <1>4 DEF Alike
<1> QED BY <1>5 DEF ds, d

\* A job's builds stay in turn whatever becomes of its cells.
LEMMA AlikeInTurn ==
    ASSUME NEW cs, NEW ds, Alike(cs, ds), BuildsInTurn(cs)
    PROVE  BuildsInTurn(ds)
BY DEF Alike, BuildsInTurn

\* What was met stays met and what is ahead was ahead before, when the job
\* goes on in the same cells.
LEMMA GoingOn ==
    ASSUME NEW cs \in Seq(Cell), NEW ds, Alike(cs, ds) \/ ds = cs,
           NEW n \in Nat, NEW m \in Nat, n <= m
    PROVE  \A b : (Met(cs, n, b) => Met(ds, m, b)) /\ (Ahead(ds, m, b) => Ahead(cs, n, b))
<1>1. \A i \in DOMAIN cs : i \in Nat
  OBVIOUS
<1>2. DOMAIN ds = DOMAIN cs /\ \A i \in DOMAIN cs : ds[i].build = cs[i].build
  BY DEF Alike
<1> QED BY <1>1, <1>2 DEF Met, Ahead

\* A build that a job has met and that is not its cell's is not ahead.
LEMMA DoneWithBuild ==
    ASSUME NEW cs \in Seq(Cell), BuildsInTurn(cs), NEW n \in DOMAIN cs, NEW b,
           Met(cs, n, b), cs[n].build # b
    PROVE  ~Ahead(cs, n, b)
<1> SUFFICES ASSUME Ahead(cs, n, b) PROVE FALSE
  OBVIOUS
<1>1. PICK i \in DOMAIN cs : i <= n /\ cs[i].build = b
  BY DEF Met
<1>2. PICK m \in DOMAIN cs : n <= m /\ cs[m].build = b
  BY DEF Ahead
<1>3. i < n /\ n < m
  BY <1>1, <1>2
<1> QED BY <1>1, <1>2, <1>3 DEF BuildsInTurn

\* The cell that a job is at is among those met and those ahead.
LEMMA HereFacts ==
    ASSUME NEW cs \in Seq(Cell), NEW n \in DOMAIN cs
    PROVE  Met(cs, n, cs[n].build) /\ Ahead(cs, n, cs[n].build) /\ cs[n] \in Cell
BY DEF Met, Ahead

-----------------------------------------------------------------------------
(* A cell ends, and a restart of the router ends.                          *)

\* What is known of the job in a cell.
LEMMA InACell ==
    ASSUME IInv, AtCell
    PROVE  /\ cells \in Seq(Cell) /\ at \in DOMAIN cells /\ at \in Nat /\ at + 1 \in Nat
           /\ at + 1 \in 1..(Len(cells) + 1)
           /\ here \in Cell /\ here.status = "running" /\ here.build # None
           /\ Met(cells, at, here.build) /\ Ahead(cells, at, here.build)
           /\ pc \notin {"idle", "begin", "next", "restore", "end"} /\ then # "restored" /\ current
<1>1. cells \in Seq(Cell) /\ at \in 1..(Len(cells) + 1) /\ at <= Len(cells) /\ here.status = "running"
  BY DEF IInv, TypeOK, Control
<1>2. at \in DOMAIN cells /\ at \in Nat /\ at + 1 \in Nat /\ at + 1 \in 1..(Len(cells) + 1)
  BY <1>1
<1>3. Met(cells, at, here.build) /\ Ahead(cells, at, here.build) /\ here \in Cell
  BY <1>1, <1>2, HereFacts DEF here
<1>4. here.build # None
  BY <1>3, BenchAssumption DEF Cell
<1>5. pc \notin {"idle", "begin", "next", "restore", "end"} /\ then # "restored" /\ current
  BY DEF IInv, Control, AtCell, InCell, InRestart
<1> QED BY <1>1, <1>2, <1>3, <1>4, <1>5

\* EndCell keeps the invariant wherever it is called: a start that went wrong
\* is on record, and a wait ends with the router stopped or is cut short.
LEMMA EndCellKeeps ==
    ASSUME IInv, AtCell, NEW result \in Statuses, EndCell(result), UNCHANGED <<env, router>>,
           mishaps \subseteq mishaps', mishaps' \subseteq mishaps \cup {"failed", "cut"},
           pc = "start" => "failed" \in mishaps',
           pc = "wait" => router.state = "down" \/ "cut" \in mishaps'
    PROVE  IInv'
<1>1. /\ cells \in Seq(Cell) /\ at \in DOMAIN cells /\ at \in Nat /\ at + 1 \in Nat
      /\ at + 1 \in 1..(Len(cells) + 1) /\ then # "restored" /\ current
  BY InACell
<1>2. /\ Alike(cells, cells') /\ at' = at + 1
      /\ pc' = "next" /\ then' = "none" /\ claimed' = FALSE
      /\ prevBuild' \in {None, prevBuild} /\ applied' \in {NotApplied, applied}
      /\ prevBuild' = prevBuild \/ applied' = NotApplied
      /\ UNCHANGED <<status, current, cancelled, kept, client, before, runs, env, router>>
  BY <1>1, StatusFacts DEF EndCell
<1>3. \A b : /\ Met(cells, at, b) => Met(cells', at', b)
             /\ Ahead(cells', at', b) => Ahead(cells, at, b)
  BY <1>1, <1>2, GoingOn
<1>4. Looping /\ Looping'
  BY <1>2 DEF Looping
<1>5. TypeOK'
  <2>1. at' \in 1..(Len(cells') + 1) /\ cells' \in Seq(Cell)
    BY <1>1, <1>2 DEF Alike
  <2>2. applied' \in [build : Builds \cup {None}, start : Settings \cup {Own, None}]
    BY <1>2 DEF IInv, TypeOK, NotApplied
  <2>3. mishaps' \subseteq {"raced", "stopped", "exited", "failed", "cut"}
    BY DEF IInv, TypeOK
  <2> QED BY <1>2, <2>1, <2>2, <2>3 DEF IInv, TypeOK
<1>6. Control'
  BY <1>1, <1>2 DEF IInv, Control, AtCell, InCell, InRestart
<1>7. Beliefs'
  <2>1. BuildsInTurn(cells')
    BY <1>2, AlikeInTurn DEF IInv, Beliefs
  <2>2. prevBuild' # None => /\ Met(cells', at', prevBuild')
                             /\ Ahead(cells', at', prevBuild') => env'.build = prevBuild'
    BY <1>2, <1>3, <1>4 DEF IInv, Beliefs
  <2>3. applied' # NotApplied => /\ Met(cells', at', applied'.build)
                                 /\ Ahead(cells', at', applied'.build) => prevBuild' = applied'.build
    BY <1>2, <1>3, <1>4 DEF IInv, Beliefs
  <2> QED BY <1>2, <2>1, <2>2, <2>3 DEF Beliefs
<1>8. Served'
  <2> SUFFICES ASSUME mishaps' \cap {"raced", "failed", "cut"} = {}, router'.state # "down",
                      applied' # NotApplied, Ahead(cells', at', applied'.build)
               PROVE  router'.build = applied'.build /\ router'.config = applied'.start
    BY <1>2 DEF Served
  <2>1. mishaps \cap {"raced", "failed", "cut"} = {} /\ router.state # "down" /\ pc # "wait"
    BY <1>2
  <2>2. applied' = applied /\ applied # NotApplied /\ Ahead(cells, at, applied.build)
    BY <1>2, <1>3
  <2> QED BY <1>2, <1>4, <2>1, <2>2 DEF IInv, Served
<1>9. Foreign'
  <2> SUFFICES ASSUME "cut" \notin mishaps', router'.state # "down", ~Users(router')
               PROVE  router'.state # "starting" /\ env'.owns
    BY DEF Foreign
  <2>1. "cut" \notin mishaps /\ router.state # "down" /\ ~Users(router) /\ pc # "wait"
    BY <1>2
  <2> QED BY <1>1, <1>2, <2>1 DEF IInv, Foreign
<1>10. Steady'
  <2> SUFFICES ASSUME before', mishaps' = {}
               PROVE  (router'.state = "down" => env'.stopped) /\ router'.state # "starting"
    BY <1>2 DEF Steady
  <2>1. before /\ mishaps = {} /\ pc # "start" /\ (pc = "wait" => router.state = "down")
    BY <1>2
  <2> QED BY <1>1, <1>2, <2>1 DEF IInv, Steady
<1> QED BY <1>5, <1>6, <1>7, <1>8, <1>9, <1>10 DEF IInv

\* Between the builds and settings that a cell needs and those believed to be
\* served: what was applied on another build is not ahead.
LEMMA NewBuild ==
    ASSUME IInv, AtCell, here.build # prevBuild
    PROVE  /\ prevBuild # None => ~Ahead(cells, at, prevBuild)
           /\ applied # NotApplied => ~Ahead(cells, at, applied.build)
<1>1. cells \in Seq(Cell) /\ at \in DOMAIN cells /\ BuildsInTurn(cells) /\ Looping
  BY InACell DEF IInv, Beliefs, Looping
<1>2. ASSUME prevBuild # None PROVE ~Ahead(cells, at, prevBuild)
  <2>1. Met(cells, at, prevBuild)
    BY <1>1, <1>2 DEF IInv, Beliefs
  <2> QED BY <1>1, <2>1, DoneWithBuild DEF here
<1>3. ASSUME applied # NotApplied PROVE ~Ahead(cells, at, applied.build)
  <2>1. /\ Met(cells, at, applied.build)
        /\ Ahead(cells, at, applied.build) => prevBuild = applied.build
    BY <1>1, <1>3 DEF IInv, Beliefs
  <2>2. CASE here.build # applied.build
    BY <1>1, <2>1, <2>2, DoneWithBuild DEF here
  <2>3. CASE here.build = applied.build
    BY <2>1, <2>3
  <2> QED BY <2>2, <2>3
<1> QED BY <1>2, <1>3

\* Whatever becomes of a restart, for a cell or at the end of the job.
LEMMA RestartEndsKeeps ==
    ASSUME IInv, pc \in {"stopping", "start", "wait"}, NEW ok \in BOOLEAN, RestartEnds(ok),
           UNCHANGED router,
           mishaps \subseteq mishaps', mishaps' \subseteq mishaps \cup {"failed", "cut"},
           pc = "stopping" => router.state = "down",
           pc = "start" => "failed" \in mishaps',
           ok => pc = "wait" /\ router.state = "up",
           pc = "wait" /\ ~ok => router.state = "down" \/ "cut" \in mishaps'
    PROVE  IInv'
<1>1. then \in {"ensured", "applied", "restored"}
  BY DEF IInv, TypeOK, Control, InRestart
<1>2. CASE then = "restored"
  <2>1. env = NoJob /\ current /\ ~claimed /\ ~AtCell
    BY <1>2 DEF IInv, Control, AtCell, InCell
  <2>2. env' = NoJob
    <3>1. env' = [env EXCEPT !.owns = FALSE]
      BY <1>2 DEF RestartEnds
    <3> QED BY <2>1, <3>1 DEF NoJob
  <2>3. /\ pc' = "end" /\ then' = "none"
        /\ UNCHANGED <<status, cells, current, cancelled, at, prevBuild, applied, claimed, kept,
                       client, before, runs>>
    BY <1>2 DEF RestartEnds, jobVars, gpuVars
  <2>4. TypeOK'
    <3>1. NoJob \in [build : Builds \cup {None}, config : Settings \cup {None},
                     owns : BOOLEAN, stopped : BOOLEAN]
      BY DEF NoJob
    <3>2. mishaps' \subseteq {"raced", "stopped", "exited", "failed", "cut"}
      BY DEF IInv, TypeOK
    <3> QED BY <2>2, <2>3, <3>1, <3>2 DEF IInv, TypeOK
  <2>5. Control'
    BY <2>1, <2>2, <2>3 DEF IInv, Control, AtCell, InCell, InRestart
  <2>6. Beliefs' /\ Served'
    BY <2>3 DEF IInv, Beliefs, Served, Looping, AtCell, InCell
  <2>7. Foreign'
    BY <1>2, <2>1, <2>3 DEF IInv, Foreign, NoJob
  <2>8. Steady'
    <3> SUFFICES ASSUME before', mishaps' = {}
                 PROVE  (router'.state = "down" => env'.stopped) /\ router'.state # "starting"
      BY <2>3 DEF Steady
    <3>1. before /\ mishaps = {} /\ pc # "start"
      BY <2>3
    <3> QED BY <2>1, <2>2, <2>3, <3>1 DEF IInv, Steady
  <2> QED BY <2>4, <2>5, <2>6, <2>7, <2>8 DEF IInv
<1>3. CASE then # "restored" /\ ~ok
  <2>1. EndCell("failed") /\ UNCHANGED env
    BY <1>1, <1>3 DEF RestartEnds
  <2>2. AtCell /\ "failed" \in Statuses
    BY <1>1, <1>3 DEF AtCell, Statuses
  <2> QED BY <1>3, <2>1, <2>2, EndCellKeeps
<1>4. CASE then = "ensured" /\ ok
  <2>1. /\ prevBuild' = here.build
        /\ pc' = "claim" /\ then' = "none"
        /\ UNCHANGED <<status, cells, current, cancelled, at, applied, env, claimed, kept, client,
                       before, runs, router>>
    BY <1>4 DEF RestartEnds, gpuVars
  <2>2. AtCell /\ Looping /\ AtCell' /\ pc = "wait" /\ router.state = "up" /\ here' = here
    BY <1>4, <2>1 DEF AtCell, Looping, InCell, here
  <2>3. /\ cells \in Seq(Cell) /\ at \in DOMAIN cells
        /\ here \in Cell /\ here.build # None
        /\ Met(cells, at, here.build) /\ Ahead(cells, at, here.build)
    BY <2>2, InACell
  <2>4. here.build # prevBuild /\ env.build = here.build
    BY <1>4 DEF IInv, Beliefs
  <2>5. applied # NotApplied => ~Ahead(cells, at, applied.build)
    BY <2>2, <2>4, NewBuild
  <2>6. TypeOK'
    <3>1. here.build \in Builds
      BY <2>3 DEF Cell
    <3>2. mishaps' \subseteq {"raced", "stopped", "exited", "failed", "cut"}
      BY DEF IInv, TypeOK
    <3> QED BY <2>1, <3>1, <3>2 DEF IInv, TypeOK, InCell
  <2>7. Control'
    BY <1>4, <2>1, <2>2 DEF IInv, Control, AtCell, InCell, InRestart
  <2>8. Beliefs'
    BY <2>1, <2>2, <2>3, <2>4, <2>5 DEF IInv, Beliefs
  <2>9. Served'
    BY <2>1, <2>5 DEF Served
  <2>10. Foreign'
    BY <1>4, <2>1, <2>2 DEF IInv, Foreign
  <2>11. Steady'
    <3> SUFFICES ASSUME before', mishaps' = {} PROVE router'.state = "up"
      BY <2>1 DEF Steady
    <3> QED BY <2>1, <2>2
  <2> QED BY <2>6, <2>7, <2>8, <2>9, <2>10, <2>11 DEF IInv
<1>5. CASE then = "applied" /\ ok
  <2>1. /\ applied' = Want(here)
        /\ pc' = "measure" /\ then' = "none"
        /\ UNCHANGED <<status, cells, current, cancelled, at, prevBuild, env, claimed, kept, client,
                       before, runs, router>>
    BY <1>5 DEF RestartEnds, gpuVars
  <2>2. AtCell /\ Looping /\ AtCell' /\ pc = "wait" /\ router.state = "up" /\ here' = here
    BY <1>5, <2>1 DEF AtCell, Looping, InCell, here
  <2>3. /\ cells \in Seq(Cell) /\ at \in DOMAIN cells
        /\ here \in Cell /\ here.build # None
        /\ Met(cells, at, here.build) /\ Ahead(cells, at, here.build)
    BY <2>2, InACell
  <2>4. /\ prevBuild = here.build /\ env.build = here.build /\ ~here.eval
        /\ here.start # Own /\ env.config = here.start
    BY <1>5 DEF IInv, Beliefs
  <2>5. /\ here.build \in Builds /\ here.start \in Settings
        /\ applied'.build = here.build /\ applied'.start = here.start
    BY <2>1, <2>3, <2>4 DEF Cell, Want
  <2>6. TypeOK'
    <3>1. applied' \in [build : Builds \cup {None}, start : Settings \cup {Own, None}]
      BY <2>1, <2>5 DEF Want
    <3>2. mishaps' \subseteq {"raced", "stopped", "exited", "failed", "cut"}
      BY DEF IInv, TypeOK
    <3> QED BY <2>1, <3>1, <3>2 DEF IInv, TypeOK, InCell
  <2>7. Control'
    BY <1>5, <2>1, <2>2 DEF IInv, Control, AtCell, InCell, InRestart
  <2>8. Beliefs'
    <3>1. Want(here') = Want(here)
      BY <2>2
    <3> QED BY <2>1, <2>2, <2>3, <2>4, <2>5, <3>1 DEF IInv, Beliefs
  <2>9. Served'
    <3> SUFFICES ASSUME mishaps' \cap {"raced", "failed", "cut"} = {}
                 PROVE  router.build = here.build /\ router.config = here.start
      BY <2>1, <2>5 DEF Served
    <3>1. router.build = Options.build /\ router.config = Options.config
      BY <2>2 DEF IInv, Served
    <3>2. Options.build = env.build /\ Options.config = env.config
      BY <2>4, <2>5, BenchAssumption DEF Options
    <3> QED BY <2>4, <3>1, <3>2
  <2>10. Foreign'
    BY <1>5, <2>1, <2>2 DEF IInv, Foreign
  <2>11. Steady'
    <3> SUFFICES ASSUME before', mishaps' = {} PROVE router'.state = "up"
      BY <2>1 DEF Steady
    <3> QED BY <2>1, <2>2
  <2> QED BY <2>6, <2>7, <2>8, <2>9, <2>10, <2>11 DEF IInv
<1> QED BY <1>1, <1>2, <1>3, <1>4, <1>5

-----------------------------------------------------------------------------
(* The steps keep the invariant: the queue and the loop over the cells.    *)

\* Submit and RetryFailed.
LEMMA BegunKeeps ==
    ASSUME IInv, Submit \/ RetryFailed
    PROVE  IInv'
<1>1. /\ ~current /\ runs.jobs + runs.retries < MaxRuns
      /\ status' = "pending" /\ current' = TRUE /\ cancelled' = FALSE
      /\ pc' = "begin" /\ at' = 1
      /\ runs' \in {[runs EXCEPT !.jobs = @ + 1], [runs EXCEPT !.retries = @ + 1]}
      /\ before' = (router.state = "up" /\ Users(router))
      /\ UNCHANGED <<then, prevBuild, applied, env, claimed, kept, router, client, mishaps>>
  BY DEF Submit, RetryFailed, Begun, gpuVars
<1>2. cells' \in Seq(Cell) /\ BuildsInTurn(cells')
  <2>1. CASE Submit
    BY <2>1, PlansAssumption DEF Submit, Begun
  <2>2. CASE RetryFailed
    <3>1. cells \in Seq(Cell) /\ BuildsInTurn(cells)
      BY DEF IInv, TypeOK, Beliefs
    <3>2. Alike(cells, cells')
      BY <2>2, <3>1, RetryFacts DEF RetryFailed, Begun
    <3> QED BY <3>1, <3>2, AlikeInTurn DEF Alike
  <2> QED BY <2>1, <2>2
<1>3. pc = "idle" /\ then = "none" /\ env = NoJob /\ ~claimed /\ ~kept
  BY <1>1 DEF IInv, Control, InRestart
<1>4. TypeOK'
  <2>1. at' \in 1..(Len(cells') + 1)
    BY <1>1, <1>2
  <2>2. before' \in BOOLEAN
    BY <1>1 DEF Users
  <2>3. runs' \in [jobs : 0..MaxRuns, retries : 0..MaxRuns]
    BY <1>1, BenchAssumption DEF IInv, TypeOK
  <2>4. {current', cancelled', claimed', kept', before'} \subseteq BOOLEAN
    <3>1. current' = TRUE /\ cancelled' = FALSE /\ claimed' = claimed /\ kept' = kept
      BY <1>1
    <3> QED BY <2>2, <3>1 DEF IInv, TypeOK
  <2>5. UNCHANGED <<then, prevBuild, applied, env, router, client, mishaps>>
        /\ status' = "pending" /\ pc' = "begin"
    BY <1>1
  <2> QED BY <1>2, <2>1, <2>3, <2>4, <2>5 DEF IInv, TypeOK
<1>5. Control'
  BY <1>1, <1>3 DEF Control, AtCell, InCell, InRestart
<1>6. Beliefs' /\ Served'
  BY <1>1, <1>2, <1>3 DEF Beliefs, Served, Looping, AtCell, InCell
<1>7. Foreign'
  BY <1>1, <1>3 DEF IInv, Foreign, NoJob
<1>8. Steady'
  BY <1>1, <1>3 DEF Steady
<1> QED BY <1>4, <1>5, <1>6, <1>7, <1>8 DEF IInv

LEMMA BeginKeeps ==
    ASSUME IInv, Begin
    PROVE  IInv'
<1>1. /\ pc = "begin" /\ pc' = "next" /\ at' = 1
      /\ status' = "running" /\ prevBuild' = None /\ applied' = NotApplied
      /\ UNCHANGED <<cells, current, cancelled, then, env, claimed, kept, router, client, before,
                     mishaps, runs>>
  BY DEF Begin, gpuVars, history
<1>2. then = "none" /\ cells \in Seq(Cell)
  BY <1>1 DEF IInv, TypeOK, Control, InRestart
<1>3. TypeOK'
  <2>1. at' \in 1..(Len(cells') + 1)
    BY <1>1, <1>2
  <2>2. applied' \in [build : Builds \cup {None}, start : Settings \cup {Own, None}]
    BY <1>1 DEF NotApplied
  <2> QED BY <1>1, <2>1, <2>2 DEF IInv, TypeOK
<1>4. Control' /\ Beliefs' /\ Served' /\ Foreign' /\ Steady'
  BY <1>1, <1>2 DEF IInv, Control, Beliefs, Served, Foreign, Steady, AtCell, InCell, InRestart
<1> QED BY <1>3, <1>4 DEF IInv

LEMMA NextCellKeeps ==
    ASSUME IInv, NextCell
    PROVE  IInv'
<1>1. /\ pc = "next" /\ at <= Len(cells)
      /\ UNCHANGED <<status, current, cancelled, prevBuild, applied, then, env, claimed, kept,
                     router, client, before, mishaps, runs>>
  BY DEF NextCell, gpuVars, history
<1>2. /\ then = "none" /\ cells \in Seq(Cell) /\ at \in DOMAIN cells
      /\ at \in Nat /\ at + 1 \in Nat /\ at + 1 \in 1..(Len(cells) + 1)
      /\ at \in 1..(Len(cells) + 1) /\ Looping
  BY <1>1 DEF IInv, TypeOK, Control, InRestart, Looping
<1>3. CASE SkipCompleted \/ SkipCancelled
  <2>1. pc' = "next" /\ at' = at + 1 /\ (Alike(cells, cells') \/ cells' = cells) /\ cells' \in Seq(Cell)
    <3>1. CASE SkipCompleted
      BY <1>1, <1>2, <3>1 DEF SkipCompleted
    <3>2. CASE SkipCancelled
      <4>1. Alike(cells, cells')
        BY <1>2, <3>2, StatusFacts DEF SkipCancelled, Statuses
      <4> QED BY <1>1, <3>2, <4>1 DEF SkipCancelled, Alike
    <3> QED BY <1>3, <3>1, <3>2
  <2>2. \A b : /\ Met(cells, at, b) => Met(cells', at', b)
               /\ Ahead(cells', at', b) => Ahead(cells, at, b)
    BY <1>2, <2>1, GoingOn
  <2>3. TypeOK'
    <3>1. at' \in 1..(Len(cells') + 1)
      BY <1>2, <2>1 DEF Alike
    <3> QED BY <1>1, <2>1, <3>1 DEF IInv, TypeOK
  <2>4. Control'
    BY <1>1, <1>2, <2>1 DEF IInv, Control, AtCell, InCell, InRestart
  <2>5. Beliefs'
    <3>1. BuildsInTurn(cells')
      BY <2>1, AlikeInTurn DEF IInv, Beliefs
    <3> QED BY <1>1, <1>2, <2>1, <2>2, <3>1 DEF IInv, Beliefs
  <2>6. Served'
    BY <1>1, <1>2, <2>1, <2>2 DEF IInv, Served
  <2>7. Foreign' /\ Steady'
    BY <1>1, <1>2, <2>1 DEF IInv, Foreign, Steady
  <2> QED BY <2>3, <2>4, <2>5, <2>6, <2>7 DEF IInv
<1>4. CASE RunCell
  <2>1. /\ Alike(cells, cells') /\ cells'[at].status = "running" /\ at' = at
        /\ pc' = IF here.build # prevBuild THEN "check" ELSE "claim"
    BY <1>2, <1>4, StatusFacts DEF RunCell, Statuses
  <2>2. \A b : /\ Met(cells, at, b) => Met(cells', at', b)
               /\ Ahead(cells', at', b) => Ahead(cells, at, b)
    BY <1>2, <2>1, GoingOn
  <2>3. /\ Len(cells') = Len(cells) /\ cells' \in Seq(Cell)
        /\ here'.build = here.build /\ here'.status = "running"
        /\ here \in Cell /\ Ahead(cells, at, here.build)
    BY <1>2, <2>1, HereFacts DEF Alike, here
  <2>4. TypeOK'
    BY <1>1, <2>1, <2>3 DEF IInv, TypeOK, InCell
  <2>5. Control'
    BY <1>1, <1>2, <2>1, <2>3 DEF IInv, Control, InCell, InRestart, AtCell
  <2>6. Beliefs'
    <3>1. BuildsInTurn(cells')
      BY <2>1, AlikeInTurn DEF IInv, Beliefs
    <3>2. pc' = "check" => here'.build # prevBuild'
      BY <1>1, <2>1, <2>3
    <3>3. pc' = "claim" => prevBuild' = here'.build /\ env'.build = here'.build
      <4> SUFFICES ASSUME here.build = prevBuild PROVE env.build = here.build
        BY <1>1, <2>1, <2>3
      <4>1. prevBuild # None
        BY <2>3, BenchAssumption DEF Cell
      <4> QED BY <1>2, <2>3, <4>1 DEF IInv, Beliefs
    <3>4. prevBuild' # None => /\ Met(cells', at', prevBuild')
                               /\ Ahead(cells', at', prevBuild') => env'.build = prevBuild'
      BY <1>1, <1>2, <2>2 DEF IInv, Beliefs
    <3>5. applied' # NotApplied => /\ Met(cells', at', applied'.build)
                                   /\ Ahead(cells', at', applied'.build) => prevBuild' = applied'.build
      BY <1>1, <1>2, <2>2 DEF IInv, Beliefs
    <3>6. pc' \in {"check", "claim"} /\ then' = "none"
      BY <1>1, <1>2, <2>1
    <3> QED BY <3>1, <3>2, <3>3, <3>4, <3>5, <3>6 DEF Beliefs
  <2>7. Served'
    BY <1>1, <1>2, <2>1, <2>2 DEF IInv, Served
  <2>8. Foreign' /\ Steady'
    BY <1>1, <1>2, <2>1 DEF IInv, Foreign, Steady
  <2> QED BY <2>4, <2>5, <2>6, <2>7, <2>8 DEF IInv
<1> QED BY <1>3, <1>4 DEF NextCell

LEMMA LastCellKeeps ==
    ASSUME IInv, LastCell
    PROVE  IInv'
<1>1. /\ pc = "next" /\ pc' = "restore" /\ status' \in JobDone
      /\ UNCHANGED <<cells, current, cancelled, at, prevBuild, applied, then, env, claimed, kept,
                     router, client, before, mishaps, runs>>
  BY DEF LastCell, gpuVars, history, JobDone
<1>2. then = "none"
  BY <1>1 DEF IInv, Control, InRestart
<1>3. TypeOK'
  BY <1>1 DEF IInv, TypeOK
<1>4. Control' /\ Beliefs' /\ Served' /\ Foreign' /\ Steady'
  BY <1>1, <1>2 DEF IInv, Control, Beliefs, Served, Foreign, Steady, Looping, AtCell, InCell, InRestart
<1> QED BY <1>3, <1>4 DEF IInv

-----------------------------------------------------------------------------
(* The steps keep the invariant: in a cell.                                *)

LEMMA CheckBuildKeeps ==
    ASSUME IInv, CheckBuild
    PROVE  IInv'
<1>1. pc = "check" /\ AtCell /\ then = "none"
  BY DEF CheckBuild, IInv, Control, AtCell, InCell, InRestart
<1>2. CASE EndCell("failed") /\ UNCHANGED <<mishaps, env, router>>
  BY <1>1, <1>2, EndCellKeeps DEF Statuses
<1>3. CASE /\ pc' = IF here.eval THEN "claim" ELSE "ensure"
           /\ UNCHANGED <<jobVars, then, gpuVars, client, history, env, router>>
  <2>1. /\ pc' = IF here.eval THEN "claim" ELSE "ensure"
        /\ UNCHANGED <<status, cells, current, cancelled, at, prevBuild, applied, then, env, claimed,
                       kept, router, client, before, mishaps, runs>>
    BY <1>3 DEF jobVars, gpuVars, history
  <2>2. here' = here /\ AtCell' /\ Looping /\ (pc' = "claim" => here.eval) /\ (pc' = "ensure" => ~here.eval)
        /\ pc' \in {"claim", "ensure"}
    BY <1>1, <2>1 DEF here, AtCell, Looping, InCell
  <2>3. TypeOK' /\ Control' /\ Beliefs' /\ Served' /\ Foreign' /\ Steady'
    <3>1. TypeOK'
      BY <2>1, <2>2 DEF IInv, TypeOK, InCell
    <3>2. Control'
      BY <1>1, <2>1, <2>2 DEF IInv, Control, AtCell, InCell, InRestart
    <3>3. Beliefs'
      BY <1>1, <2>1, <2>2 DEF IInv, Beliefs
    <3>4. Served'
      BY <1>1, <2>1, <2>2 DEF IInv, Served
    <3>5. Foreign' /\ Steady'
      BY <1>1, <2>1, <2>2 DEF IInv, Foreign, Steady
    <3> QED BY <3>1, <3>2, <3>3, <3>4, <3>5
  <2> QED BY <2>3 DEF IInv
<1> QED BY <1>2, <1>3 DEF CheckBuild

LEMMA EnsureBuildActiveKeeps ==
    ASSUME IInv, EnsureBuildActive
    PROVE  IInv'
<1>1. /\ pc = "ensure"
      /\ UNCHANGED <<status, cells, current, cancelled, at, applied, claimed, kept, router, client,
                     before, mishaps, runs>>
  BY DEF EnsureBuildActive, gpuVars, history
<1>2. /\ then = "none" /\ AtCell /\ Looping /\ here' = here
      /\ here.build # prevBuild /\ ~here.eval
  BY <1>1 DEF IInv, Control, Beliefs, AtCell, Looping, InCell, InRestart, here
<1>3. /\ here.build \in Builds /\ here.build # None
      /\ Met(cells, at, here.build) /\ Ahead(cells, at, here.build)
  BY <1>2, InACell DEF Cell
<1>4. /\ prevBuild # None => ~Ahead(cells, at, prevBuild)
      /\ applied # NotApplied => ~Ahead(cells, at, applied.build)
  BY <1>2, NewBuild
<1>5. env \in [build : Builds \cup {None}, config : Settings \cup {None},
               owns : BOOLEAN, stopped : BOOLEAN]
  BY DEF IInv, TypeOK
<1>6. CASE /\ env' = [env EXCEPT !.build = here.build]
           /\ prevBuild' = here.build
           /\ pc' = "claim" /\ then' = then
  <2>1. /\ env' \in [build : Builds \cup {None}, config : Settings \cup {None},
                     owns : BOOLEAN, stopped : BOOLEAN]
        /\ env'.build = here.build /\ env'.owns = env.owns /\ env'.stopped = env.stopped
    BY <1>3, <1>5, <1>6
  <2>2. TypeOK'
    BY <1>1, <1>3, <1>6, <2>1 DEF IInv, TypeOK, InCell
  <2>3. Control'
    BY <1>1, <1>2, <1>6, <2>1 DEF IInv, Control, AtCell, InCell, InRestart
  <2>4. Beliefs'
    BY <1>1, <1>2, <1>3, <1>4, <1>6, <2>1 DEF IInv, Beliefs
  <2>5. Served'
    BY <1>1, <1>2, <1>4, <1>6 DEF Served
  <2>6. Foreign' /\ Steady'
    BY <1>1, <1>2, <1>6, <2>1 DEF IInv, Foreign, Steady
  <2> QED BY <2>2, <2>3, <2>4, <2>5, <2>6 DEF IInv
<1>7. CASE /\ env' = [env EXCEPT !.build = here.build, !.owns = TRUE]
           /\ pc' = "stop" /\ then' = "ensured"
           /\ prevBuild' = prevBuild
  <2>1. /\ env' \in [build : Builds \cup {None}, config : Settings \cup {None},
                     owns : BOOLEAN, stopped : BOOLEAN]
        /\ env'.build = here.build /\ env'.owns = TRUE /\ env'.stopped = env.stopped
    BY <1>3, <1>5, <1>7
  <2>2. TypeOK'
    BY <1>1, <1>7, <2>1 DEF IInv, TypeOK, InRestart
  <2>3. Control'
    BY <1>1, <1>2, <1>7, <2>1 DEF IInv, Control, AtCell, InCell, InRestart
  <2>4. Beliefs'
    BY <1>1, <1>2, <1>3, <1>4, <1>7, <2>1 DEF IInv, Beliefs
  <2>5. Served'
    BY <1>1, <1>2, <1>4, <1>7 DEF Served
  <2>6. Foreign' /\ Steady'
    BY <1>1, <1>2, <1>7, <2>1 DEF IInv, Foreign, Steady
  <2> QED BY <2>2, <2>3, <2>4, <2>5, <2>6 DEF IInv
<1> QED BY <1>6, <1>7 DEF EnsureBuildActive

LEMMA ClaimGPUsKeeps ==
    ASSUME IInv, ClaimGPUs
    PROVE  IInv'
<1>1. pc = "claim" /\ AtCell /\ Looping /\ then = "none"
  BY DEF ClaimGPUs, IInv, Control, AtCell, Looping, InCell, InRestart
<1>2. CASE EndCell("failed") /\ UNCHANGED <<mishaps, env, router>>
  BY <1>1, <1>2, EndCellKeeps DEF Statuses
<1>3. CASE /\ claimed' = TRUE /\ kept' = TRUE
           /\ pc' = IF here.eval THEN "evalStop"
                    ELSE IF here.start # Own /\ applied # Want(here) THEN "apply"
                    ELSE "measure"
           /\ UNCHANGED <<jobVars, then, client, history, env, router>>
  <2>1. /\ claimed' = TRUE /\ kept' = TRUE
        /\ UNCHANGED <<status, cells, current, cancelled, at, prevBuild, applied, then, env,
                       router, client, before, mishaps, runs>>
    BY <1>3 DEF jobVars, history
  <2>2. /\ here' = here /\ Want(here') = Want(here) /\ AtCell'
        /\ pc' \in {"evalStop", "apply", "measure"}
        /\ pc' \in {"apply", "measure"} => ~here.eval
        /\ pc' = "apply" => here.start # Own
        /\ pc' = "measure" /\ here.start # Own => applied = Want(here)
    BY <1>1, <1>3, <2>1 DEF here, AtCell, InCell
  <2>3. TypeOK'
    BY <2>1, <2>2 DEF IInv, TypeOK, InCell
  <2>4. Control'
    BY <1>1, <2>1, <2>2 DEF IInv, Control, AtCell, InCell, InRestart
  <2>5. Beliefs'
    BY <1>1, <2>1, <2>2 DEF IInv, Beliefs
  <2>6. Served'
    BY <1>1, <2>1, <2>2 DEF IInv, Served
  <2>7. Foreign' /\ Steady'
    BY <1>1, <2>1, <2>2 DEF IInv, Foreign, Steady
  <2> QED BY <2>3, <2>4, <2>5, <2>6, <2>7 DEF IInv
<1> QED BY <1>2, <1>3 DEF ClaimGPUs

LEMMA ApplyEphemeralConfigKeeps ==
    ASSUME IInv, ApplyEphemeralConfig
    PROVE  IInv'
<1>1. pc = "apply" /\ AtCell /\ Looping /\ then = "none"
  BY DEF ApplyEphemeralConfig, IInv, Control, AtCell, Looping, InCell, InRestart
<1>2. CASE EndCell("failed") /\ UNCHANGED <<env, mishaps, router>>
  BY <1>1, <1>2, EndCellKeeps DEF Statuses
<1>3. CASE /\ env' = [env EXCEPT !.config = here.start, !.owns = TRUE]
           /\ pc' = "stop" /\ then' = "applied"
           /\ UNCHANGED <<jobVars, gpuVars, client, history, router>>
  <2>1. /\ pc' = "stop" /\ then' = "applied"
        /\ UNCHANGED <<status, cells, current, cancelled, at, prevBuild, applied, claimed, kept,
                       router, client, before, mishaps, runs>>
    BY <1>3 DEF jobVars, gpuVars, history
  <2>2. here.start \in Settings /\ here.start # Own
    BY <1>1, InACell DEF IInv, Beliefs, Cell
  <2>3. /\ env' \in [build : Builds \cup {None}, config : Settings \cup {None},
                     owns : BOOLEAN, stopped : BOOLEAN]
        /\ env'.build = env.build /\ env'.config = here.start
        /\ env'.owns = TRUE /\ env'.stopped = env.stopped
    BY <1>3, <2>2 DEF IInv, TypeOK
  <2>4. here' = here /\ AtCell' /\ Looping'
    BY <2>1 DEF here, AtCell, Looping
  <2>5. TypeOK'
    BY <2>1, <2>3 DEF IInv, TypeOK, InRestart
  <2>6. Control'
    BY <1>1, <2>1, <2>3, <2>4 DEF IInv, Control, AtCell, InCell, InRestart
  <2>7. Beliefs'
    BY <1>1, <2>1, <2>2, <2>3, <2>4 DEF IInv, Beliefs
  <2>8. Served'
    BY <1>1, <2>1, <2>4 DEF IInv, Served
  <2>9. Foreign' /\ Steady'
    BY <1>1, <2>1, <2>3 DEF IInv, Foreign, Steady
  <2> QED BY <2>5, <2>6, <2>7, <2>8, <2>9 DEF IInv
<1> QED BY <1>2, <1>3 DEF ApplyEphemeralConfig

LEMMA MeasureKeeps ==
    ASSUME IInv, Measure
    PROVE  IInv'
<1>1. pc = "measure" /\ AtCell
  BY DEF Measure, AtCell, InCell
<1>2. \E result \in {"completed", "failed"} : EndCell(result)
  BY DEF Measure
<1> QED BY <1>1, <1>2, EndCellKeeps DEF Measure, Statuses

LEMMA StopForEvalKeeps ==
    ASSUME IInv, StopForEval
    PROVE  IInv'
<1>1. pc = "evalStop" /\ then = "none" /\ AtCell /\ Looping /\ router' = router
  BY DEF StopForEval, IInv, Control, AtCell, Looping, InCell, InRestart
<1>2. CASE EndCell("failed") /\ UNCHANGED <<env, mishaps>>
  BY <1>1, <1>2, EndCellKeeps DEF Statuses
<1>3. CASE /\ IF env.stopped \/ router.state # "up"
                THEN pc' = "eval" /\ UNCHANGED env
                ELSE pc' = "evalKill" /\ env' = [env EXCEPT !.stopped = TRUE, !.owns = TRUE]
           /\ UNCHANGED <<jobVars, then, gpuVars, client, history>>
  <2>1. UNCHANGED <<status, cells, current, cancelled, at, prevBuild, applied, then, claimed, kept,
                    router, client, before, mishaps, runs>>
    BY <1>1, <1>3 DEF jobVars, gpuVars, history
  <2>2. env \in [build : Builds \cup {None}, config : Settings \cup {None},
                 owns : BOOLEAN, stopped : BOOLEAN]
    BY DEF IInv, TypeOK
  <2>3. /\ env' \in [build : Builds \cup {None}, config : Settings \cup {None},
                     owns : BOOLEAN, stopped : BOOLEAN]
        /\ env'.build = env.build
        /\ env.owns => env'.owns
        /\ env.stopped => env'.stopped
        /\ pc' \in {"eval", "evalKill"}
        /\ pc' = "evalKill" => env'.stopped /\ router.state = "up"
    <3>1. CASE env.stopped \/ router.state # "up"
      BY <1>3, <2>2, <3>1
    <3>2. CASE ~(env.stopped \/ router.state # "up")
      BY <1>3, <2>2, <3>2
    <3> QED BY <3>1, <3>2
  <2>4. TypeOK'
    BY <2>1, <2>3 DEF IInv, TypeOK, InCell
  <2>5. Control'
    <3>1. here' = here
      BY <2>1 DEF here
    <3> QED BY <1>1, <2>1, <2>3, <3>1 DEF IInv, Control, AtCell, InCell, InRestart
  <2>6. Beliefs'
    BY <1>1, <2>1, <2>3 DEF IInv, Beliefs
  <2>7. Served'
    BY <1>1, <2>1, <2>3 DEF IInv, Served
  <2>8. Foreign' /\ Steady'
    BY <1>1, <2>1, <2>3 DEF IInv, Foreign, Steady
  <2> QED BY <2>4, <2>5, <2>6, <2>7, <2>8 DEF IInv
<1> QED BY <1>2, <1>3 DEF StopForEval

LEMMA KillForEvalKeeps ==
    ASSUME IInv, KillForEval
    PROVE  IInv'
<1>1. pc = "evalKill" /\ AtCell /\ Looping /\ then = "none" /\ UNCHANGED <<env, mishaps>>
  BY DEF KillForEval, IInv, Control, AtCell, Looping, InCell, InRestart
<1>2. CASE router.state = "down"
  <2>1. EndCell("failed") /\ UNCHANGED router
    BY <1>2 DEF KillForEval
  <2> QED BY <1>1, <2>1, EndCellKeeps DEF Statuses
<1>3. CASE router.state # "down"
  <2>1. /\ router' = [router EXCEPT !.state = "down"] /\ pc' = "eval"
        /\ UNCHANGED <<status, cells, current, cancelled, at, prevBuild, applied, then, claimed,
                       kept, client, before, runs>>
    BY <1>3 DEF KillForEval, jobVars, gpuVars
  <2>2. /\ router' \in [state : {"down", "starting", "up"}, build : Builds,
                        config : Settings \cup {Own}]
        /\ router'.state = "down"
    BY <2>1 DEF IInv, TypeOK
  <2>3. TypeOK'
    BY <1>1, <2>1, <2>2 DEF IInv, TypeOK, InCell
  <2>4. Control'
    <3>1. here' = here
      BY <2>1 DEF here
    <3> QED BY <1>1, <2>1, <3>1 DEF IInv, Control, AtCell, InCell, InRestart
  <2>5. Beliefs'
    BY <1>1, <2>1 DEF IInv, Beliefs
  <2>6. Served' /\ Foreign'
    BY <2>2 DEF Served, Foreign
  <2>7. Steady'
    BY <1>1, <2>1, <2>2 DEF IInv, Control, Steady
  <2> QED BY <2>3, <2>4, <2>5, <2>6, <2>7 DEF IInv
<1> QED BY <1>2, <1>3

LEMMA EvaluateKeeps ==
    ASSUME IInv, Evaluate
    PROVE  IInv'
<1>1. pc = "eval" /\ AtCell
  BY DEF Evaluate, AtCell, InCell
<1> QED BY <1>1, EndCellKeeps DEF Evaluate, Statuses

-----------------------------------------------------------------------------
(* The steps keep the invariant: restarts and the end of the job.          *)

LEMMA RestartLooksKeeps ==
    ASSUME IInv, RestartLooks
    PROVE  IInv'
<1>1. /\ pc = "stop" /\ then # "none"
      /\ pc' = IF router.state = "up" THEN "stopping" ELSE "start"
      /\ UNCHANGED <<status, cells, current, cancelled, at, prevBuild, applied, then, env, claimed,
                     kept, router, client, before, mishaps, runs>>
  BY DEF RestartLooks, IInv, Control, InRestart, jobVars, gpuVars, history
<1>2. /\ here' = here /\ AtCell' = AtCell /\ Looping' = Looping
      /\ pc' \in {"stopping", "start"}
      /\ pc' = "stopping" <=> router.state = "up"
      /\ router.state \in {"down", "starting", "up"}
  BY <1>1 DEF IInv, TypeOK, here, AtCell, Looping, InCell
<1>3. TypeOK'
  BY <1>1, <1>2 DEF IInv, TypeOK, InRestart
<1>4. Control'
  BY <1>1, <1>2 DEF IInv, Control, InCell, InRestart
<1>5. Beliefs'
  BY <1>1, <1>2 DEF IInv, Beliefs
<1>6. Served'
  BY <1>1, <1>2 DEF IInv, Served
<1>7. Foreign'
  BY <1>1, <1>2 DEF IInv, Foreign
<1>8. Steady'
  BY <1>1, <1>2 DEF IInv, Steady
<1> QED BY <1>3, <1>4, <1>5, <1>6, <1>7, <1>8 DEF IInv

LEMMA RestartStopsKeeps ==
    ASSUME IInv, RestartStops
    PROVE  IInv'
<1>1. pc = "stopping" /\ then # "none" /\ UNCHANGED mishaps
  BY DEF RestartStops, IInv, Control, InRestart
<1>2. CASE router.state = "down"
  <2>1. RestartEnds(FALSE) /\ UNCHANGED router
    BY <1>2 DEF RestartStops
  <2> QED BY <1>1, <1>2, <2>1, RestartEndsKeeps
<1>3. CASE router.state # "down"
  <2>1. /\ router' = [router EXCEPT !.state = "down"] /\ pc' = "start"
        /\ UNCHANGED <<status, cells, current, cancelled, at, prevBuild, applied, then, env, claimed,
                       kept, client, before, mishaps, runs>>
    BY <1>1, <1>3 DEF RestartStops, jobVars, gpuVars
  <2>2. /\ router' \in [state : {"down", "starting", "up"}, build : Builds,
                        config : Settings \cup {Own}]
        /\ router'.state = "down"
    BY <2>1 DEF IInv, TypeOK
  <2>3. here' = here /\ AtCell' = AtCell /\ Looping' = Looping
    BY <1>1, <2>1 DEF here, AtCell, Looping, InCell
  <2>4. TypeOK'
    BY <1>1, <2>1, <2>2 DEF IInv, TypeOK, InRestart
  <2>5. Control'
    BY <1>1, <2>1, <2>3 DEF IInv, Control, InCell, InRestart
  <2>6. Beliefs'
    BY <1>1, <2>1, <2>3 DEF IInv, Beliefs
  <2>7. Served' /\ Foreign' /\ Steady'
    BY <2>1, <2>2 DEF Served, Foreign, Steady
  <2> QED BY <2>4, <2>5, <2>6, <2>7 DEF IInv
<1> QED BY <1>2, <1>3

\* What the router is started with.
LEMMA OptionsFacts ==
    ASSUME IInv
    PROVE  /\ Options \in [state : {"down", "starting", "up"}, build : Builds,
                           config : Settings \cup {Own}]
           /\ Options.state = "starting"
           /\ env = NoJob => Users(Options)
<1> DEFINE b == IF env.build = None THEN UserBuild ELSE env.build
           c == IF env.config = None THEN Own ELSE env.config
<1>1. b \in Builds /\ c \in Settings \cup {Own}
  BY BenchAssumption DEF IInv, TypeOK
<1>2. env = NoJob => b = UserBuild /\ c = Own
  BY DEF NoJob
<1>3. Options = [state |-> "starting", build |-> b, config |-> c]
  BY DEF Options
<1> HIDE DEF b, c
<1> QED BY <1>1, <1>2, <1>3 DEF Users

LEMMA RestartStartsKeeps ==
    ASSUME IInv, RestartStarts
    PROVE  IInv'
<1>1. pc = "start" /\ then # "none"
  BY DEF RestartStarts, IInv, Control, InRestart
<1>2. CASE /\ RestartEnds(FALSE)
           /\ mishaps' = mishaps \cup {"failed"}
           /\ UNCHANGED router
  BY <1>1, <1>2, RestartEndsKeeps
<1>3. CASE /\ router.state = "down"
           /\ router' = Options
           /\ pc' = "wait"
           /\ UNCHANGED <<jobVars, then, env, gpuVars, client, history>>
  <2>1. /\ router' = Options /\ pc' = "wait"
        /\ UNCHANGED <<status, cells, current, cancelled, at, prevBuild, applied, then, env, claimed,
                       kept, client, before, mishaps, runs>>
    BY <1>3 DEF jobVars, gpuVars, history
  <2>2. /\ here' = here /\ AtCell' = AtCell /\ Looping' = Looping /\ Options' = Options
        /\ then \in {"ensured", "applied", "restored"}
    BY <1>1, <2>1 DEF IInv, TypeOK, here, AtCell, Looping, InCell, Options
  <2>3. /\ router' \in [state : {"down", "starting", "up"}, build : Builds,
                        config : Settings \cup {Own}]
        /\ router'.state = "starting"
        /\ env = NoJob => Users(router')
    BY <2>1, OptionsFacts
  <2>4. TypeOK'
    BY <1>1, <2>1, <2>3 DEF IInv, TypeOK, InRestart
  <2>5. Control'
    BY <1>1, <2>1, <2>2 DEF IInv, Control, InCell, InRestart
  <2>6. Beliefs'
    BY <1>1, <2>1, <2>2 DEF IInv, Beliefs
  <2>7. Served'
    <3>1. CASE then = "ensured"
      <4>1. AtCell /\ here.build # prevBuild
        BY <3>1 DEF IInv, Beliefs, AtCell
      <4>2. applied # NotApplied => ~Ahead(cells, at, applied.build)
        BY <4>1, NewBuild
      <4> QED BY <2>1, <2>2, <4>2 DEF Served
    <3>2. CASE then = "applied"
      BY <2>1, <2>2, <3>2 DEF Served
    <3>3. CASE then = "restored"
      BY <1>1, <2>1, <2>2, <3>3 DEF Served, Looping, AtCell, InCell
    <3> QED BY <2>2, <3>1, <3>2, <3>3
  <2>8. Foreign'
    <3>1. CASE then = "restored"
      BY <2>3, <3>1 DEF IInv, Control, Foreign
    <3>2. CASE then \in {"ensured", "applied"}
      BY <2>1, <3>2 DEF IInv, Control, Foreign
    <3> QED BY <2>2, <3>1, <3>2
  <2>9. Steady'
    BY <2>1, <2>3 DEF Steady
  <2> QED BY <2>4, <2>5, <2>6, <2>7, <2>8, <2>9 DEF IInv
<1> QED BY <1>2, <1>3 DEF RestartStarts

LEMMA RestartWaitsKeeps ==
    ASSUME IInv, RestartWaits
    PROVE  IInv'
<1>1. pc = "wait" /\ UNCHANGED router
  BY DEF RestartWaits
<1>2. CASE router.state = "up" /\ RestartEnds(TRUE) /\ UNCHANGED mishaps
  BY <1>1, <1>2, RestartEndsKeeps
<1>3. CASE router.state = "down" /\ RestartEnds(FALSE) /\ UNCHANGED mishaps
  BY <1>1, <1>3, RestartEndsKeeps
<1>4. CASE /\ router.state = "starting"
           /\ RestartEnds(FALSE)
           /\ mishaps' = mishaps \cup {"cut"}
  BY <1>1, <1>4, RestartEndsKeeps
<1> QED BY <1>2, <1>3, <1>4 DEF RestartWaits

LEMMA ClearEphemeralConfigKeeps ==
    ASSUME IInv, ClearEphemeralConfig
    PROVE  IInv'
<1>1. /\ pc = "restore" /\ then = "none" /\ env' = NoJob
      /\ UNCHANGED <<status, cells, current, cancelled, at, prevBuild, applied, claimed, kept,
                     router, client, before, mishaps, runs>>
  BY DEF ClearEphemeralConfig, Cleared, IInv, Control, InRestart, jobVars, gpuVars, history
<1>2. \/ MustRestore /\ pc' = "stop" /\ then' = "restored"
      \/ ~MustRestore /\ pc' = "end" /\ then' = "none"
  BY <1>1 DEF ClearEphemeralConfig
<1>3. ~claimed /\ current
  BY <1>1 DEF IInv, Control
<1>4. TypeOK'
  <2>1. NoJob \in [build : Builds \cup {None}, config : Settings \cup {None},
                   owns : BOOLEAN, stopped : BOOLEAN]
    BY DEF NoJob
  <2> QED BY <1>1, <1>2, <2>1 DEF IInv, TypeOK, InRestart
<1>5. Control'
  BY <1>1, <1>2, <1>3 DEF IInv, Control, AtCell, InCell, InRestart
<1>6. Beliefs' /\ Served'
  BY <1>1, <1>2 DEF IInv, Beliefs, Served, Looping, AtCell, InCell
<1>7. Foreign'
  <2> SUFFICES ASSUME "cut" \notin mishaps, router.state # "down", ~Users(router)
               PROVE  MustRestore /\ router.state # "starting"
    BY <1>1, <1>2 DEF Foreign
  <2>1. router.state # "starting" /\ env.owns
    BY <1>1 DEF IInv, Foreign
  <2>2. router.state = "up"
    BY <2>1 DEF IInv, TypeOK
  <2> QED BY <2>1, <2>2 DEF MustRestore
<1>8. Steady'
  <2> SUFFICES ASSUME before, mishaps = {}
               PROVE  (router.state = "down" => MustRestore) /\ router.state # "starting"
    BY <1>1, <1>2 DEF Steady
  <2>1. (router.state = "down" => env.stopped) /\ router.state # "starting"
    BY <1>1, <1>3 DEF IInv, Steady
  <2> QED BY <2>1 DEF MustRestore
<1> QED BY <1>4, <1>5, <1>6, <1>7, <1>8 DEF IInv

LEMMA EndKeeps ==
    ASSUME IInv, End
    PROVE  IInv'
<1>1. /\ pc = "end" /\ pc' = "idle" /\ current' = FALSE /\ kept' = FALSE
      /\ UNCHANGED <<status, cells, cancelled, at, prevBuild, applied, then, env, claimed, router,
                     client, before, mishaps, runs>>
  BY DEF End, history
<1>2. then = "none" /\ ~claimed /\ env = NoJob
  BY <1>1 DEF IInv, Control, InRestart
<1>3. TypeOK'
  <2>1. {current', cancelled', claimed', kept', before'} \subseteq BOOLEAN
    BY <1>1 DEF IInv, TypeOK
  <2> QED BY <1>1, <2>1 DEF IInv, TypeOK
<1>4. Control' /\ Beliefs' /\ Served' /\ Foreign' /\ Steady'
  BY <1>1, <1>2 DEF IInv, Control, Beliefs, Served, Foreign, Steady, Looping, AtCell, InCell, InRestart
<1> QED BY <1>3, <1>4 DEF IInv

-----------------------------------------------------------------------------
(* The steps keep the invariant: the router and its user.                  *)

\* A step that leaves the job and what it holds alone: it is enough that the
\* router stays in what the job may believe of it.
LEMMA JobLeftAlone ==
    ASSUME IInv,
           UNCHANGED <<status, cells, current, at, prevBuild, applied, pc, then, env, claimed, kept>>,
           cancelled' \in BOOLEAN, before' = before, runs' = runs,
           router' \in [state : {"down", "starting", "up"}, build : Builds,
                        config : Settings \cup {Own}],
           client' \in {"idle", "checked", "restarting"},
           mishaps' \subseteq {"raced", "stopped", "exited", "failed", "cut"},
           Served', Foreign', Steady'
    PROVE  IInv'
<1>1. TypeOK'
  <2>1. {current', cancelled', claimed', kept', before'} \subseteq BOOLEAN
    BY DEF IInv, TypeOK
  <2> QED BY <2>1 DEF IInv, TypeOK
<1>2. Control' /\ Beliefs'
  BY DEF IInv, Control, Beliefs, Looping, AtCell, here
<1> QED BY <1>1, <1>2 DEF IInv

LEMMA CancelKeeps ==
    ASSUME IInv, Cancel
    PROVE  IInv'
<1>1. /\ UNCHANGED <<status, cells, current, at, prevBuild, applied, pc, then, env, claimed, kept>>
      /\ cancelled' \in BOOLEAN /\ UNCHANGED <<router, client, before, mishaps, runs>>
  BY DEF Cancel, control, gpuVars, history
<1>2. Served' /\ Foreign' /\ Steady'
  BY <1>1 DEF IInv, Served, Foreign, Steady, Looping, AtCell, Options
<1>3. /\ router' \in [state : {"down", "starting", "up"}, build : Builds,
                      config : Settings \cup {Own}]
      /\ client' \in {"idle", "checked", "restarting"}
      /\ mishaps' \subseteq {"raced", "stopped", "exited", "failed", "cut"}
  BY <1>1 DEF IInv, TypeOK
<1> QED BY <1>1, <1>2, <1>3, JobLeftAlone

\* Whoever stops the router: a router that is down is nobody's, and the stop
\* is on record if there is a job.
LEMMA StoppedKeeps ==
    ASSUME IInv, router' = [router EXCEPT !.state = "down"],
           UNCHANGED <<jobVars, control, env, gpuVars, before, runs>>,
           client' \in {"idle", "checked", "restarting"},
           mishaps' \subseteq {"raced", "stopped", "exited", "failed", "cut"},
           current => mishaps' # {}
    PROVE  IInv'
<1>1. /\ UNCHANGED <<status, cells, current, at, prevBuild, applied, pc, then, env, claimed, kept>>
      /\ cancelled' \in BOOLEAN /\ before' = before /\ runs' = runs
  BY DEF IInv, TypeOK, jobVars, control, gpuVars
<1>2. /\ router' \in [state : {"down", "starting", "up"}, build : Builds,
                      config : Settings \cup {Own}]
      /\ router'.state = "down"
  BY DEF IInv, TypeOK
<1>3. Served' /\ Foreign' /\ Steady'
  BY <1>1, <1>2 DEF Served, Foreign, Steady
<1> QED BY <1>1, <1>2, <1>3, JobLeftAlone

LEMMA RouterUpKeeps ==
    ASSUME IInv, RouterUp
    PROVE  IInv'
<1>1. /\ router.state = "starting" /\ router' = [router EXCEPT !.state = "up"]
      /\ UNCHANGED <<status, cells, current, at, prevBuild, applied, pc, then, env, claimed, kept>>
      /\ UNCHANGED <<cancelled, client, before, mishaps, runs>>
  BY DEF RouterUp, jobVars, control, gpuVars, history
<1>2. /\ router' \in [state : {"down", "starting", "up"}, build : Builds,
                      config : Settings \cup {Own}]
      /\ router'.state = "up" /\ router'.build = router.build /\ router'.config = router.config
  BY <1>1 DEF IInv, TypeOK
<1>3. Served'
  BY <1>1, <1>2 DEF IInv, Served, Looping, AtCell, Options
<1>4. Foreign' /\ Steady'
  BY <1>1, <1>2 DEF IInv, Foreign, Steady, Users
<1>5. /\ client' \in {"idle", "checked", "restarting"}
      /\ mishaps' \subseteq {"raced", "stopped", "exited", "failed", "cut"}
      /\ cancelled' \in BOOLEAN
  BY <1>1 DEF IInv, TypeOK
<1> QED BY <1>1, <1>2, <1>3, <1>4, <1>5, JobLeftAlone

LEMMA RouterDownKeeps ==
    ASSUME IInv, RouterExit \/ UserStop
    PROVE  IInv'
<1>1. /\ router' = [router EXCEPT !.state = "down"]
      /\ UNCHANGED <<jobVars, control, env, gpuVars, client, before, runs>>
      /\ mishaps' = mishaps \cup {"exited"} \/ mishaps' = mishaps \cup {"stopped"}
  BY DEF RouterExit, UserStop
<1>2. /\ client' \in {"idle", "checked", "restarting"}
      /\ mishaps' \subseteq {"raced", "stopped", "exited", "failed", "cut"}
      /\ mishaps' # {}
  BY <1>1 DEF IInv, TypeOK
<1> QED BY <1>1, <1>2, StoppedKeeps

LEMMA ClientCheckKeeps ==
    ASSUME IInv, ClientCheck
    PROVE  IInv'
<1>1. /\ UNCHANGED <<status, cells, current, at, prevBuild, applied, pc, then, env, claimed, kept>>
      /\ UNCHANGED <<cancelled, router, before, mishaps, runs>> /\ client' = "checked"
  BY DEF ClientCheck, jobVars, control, gpuVars, history
<1>2. Served' /\ Foreign' /\ Steady'
  BY <1>1 DEF IInv, Served, Foreign, Steady, Looping, AtCell, Options
<1>3. /\ router' \in [state : {"down", "starting", "up"}, build : Builds,
                      config : Settings \cup {Own}]
      /\ mishaps' \subseteq {"raced", "stopped", "exited", "failed", "cut"}
      /\ cancelled' \in BOOLEAN
  BY <1>1 DEF IInv, TypeOK
<1> QED BY <1>1, <1>2, <1>3, JobLeftAlone

LEMMA ClientStopKeeps ==
    ASSUME IInv, ClientStop
    PROVE  IInv'
<1>1. /\ router' = [router EXCEPT !.state = "down"]
      /\ UNCHANGED <<jobVars, control, env, gpuVars, before, runs>>
      /\ client' = "restarting" /\ mishaps' = Raced
  BY DEF ClientStop
<1>2. /\ mishaps' \subseteq {"raced", "stopped", "exited", "failed", "cut"}
      /\ current => mishaps' # {}
  BY <1>1 DEF IInv, TypeOK, Raced
<1> QED BY <1>1, <1>2, StoppedKeeps

LEMMA ClientStartKeeps ==
    ASSUME IInv, ClientStart
    PROVE  IInv'
<1>1. /\ UNCHANGED <<status, cells, current, at, prevBuild, applied, pc, then, env, claimed, kept>>
      /\ UNCHANGED <<cancelled, before, runs>> /\ client' = "idle"
  BY DEF ClientStart, jobVars, control, gpuVars
<1>2. cancelled' \in BOOLEAN
  BY <1>1 DEF IInv, TypeOK
<1>3. CASE UNCHANGED <<router, mishaps>>
  <2>1. Served' /\ Foreign' /\ Steady'
    BY <1>1, <1>3 DEF IInv, Served, Foreign, Steady, Looping, AtCell, Options
  <2>2. /\ router' \in [state : {"down", "starting", "up"}, build : Builds,
                        config : Settings \cup {Own}]
        /\ mishaps' \subseteq {"raced", "stopped", "exited", "failed", "cut"}
    BY <1>3 DEF IInv, TypeOK
  <2> QED BY <1>1, <1>2, <2>1, <2>2, JobLeftAlone
<1>4. CASE /\ router' = [state |-> "starting", build |-> UserBuild, config |-> Own]
           /\ mishaps' = Raced
  <2>1. /\ router' \in [state : {"down", "starting", "up"}, build : Builds,
                        config : Settings \cup {Own}]
        /\ Users(router')
    BY <1>4, BenchAssumption DEF Users
  <2>2. /\ mishaps' \subseteq {"raced", "stopped", "exited", "failed", "cut"}
        /\ current => "raced" \in mishaps'
    BY <1>4 DEF IInv, TypeOK, Raced
  <2>3. ~current => ~Looping' /\ pc' = "idle"
    BY <1>1 DEF IInv, Control, Looping, AtCell, InCell, InRestart
  <2>4. Served'
    BY <2>2, <2>3 DEF Served
  <2>5. Foreign' /\ Steady'
    BY <1>1, <2>1, <2>2 DEF Foreign, Steady
  <2> QED BY <1>1, <1>2, <2>1, <2>2, <2>4, <2>5, JobLeftAlone
<1> QED BY <1>3, <1>4 DEF ClientStart

-----------------------------------------------------------------------------
(* The theorems.                                                           *)

LEMMA InitEstablishes == Init => IInv
<1> SUFFICES ASSUME Init PROVE IInv
  OBVIOUS
<1>1. /\ router \in [state : {"down", "up"}, build : {UserBuild}, config : {Own}]
      /\ status = "none" /\ cells = <<>> /\ current = FALSE /\ cancelled = FALSE
      /\ pc = "idle" /\ then = "none" /\ at = 1 /\ prevBuild = None /\ applied = NotApplied
      /\ env = NoJob /\ claimed = FALSE /\ kept = FALSE /\ client = "idle"
      /\ before = FALSE /\ mishaps = {} /\ runs = [jobs |-> 0, retries |-> 0]
  BY DEF Init
<1>2. TypeOK
  <2>1. NoJob \in [build : Builds \cup {None}, config : Settings \cup {None},
                   owns : BOOLEAN, stopped : BOOLEAN]
    BY DEF NoJob
  <2>2. NotApplied \in [build : Builds \cup {None}, start : Settings \cup {Own, None}]
    BY DEF NotApplied
  <2>3. router \in [state : {"down", "starting", "up"}, build : Builds, config : Settings \cup {Own}]
    BY <1>1, BenchAssumption
  <2>4. /\ at \in 1..(Len(cells) + 1) /\ cells \in Seq(Cell)
        /\ runs \in [jobs : 0..MaxRuns, retries : 0..MaxRuns]
    BY <1>1, BenchAssumption
  <2>5. {current, cancelled, claimed, kept, before} \subseteq BOOLEAN
    BY <1>1
  <2> QED BY <1>1, <2>1, <2>2, <2>3, <2>4, <2>5 DEF TypeOK
<1>3. Control
  BY <1>1 DEF Control, AtCell, InCell, InRestart
<1>4. Beliefs /\ Served
  BY <1>1 DEF Beliefs, Served, Looping, AtCell, InCell, BuildsInTurn
<1>5. Foreign /\ Steady
  BY <1>1 DEF Foreign, Steady, Users
<1> QED BY <1>2, <1>3, <1>4, <1>5 DEF IInv

LEMMA NextKeeps == IInv /\ [Next]_vars => IInv'
<1> SUFFICES ASSUME IInv, [Next]_vars PROVE IInv'
  OBVIOUS
<1>1. CASE Submit \/ RetryFailed
  BY <1>1, BegunKeeps
<1>2. CASE Cancel
  BY <1>2, CancelKeeps
<1>3. CASE Begin \/ NextCell \/ LastCell
  BY <1>3, BeginKeeps, NextCellKeeps, LastCellKeeps
<1>4. CASE CheckBuild \/ EnsureBuildActive \/ ClaimGPUs \/ ApplyEphemeralConfig \/ Measure
  BY <1>4, CheckBuildKeeps, EnsureBuildActiveKeeps, ClaimGPUsKeeps, ApplyEphemeralConfigKeeps,
     MeasureKeeps
<1>5. CASE StopForEval \/ KillForEval \/ Evaluate
  BY <1>5, StopForEvalKeeps, KillForEvalKeeps, EvaluateKeeps
<1>6. CASE RestartLooks \/ RestartStops \/ RestartStarts \/ RestartWaits
  BY <1>6, RestartLooksKeeps, RestartStopsKeeps, RestartStartsKeeps, RestartWaitsKeeps
<1>7. CASE ClearEphemeralConfig \/ End
  BY <1>7, ClearEphemeralConfigKeeps, EndKeeps
<1>8. CASE RouterUp \/ RouterExit \/ UserStop
  BY <1>8, RouterUpKeeps, RouterDownKeeps
<1>9. CASE ClientCheck \/ ClientStop \/ ClientStart
  BY <1>9, ClientCheckKeeps, ClientStopKeeps, ClientStartKeeps
<1>10. CASE UNCHANGED vars
  <2>1. /\ UNCHANGED <<status, cells, current, at, prevBuild, applied, pc, then, env, claimed, kept>>
        /\ UNCHANGED <<cancelled, router, client, before, mishaps, runs>>
    BY <1>10 DEF vars, jobVars, control, gpuVars, history
  <2>2. Served' /\ Foreign' /\ Steady'
    BY <2>1 DEF IInv, Served, Foreign, Steady, Looping, AtCell, Options
  <2>3. /\ router' \in [state : {"down", "starting", "up"}, build : Builds,
                        config : Settings \cup {Own}]
        /\ client' \in {"idle", "checked", "restarting"}
        /\ mishaps' \subseteq {"raced", "stopped", "exited", "failed", "cut"}
        /\ cancelled' \in BOOLEAN
    BY <2>1 DEF IInv, TypeOK
  <2> QED BY <2>1, <2>2, <2>3, JobLeftAlone
<1> QED BY <1>1, <1>2, <1>3, <1>4, <1>5, <1>6, <1>7, <1>8, <1>9, <1>10 DEF Next, JobStep

\* The invariant of a job and the router, whatever the builds, the settings
\* and the jobs, and however often one is submitted or retried.
THEOREM Invariant == Spec => []IInv
BY InitEstablishes, NextKeeps, PTL DEF Spec

\* All variables stay in their domains: the loop is never beyond its cells,
\* and the router always runs one build on one set of settings.
THEOREM TypeCorrect == Spec => []TypeOK
<1>1. IInv => TypeOK
  BY DEF IInv
<1> QED BY Invariant, <1>1, PTL

\* The lastApplied shortcut of runCell is right: a cell that applies settings
\* is measured on its build under them, unless an admitted start got in the
\* way or a restart went wrong.
THEOREM MeasuredAsAsked == Spec => []AppliedIsServed
<1>1. IInv => AppliedIsServed
  <2> SUFFICES ASSUME IInv, pc = "measure", here.start # Own, router.state = "up",
                      mishaps \cap {"raced", "failed", "cut"} = {}
               PROVE  router.build = here.build /\ router.config = here.start
    BY DEF AppliedIsServed
  <2>1. AtCell /\ Looping
    BY DEF AtCell, Looping, InCell
  <2>2. Ahead(cells, at, here.build) /\ here.build # None
    BY <2>1, InACell
  <2>3. applied.build = here.build /\ applied.start = here.start
    BY DEF IInv, Beliefs, Want
  <2>4. applied # NotApplied
    BY <2>2, <2>3 DEF NotApplied
  <2>5. router.build = applied.build /\ router.config = applied.start
    BY <2>1, <2>2, <2>3, <2>4 DEF IInv, Served
  <2> QED BY <2>3, <2>5
<1> QED BY Invariant, <1>1, PTL

\* Nothing of a job outlives it: what it set, owned, claimed and kept is gone
\* from the server when the queue is free, and its build and settings from the
\* router, unless the wait for a start was cut short.
THEOREM NothingIsLeft == Spec => []NothingLeft
<1>1. IInv => NothingLeft
  <2>1. ASSUME IInv, ~current
        PROVE  /\ env = NoJob /\ ~claimed /\ ~kept
               /\ router.state = "up" /\ "cut" \notin mishaps => Users(router)
    <3>1. pc = "idle" /\ then = "none" /\ env = NoJob
      BY <2>1 DEF IInv, Control, InRestart
    <3>2. ~claimed /\ ~kept
      BY <2>1, <3>1 DEF IInv, Control
    <3>3. router.state = "up" /\ "cut" \notin mishaps => Users(router)
      BY <2>1, <3>1 DEF IInv, Foreign, NoJob
    <3> QED BY <3>1, <3>2, <3>3
  <2> QED BY <2>1 DEF NothingLeft, HandedBack, LeftOnlyByCut
<1> QED BY Invariant, <1>1, PTL

\* A router that ran for the user when a job was submitted runs for the user
\* when the job is over, unless it failed or somebody stopped it.
THEOREM RouterIsGivenBack == Spec => GivenBack
<1>1. IInv /\ [Next]_vars =>
         [current /\ ~current' /\ before /\ mishaps = {}
             => router'.state = "up" /\ Users(router')]_vars
  <2> SUFFICES ASSUME IInv, [Next]_vars, current, ~current', before, mishaps = {}
               PROVE  router'.state = "up" /\ Users(router')
    OBVIOUS
  <2>1. pc = "end" /\ router' = router
    <3>1. CASE End
      BY <3>1 DEF End
    <3>2. CASE \/ CheckBuild \/ ClaimGPUs \/ ApplyEphemeralConfig \/ Measure \/ StopForEval
               \/ KillForEval \/ Evaluate \/ RestartStops \/ RestartStarts \/ RestartWaits
      <4>1. ASSUME NEW result, EndCell(result) PROVE current' = current
        BY <4>1 DEF EndCell
      <4>2. ASSUME NEW ok \in BOOLEAN, RestartEnds(ok), pc \in InRestart PROVE current' = current
        <5>1. then \in {"ensured", "applied", "restored"}
          BY <4>2 DEF IInv, TypeOK, Control
        <5> QED BY <4>1, <4>2, <5>1 DEF RestartEnds, jobVars
      <4>3. current' = current
        BY <3>2, <4>1, <4>2
           DEF CheckBuild, ClaimGPUs, ApplyEphemeralConfig, Measure, StopForEval, KillForEval,
               Evaluate, RestartStops, RestartStarts, RestartWaits, InRestart, jobVars
      <4> QED BY <4>3
    <3>3. CASE \/ Submit \/ RetryFailed \/ Cancel \/ Begin \/ NextCell \/ LastCell
               \/ EnsureBuildActive \/ RestartLooks \/ ClearEphemeralConfig
               \/ RouterUp \/ RouterExit \/ UserStop \/ ClientCheck \/ ClientStop \/ ClientStart
               \/ UNCHANGED vars
      <4>1. current' = current \/ current' = TRUE
        BY <3>3 DEF Submit, RetryFailed, Begun, Cancel, Begin, NextCell, LastCell,
                    EnsureBuildActive, RestartLooks, ClearEphemeralConfig, RouterUp,
                    RouterExit, UserStop, ClientCheck, ClientStop, ClientStart, vars, jobVars
      <4> QED BY <4>1
    <3> QED BY <3>1, <3>2, <3>3 DEF Next, JobStep
  <2>2. then = "none" /\ env = NoJob
    BY <2>1 DEF IInv, Control, InRestart
  <2>3. router.state \notin {"down", "starting"}
    BY <2>1, <2>2 DEF IInv, Steady, NoJob
  <2>4. router.state = "up"
    BY <2>3 DEF IInv, TypeOK
  <2>5. Users(router)
    BY <2>1, <2>2, <2>4 DEF IInv, Foreign, NoJob
  <2> QED BY <2>1, <2>4, <2>5
<1> QED BY Invariant, <1>1, PTL DEF Spec, GivenBack

\* As long as no new job is submitted a completed cell stays as it is: neither
\* a retry, which makes the failed cells pending, nor a cancel nor the end of
\* another cell touches it (RetryFailed, run).
THEOREM CompletedStay == Spec => CompletedKept
<1>1. IInv /\ [Next]_vars =>
         [runs'.jobs = runs.jobs =>
             \A i \in DOMAIN cells :
                 cells[i].status = "completed" => cells'[i].status = "completed"]_vars
  <2> SUFFICES ASSUME IInv, [Next]_vars, runs'.jobs = runs.jobs,
                      NEW i \in DOMAIN cells, cells[i].status = "completed"
               PROVE  cells'[i] = cells[i]
    OBVIOUS
  <2>1. cells \in Seq(Cell)
    BY DEF IInv, TypeOK
  <2>2. CASE RetryFailed
    BY <2>1, <2>2, RetryFacts DEF RetryFailed, Begun
  <2>3. ~Submit
    BY DEF Submit, IInv, TypeOK
  <2>4. CASE NextCell
    <3>1. at \in DOMAIN cells
      BY <2>1, <2>4 DEF NextCell, IInv, TypeOK
    <3> QED BY <2>1, <2>4, <3>1, StatusFacts
            DEF NextCell, SkipCompleted, SkipCancelled, RunCell, here, Statuses
  <2>5. ASSUME AtCell, NEW result \in Statuses, EndCell(result) PROVE cells'[i] = cells[i]
    <3>1. at \in DOMAIN cells /\ cells[at].status = "running"
      BY <2>5, InACell DEF here
    <3> QED BY <2>1, <2>5, <3>1, StatusFacts DEF EndCell
  <2>6. ASSUME NEW ok \in BOOLEAN, RestartEnds(ok), pc \in {"stopping", "start", "wait"}
        PROVE  cells'[i] = cells[i]
    <3>1. then \in {"ensured", "applied", "restored"}
      BY <2>6 DEF IInv, TypeOK, Control, InRestart
    <3>2. UNCHANGED cells \/ (EndCell("failed") /\ AtCell)
      BY <2>6, <3>1 DEF RestartEnds, AtCell, jobVars
    <3> QED BY <2>5, <3>2 DEF Statuses
  <2>7. CASE \/ CheckBuild \/ ClaimGPUs \/ ApplyEphemeralConfig \/ Measure \/ StopForEval
             \/ KillForEval \/ Evaluate
    <3>1. AtCell
      BY <2>7 DEF CheckBuild, ClaimGPUs, ApplyEphemeralConfig, Measure, StopForEval, KillForEval,
                  Evaluate, AtCell, InCell
    <3>2. UNCHANGED cells \/ \E result \in Statuses : EndCell(result)
      BY <2>7 DEF CheckBuild, ClaimGPUs, ApplyEphemeralConfig, Measure, StopForEval, KillForEval,
                  Evaluate, Statuses, jobVars
    <3> QED BY <2>5, <3>1, <3>2
  <2>8. CASE RestartStops \/ RestartStarts \/ RestartWaits
    <3>1. /\ pc \in {"stopping", "start", "wait"}
          /\ UNCHANGED cells \/ \E ok \in BOOLEAN : RestartEnds(ok)
      BY <2>8 DEF RestartStops, RestartStarts, RestartWaits, jobVars
    <3> QED BY <2>6, <3>1
  <2>9. CASE \/ Cancel \/ Begin \/ LastCell \/ EnsureBuildActive \/ RestartLooks
             \/ ClearEphemeralConfig \/ End \/ RouterUp \/ RouterExit \/ UserStop
             \/ ClientCheck \/ ClientStop \/ ClientStart \/ UNCHANGED vars
    BY <2>9 DEF Cancel, Begin, LastCell, EnsureBuildActive, RestartLooks,
                ClearEphemeralConfig, End, RouterUp, RouterExit, UserStop, ClientCheck, ClientStop,
                ClientStart, vars, jobVars
  <2> QED BY <2>2, <2>3, <2>4, <2>7, <2>8, <2>9 DEF Next, JobStep
<1> QED BY Invariant, <1>1, PTL DEF Spec, CompletedKept
=============================================================================
