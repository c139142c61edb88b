---------------------------- MODULE TakingTurns ----------------------------
(***************************************************************************)
(* LLMs and generation backends taking turns on the GPUs: the requests     *)
(* that load an LLM (internal/api/proxy.go, llm_room.go), the jobs that    *)
(* start a backend, and the room that each makes by unloading or stopping  *)
(* what is in its way (gen_evict.go).                                      *)
(*                                                                         *)
(* A request for an LLM that is not loaded unloads idle LLMs and, when     *)
(* that is not enough, takes the GPUs' turns and stops backends.  A job    *)
(* for a stopped backend has its GPU's turn, stops other backends, waits   *)
(* for the replies of the LLMs there and unloads them.  llmUse counts the  *)
(* replies in progress and keeps new ones out while an LLM is unloaded.    *)
(*                                                                         *)
(* This is the router in toolchest memory mode with the switch for taking  *)
(* turns on.  The GPU queue is GPUTurns, which GenQueue implements.  Left  *)
(* open: which idle LLM is unloaded first, and what the cards show free.   *)
(* Left out: the Start and Load buttons, measurements, the user stopping   *)
(* or unloading things, backends that exit once they run, and the router's *)
(* own end.                                                                *)
(*                                                                         *)
(* A definition that stands right before another and is used nowhere is a  *)
(* faulty variant of it.                                                   *)
(***************************************************************************)
EXTENDS Integers, FiniteSets, FiniteSetsExt

CONSTANTS
    GPUs, LLMs, Backends,
    Requests,       \* requests that name an LLM, each sent once
    Jobs,           \* generation jobs, each submitted once
    Room,           \* Room[g]: what models may use of GPU g
    Plan,           \* Plan[l][g]: what LLM l is planned to use of it
    On, Reserved,   \* On[b], Reserved[b]: a backend's GPU and reservation
    MayLock,        \* the sets of backends that may be marked keep-running
    MayWant,        \* MayWant[a]: the LLMs or backends it may be for
    MaxLoaded,      \* what Max Loaded may be set to, 0 for no limit
    LoadAttempts,   \* how often a request loads its LLM
    None

ASSUME TurnsAssumption ==
    /\ Room \in [GPUs -> Nat] /\ Plan \in [LLMs -> [GPUs -> Nat]]
    /\ On \in [Backends -> GPUs] /\ Reserved \in [Backends -> Nat]
    /\ MayLock \subseteq SUBSET Backends
    /\ IsFiniteSet(Requests) /\ Requests \cap Jobs = {} /\ None \notin Requests \cup LLMs \cup Backends
    /\ \A r \in Requests : MayWant[r] \subseteq LLMs
    /\ \A j \in Jobs : MayWant[j] \subseteq Backends
    /\ MaxLoaded \subseteq Nat /\ LoadAttempts \in Nat \ {0}

Actors == Requests \cup Jobs

VARIABLES
    pc,         \* where a request or a job is
    want,       \* the LLM or the backend it is for
    out,        \* the LLM it is unloading, and holds in llmUse
    attempt,    \* how often the request has looked for its LLM
    pass,       \* its passes through makeRoomByUnloading: the first, or the
                \* second, with no GPU's turn or with the turns it took
    busy,       \* busyBlocked: replies in progress leave its plan short
    listed,     \* loadedLLMsOn: the LLMs that a job may still unload
    status,     \* the router's state of an LLM
    leaving,    \* LLMs the router was asked to unload and has not yet
    n,          \* llmUse.n: the replies in progress
    evicting,   \* llmUse.evicting
    llmLoadMu,  \* the request that holds the lock
    backend,    \* the state of a backend's process
    locked,     \* the backends the user has marked keep-running
    wants, has, \* the GPU queue: GPUs asked for, and had
    beside,     \* history: backends that counted when a load had its room
    abandoned,  \* history: unloads asked for and then given up
    stray       \* history: requests sent on to an LLM on its way out since

actorVars == <<pc, want, out>>

requestVars == <<attempt, pass, busy, beside>>

useVars == <<n, evicting>>

routerVars == <<status, leaving>>

backendVars == <<backend, locked>>

turnVars == <<wants, has>>

history == <<abandoned, stray>>

vars == <<actorVars, requestVars, listed, routerVars, useVars, llmLoadMu, backendVars, turnVars, history>>

Turns == INSTANCE GPUTurns WITH Users <- Actors, Prior <- Requests

RequestAt == {"new", "look", "lock", "room", "ask", "hold", "relock", "free", "wait", "begin",
              "counted", "serve", "done"}

JobAt == {"new", "queued", "stop", "stopped", "llms", "start", "starting", "work", "done"}

TypeOK ==
    /\ pc \in [Actors -> RequestAt \cup JobAt]
    /\ want \in [Actors -> LLMs \cup Backends \cup {None}]
    /\ out \in [Actors -> LLMs \cup {None}]
    /\ attempt \in [Requests -> 1..LoadAttempts]
    /\ pass \in [Requests -> {"first", "free", "held"}]
    /\ busy \in [Requests -> BOOLEAN]
    /\ listed \in [Jobs -> SUBSET LLMs]
    /\ status \in [LLMs -> {"unloaded", "loading", "loaded"}]
    /\ leaving \subseteq {l \in LLMs : status[l] # "unloaded"}
    /\ n \in [LLMs -> 0..Cardinality(Requests)]
    /\ evicting \subseteq LLMs
    /\ llmLoadMu \in Requests \cup {None}
    /\ backend \in [Backends -> {"stopped", "starting", "running"}]
    /\ locked \in MayLock
    /\ {wants, has} \subseteq [Actors -> SUBSET GPUs]
    /\ beside \in [Requests -> SUBSET Backends]
    /\ abandoned \subseteq leaving

----------------------------------------------------------------------------
(* Memory.                                                                 *)

PlannedOn(g, S) == MapThenSumSet(LAMBDA l : Plan[l][g], S)

ReservedOn(g, S) == MapThenSumSet(LAMBDA b : Reserved[b], {b \in S : On[b] = g})

\* What the router has loaded or is loading.  It lists an LLM until its
\* process is gone.
Loaded == {l \in LLMs : status[l] # "unloaded"}

\* The backends whose reservation counts: those that run, are kept running,
\* or have a job with the GPU's turn.
Counted == {b \in Backends :
    \/ backend[b] # "stopped" \/ b \in locked
    \/ \E j \in Jobs : want[j] = b /\ has[j] # {}}

UsedBy(S) == {g \in GPUs : \E l \in S : Plan[l][g] > 0}

ShortIgnoringReservations(m) == {g \in UsedBy(Loaded \cup {m}) :
    PlannedOn(g, Loaded \cup {m}) > Room[g]}

\* llmShortGPUs: where m is short beside the loaded LLMs and the
\* reservations.
Short(m) == {g \in UsedBy(Loaded \cup {m}) :
    PlannedOn(g, Loaded \cup {m}) + ReservedOn(g, Counted) > Room[g]}

\* reservationShortGPUs: only GPUs with reservations are looked at.
ReservationShort(m) == {g \in Short(m) : ReservedOn(g, Counted) > 0}

BackendFits(b) ==
    PlannedOn(On[b], Loaded) + ReservedOn(On[b], Counted \cup {b}) <= Room[On[b]]

\* The LLMs that would be unloaded for m.
Idle(m) == {l \in LLMs \ {m} : status[l] = "loaded" /\ n[l] = 0 /\ l \notin evicting}

\* neverFits: the GPUs of m that are short even with every idle LLM and
\* every backend gone that may go.
Staying(m) == (Loaded \ Idle(m)) \cup {m}

NeverShort(m) == {g \in UsedBy({m}) :
    PlannedOn(g, Staying(m)) + ReservedOn(g, locked) > Room[g]}

NeverFits(m) == \E g \in NeverShort(m) : ReservedOn(g, locked) > 0

BusyBlocked(m) == \E g \in NeverShort(m) : g \in UsedBy(Staying(m) \ {m})

----------------------------------------------------------------------------
(* Pieces of steps.                                                        *)

Goto(a, label) == pc' = [pc EXCEPT ![a] = label]

\* A hold or a ticket is given back, or withdrawn while it still waits.
GiveBack(a) ==
    IF has[a] # {} THEN Turns!GiveBack(a)
    ELSE IF wants[a] # {} THEN Turns!Withdraw(a)
    ELSE UNCHANGED turnVars

\* llmUse.evict and tryEvict succeed for an LLM that nobody uses or unloads.
NotEvicting(l) == l \notin evicting

Unused(l) == n[l] = 0 /\ l \notin evicting

\* unloadLLMEvicting: an LLM that is held in llmUse is asked to unload.
Unload(a, l) ==
    /\ Unused(l)
    /\ out' = [out EXCEPT ![a] = l]
    /\ evicting' = evicting \cup {l}
    /\ leaving' = leaving \cup {l}
    /\ UNCHANGED <<status, n>>

KeepEvicting(a) == out' = [out EXCEPT ![a] = None] /\ UNCHANGED <<evicting, n>>

EndEvicting(a) ==
    /\ out' = [out EXCEPT ![a] = None]
    /\ evicting' = evicting \ {out[a]}
    /\ UNCHANGED n

\* A request's loading ends, with an answer or to send the request on.
Unlock(r) == llmLoadMu' = IF llmLoadMu = r THEN None ELSE llmLoadMu

Uncount(r) == n' = [n EXCEPT ![want[r]] = n[want[r]] - 1]

Answer(r) == Goto(r, "done") /\ GiveBack(r) /\ Unlock(r)

EndJob(j) == Goto(j, "done") /\ GiveBack(j)

\* stopGenUntil stops the backend on g with the largest reservation.
Stoppable(g, except) == {b \in Backends \ ({except} \cup locked) :
    On[b] = g /\ backend[b] # "stopped"}

StopLargest(S) == \E b \in S :
    /\ \A c \in S : Reserved[c] <= Reserved[b]
    /\ backend' = [backend EXCEPT ![b] = "stopped"]

----------------------------------------------------------------------------
(* A request: loadAndCountRequest and what it calls.                       *)

Arrive(r) ==
    /\ pc[r] = "new"
    /\ \E m \in MayWant[r] : want' = [want EXCEPT ![r] = m]
    /\ Goto(r, "look")
    /\ UNCHANGED <<out, requestVars, listed, routerVars, useVars, llmLoadMu, backendVars, turnVars, history>>

\* ensureModelLoadedForRequest: a load under way is waited for.
Look(r) ==
    /\ pc[r] = "look"
    /\ Goto(r, CASE status[want[r]] = "loaded" -> "begin"
                 [] status[want[r]] = "loading" -> "wait"
                 [] status[want[r]] = "unloaded" -> "lock")
    /\ pass' = [pass EXCEPT ![r] = "first"]
    /\ UNCHANGED <<want, out, attempt, busy, beside, listed, routerVars, useVars, llmLoadMu, backendVars,
                   turnVars, history>>

\* loadLLMWithRoom: one load at a time makes room.
Lock(r) ==
    /\ pc[r] = "lock" /\ llmLoadMu = None
    /\ IF NeverFits(want[r])
         THEN Answer(r) /\ UNCHANGED busy
         ELSE /\ llmLoadMu' = r
              /\ busy' = [busy EXCEPT ![r] = BusyBlocked(want[r])]
              /\ Goto(r, "room") /\ UNCHANGED turnVars
    /\ UNCHANGED <<want, out, attempt, pass, beside, listed, routerVars, useVars, backendVars, history>>

\* makeRoomByUnloading, under Max Loaded as it is set by then.
TooMany(max) == max > 0 /\ Cardinality(Loaded) >= max

InTheWay(m, max) ==
    IF TooMany(max) THEN Idle(m) ELSE {l \in Idle(m) : UsedBy({l}) \cap Short(m) # {}}

UnloadIdle(r) ==
    /\ pc[r] = "room" /\ out[r] = None
    /\ \E max \in MaxLoaded :
          /\ TooMany(max) \/ ~busy[r]
          /\ \E l \in InTheWay(want[r], max) : Unload(r, l)
    /\ UNCHANGED <<pc, want, requestVars, listed, llmLoadMu, backendVars, turnVars, history>>

RefuseTooMany(r) ==
    /\ pc[r] = "room" /\ out[r] = None
    /\ \E max \in MaxLoaded : TooMany(max) /\ Idle(want[r]) = {}
    /\ Answer(r)
    /\ UNCHANGED <<want, out, requestVars, listed, routerVars, useVars, backendVars, history>>

\* Nothing more is in the way that may be unloaded.  Backends may be: then
\* the lock is given up meanwhile.  After that, only reservations refuse
\* the load.
RoomMade(r) ==
    /\ pc[r] = "room" /\ out[r] = None
    /\ \E max \in MaxLoaded : ~TooMany(max) /\ (busy[r] \/ InTheWay(want[r], max) = {})
    /\ \/ /\ busy[r] \/ Short(want[r]) = {} \/ (pass[r] # "first" /\ ReservationShort(want[r]) = {})
          /\ beside' = [beside EXCEPT ![r] = Counted]
          /\ Goto(r, "free") /\ UNCHANGED <<llmLoadMu, turnVars>>
       \/ /\ ~busy[r] /\ Short(want[r]) # {} /\ pass[r] = "first"
          /\ Goto(r, "ask") /\ Unlock(r) /\ UNCHANGED <<turnVars, beside>>
       \/ /\ ~busy[r] /\ ReservationShort(want[r]) # {} /\ pass[r] # "first"
          /\ Answer(r) /\ UNCHANGED beside
    /\ UNCHANGED <<want, out, attempt, pass, busy, listed, routerVars, useVars, backendVars, history>>

\* makeRoomForLLM: it takes every GPU that the LLMs would use.
TakeGPUs(r) ==
    /\ pc[r] = "ask"
    /\ IF ReservationShort(want[r]) = {}
         THEN /\ pass' = [pass EXCEPT ![r] = "free"]
              /\ Goto(r, "relock") /\ UNCHANGED turnVars
         ELSE /\ pass' = [pass EXCEPT ![r] = "held"]
              /\ Goto(r, "hold")
              /\ Turns!Ask(r, UsedBy(Loaded \cup {want[r]}))
    /\ UNCHANGED <<want, out, attempt, busy, beside, listed, routerVars, useVars, llmLoadMu, backendVars,
                   history>>

StoppableFor(r) == UNION {Stoppable(g, None) : g \in has[r] \cap ReservationShort(want[r])}

StopForLLM(r) ==
    /\ pc[r] = "hold"
    /\ \E g \in has[r] \cap ReservationShort(want[r]) : StopLargest(Stoppable(g, None))
    /\ UNCHANGED <<actorVars, requestVars, listed, routerVars, useVars, llmLoadMu, locked, turnVars,
                   history>>

StopsDone(r) ==
    /\ pc[r] = "hold" /\ has[r] # {}
    /\ StoppableFor(r) = {}
    /\ IF ReservationShort(want[r]) = {}
         THEN Goto(r, "relock") /\ UNCHANGED <<llmLoadMu, turnVars>>
         ELSE Answer(r)
    /\ UNCHANGED <<want, out, requestVars, listed, routerVars, useVars, backendVars, history>>

Relock(r) ==
    /\ pc[r] = "relock" /\ llmLoadMu = None
    /\ llmLoadMu' = r
    /\ Goto(r, "room")
    /\ UNCHANGED <<want, out, requestVars, listed, routerVars, useVars, backendVars, turnVars, history>>

\* The cards may show less free than was planned (realFreeShortGPUs).
UnloadMore(r) ==
    /\ pc[r] = "free" /\ out[r] = None /\ ~busy[r]
    /\ \E l \in Idle(want[r]) :
          UsedBy({l}) \cap UsedBy({want[r]}) # {} /\ Unload(r, l)
    /\ UNCHANGED <<pc, want, requestVars, listed, llmLoadMu, backendVars, turnVars, history>>

SendLoadGivingBack(r) ==
    /\ pc[r] = "free" /\ out[r] = None
    /\ status' = IF status[want[r]] = "unloaded" THEN [status EXCEPT ![want[r]] = "loading"] ELSE status
    /\ Unlock(r) /\ GiveBack(r)
    /\ Goto(r, "wait")
    /\ UNCHANGED <<want, out, requestVars, listed, leaving, useVars, backendVars, history>>

\* LoadModel: the router lists the LLM as loading before it answers, and
\* takes an LLM that it lists already for loaded.
SendLoad(r) ==
    /\ pc[r] = "free" /\ out[r] = None
    /\ status' = IF status[want[r]] = "unloaded" THEN [status EXCEPT ![want[r]] = "loading"] ELSE status
    /\ Unlock(r)
    /\ Goto(r, "wait")
    /\ UNCHANGED <<want, out, requestVars, listed, leaving, useVars, backendVars, turnVars, history>>

\* waitForModelLoaded; the GPUs are kept until it returns.
LoadDone(r) ==
    /\ pc[r] = "wait"
    /\ \/ status[want[r]] = "loaded" /\ Goto(r, "begin")
       \/ status[want[r]] = "unloaded" /\ Goto(r, "done")
    /\ GiveBack(r)
    /\ UNCHANGED <<want, out, requestVars, listed, routerVars, useVars, llmLoadMu, backendVars, history>>

\* llmUse.begin waits until an unload of the LLM has ended.
Begin(r) ==
    /\ pc[r] = "begin"
    /\ NotEvicting(want[r])
    /\ n' = [n EXCEPT ![want[r]] = n[want[r]] + 1]
    /\ Goto(r, "counted")
    /\ UNCHANGED <<want, out, requestVars, listed, routerVars, evicting, llmLoadMu, backendVars, turnVars,
                   history>>

LookAgainAlways(r) ==
    /\ pc[r] = "counted"
    /\ IF status[want[r]] = "loaded"
         THEN /\ Goto(r, "serve")
              /\ stray' = stray \cup {q \in {r} : want[r] \in abandoned}
              /\ UNCHANGED <<n, attempt>>
         ELSE /\ Uncount(r) /\ Goto(r, "look")
              /\ attempt' = [attempt EXCEPT ![r] = attempt[r] + 1]
              /\ UNCHANGED stray
    /\ UNCHANGED <<want, out, pass, busy, beside, listed, routerVars, evicting, llmLoadMu, backendVars,
                   turnVars, abandoned>>

\* An unload may have got in between the load and the count.
CheckLoaded(r) ==
    /\ pc[r] = "counted"
    /\ IF status[want[r]] = "loaded"
         THEN /\ Goto(r, "serve")
              /\ stray' = stray \cup {q \in {r} : want[r] \in abandoned}
              /\ UNCHANGED <<n, attempt>>
         ELSE /\ Uncount(r)
              /\ IF attempt[r] < LoadAttempts
                   THEN Goto(r, "look") /\ attempt' = [attempt EXCEPT ![r] = attempt[r] + 1]
                   ELSE Goto(r, "done") /\ UNCHANGED attempt
              /\ UNCHANGED stray
    /\ UNCHANGED <<want, out, pass, busy, beside, listed, routerVars, evicting, llmLoadMu, backendVars,
                   turnVars, abandoned>>

EndReply(r) ==
    /\ pc[r] = "serve"
    /\ Uncount(r)
    /\ Goto(r, "done")
    /\ UNCHANGED <<want, out, requestVars, listed, routerVars, evicting, llmLoadMu, backendVars, turnVars,
                   history>>

Unloaded(r) ==
    /\ out[r] # None /\ status[out[r]] = "unloaded"
    /\ EndEvicting(r)
    /\ UNCHANGED <<pc, want, requestVars, listed, routerVars, llmLoadMu, backendVars, turnVars, history>>

Fail(r) ==
    /\ Answer(r) /\ EndEvicting(r)
    /\ abandoned' = abandoned \cup ({out[r]} \cap leaving)
    /\ UNCHANGED <<want, requestVars, listed, routerVars, backendVars, stray>>

\* The client goes away, the router refuses, or the time is up otherwise.
GiveUp(r) ==
    /\ pc[r] \in {"hold", "free", "wait", "begin"} \/ out[r] # None
    /\ Fail(r)

RequestStep(r) ==
    \/ Look(r) \/ Lock(r) \/ UnloadIdle(r) \/ RefuseTooMany(r) \/ RoomMade(r) \/ TakeGPUs(r)
    \/ StopForLLM(r) \/ StopsDone(r) \/ Relock(r) \/ UnloadMore(r) \/ SendLoad(r) \/ LoadDone(r)
    \/ Begin(r) \/ CheckLoaded(r) \/ EndReply(r) \/ Unloaded(r)

----------------------------------------------------------------------------
(* A job: its turn on the GPU, and genReady.                               *)

Submit(j) ==
    /\ pc[j] = "new"
    /\ \E b \in MayWant[j] :
          want' = [want EXCEPT ![j] = b] /\ Turns!Ask(j, {On[b]})
    /\ Goto(j, "queued")
    /\ UNCHANGED <<out, requestVars, listed, routerVars, useVars, llmLoadMu, backendVars, history>>

GenReady(j) ==
    /\ pc[j] = "queued" /\ has[j] # {}
    /\ Goto(j, CASE backend[want[j]] = "running" -> "work"
                 [] backend[want[j]] = "starting" -> "starting"
                 [] backend[want[j]] = "stopped" -> IF BackendFits(want[j]) THEN "start" ELSE "stop")
    /\ UNCHANGED <<want, out, requestVars, listed, routerVars, useVars, llmLoadMu, backendVars, turnVars,
                   history>>

\* makeRoomForGen looks again whether the backend fits only when it has
\* stopped one.
OthersOf(j) == Stoppable(On[want[j]], want[j])

StopForJob(j) ==
    /\ pc[j] \in {"stop", "stopped"} /\ ~BackendFits(want[j])
    /\ StopLargest(OthersOf(j))
    /\ Goto(j, "stopped")
    /\ UNCHANGED <<want, out, requestVars, listed, routerVars, useVars, llmLoadMu, locked, turnVars,
                   history>>

StoppedEnough(j) ==
    /\ pc[j] = "stopped" /\ BackendFits(want[j])
    /\ Goto(j, "start")
    /\ UNCHANGED <<want, out, requestVars, listed, routerVars, useVars, llmLoadMu, backendVars, turnVars,
                   history>>

ListLLMs(j) ==
    /\ \/ pc[j] = "stop" /\ (BackendFits(want[j]) \/ OthersOf(j) = {})
       \/ pc[j] = "stopped" /\ ~BackendFits(want[j]) /\ OthersOf(j) = {}
    /\ listed' = [listed EXCEPT ![j] = {l \in Loaded : On[want[j]] \in UsedBy({l})}]
    /\ Goto(j, "llms")
    /\ UNCHANGED <<want, out, requestVars, routerVars, useVars, llmLoadMu, backendVars, turnVars, history>>

\* unloadForGen waits until nobody uses the LLM with the largest share.
UnloadForGen(j) ==
    /\ pc[j] = "llms" /\ out[j] = None
    /\ \E l \in listed[j] :
          /\ \A k \in listed[j] : Plan[k][On[want[j]]] <= Plan[l][On[want[j]]]
          /\ listed' = [listed EXCEPT ![j] = listed[j] \ {l}]
          /\ \/ l \in Loaded /\ Unload(j, l) /\ UNCHANGED pc
             \/ /\ l \notin Loaded /\ Unused(l)
                /\ Goto(j, IF BackendFits(want[j]) THEN "start" ELSE "llms")
                /\ UNCHANGED <<out, routerVars, useVars>>
    /\ UNCHANGED <<want, requestVars, llmLoadMu, backendVars, turnVars, history>>

UnloadedForGen(j) ==
    /\ out[j] # None /\ status[out[j]] = "unloaded"
    /\ EndEvicting(j)
    /\ Goto(j, IF BackendFits(want[j]) THEN "start" ELSE "llms")
    /\ UNCHANGED <<want, requestVars, listed, routerVars, llmLoadMu, backendVars, turnVars, history>>

NothingLeft(j) ==
    /\ pc[j] = "llms" /\ out[j] = None /\ listed[j] = {}
    /\ EndJob(j)
    /\ UNCHANGED <<want, out, requestVars, listed, routerVars, useVars, llmLoadMu, backendVars, history>>

StartGenInstance(j) ==
    /\ pc[j] = "start"
    /\ IF BackendFits(want[j])
         THEN /\ backend' = [backend EXCEPT ![want[j]] = "starting"]
              /\ Goto(j, "starting") /\ UNCHANGED turnVars
         ELSE EndJob(j) /\ UNCHANGED backend
    /\ UNCHANGED <<want, out, requestVars, listed, routerVars, useVars, llmLoadMu, locked, history>>

WaitRunning(j) ==
    /\ pc[j] = "starting"
    /\ \/ backend[want[j]] = "running" /\ Goto(j, "work") /\ UNCHANGED turnVars
       \/ backend[want[j]] = "stopped" /\ EndJob(j)
    /\ UNCHANGED <<want, out, requestVars, listed, routerVars, useVars, llmLoadMu, backendVars, history>>

EndWork(j) ==
    /\ pc[j] = "work"
    /\ EndJob(j)
    /\ UNCHANGED <<want, out, requestVars, listed, routerVars, useVars, llmLoadMu, backendVars, history>>

FailJob(j) ==
    /\ EndJob(j) /\ EndEvicting(j)
    /\ abandoned' = abandoned \cup ({out[j]} \cap leaving)
    /\ UNCHANGED <<want, requestVars, listed, routerVars, llmLoadMu, backendVars, stray>>

\* The LLM was unloaded, and loaded for a request before the job looked: it
\* waits until its time is up.
UnloadForGenTimesOut(j) ==
    /\ out[j] # None /\ out[j] \in Loaded \ leaving
    /\ FailJob(j)

\* The job is cancelled before it works, or the time is up otherwise.
GiveUpJob(j) == pc[j] \in {"queued", "llms", "starting"} /\ FailJob(j)

JobStep(j) ==
    \/ GenReady(j) \/ StopForJob(j) \/ StoppedEnough(j) \/ ListLLMs(j) \/ UnloadForGen(j) \/ UnloadedForGen(j)
    \/ UnloadForGenTimesOut(j) \/ NothingLeft(j) \/ StartGenInstance(j) \/ WaitRunning(j) \/ EndWork(j)

----------------------------------------------------------------------------
(* What they wait for.                                                     *)

GrantTurns ==
    /\ Turns!Grant(wants, has)
    /\ UNCHANGED <<actorVars, requestVars, listed, routerVars, useVars, llmLoadMu, backendVars, history>>

LoadEnds(l, result) ==
    /\ status[l] = "loading" /\ l \notin leaving
    /\ status' = [status EXCEPT ![l] = result]
    /\ UNCHANGED <<actorVars, requestVars, listed, leaving, useVars, llmLoadMu, backendVars, turnVars,
                   history>>

LLMGone(l) ==
    /\ l \in leaving
    /\ status' = [status EXCEPT ![l] = "unloaded"]
    /\ leaving' = leaving \ {l}
    /\ abandoned' = abandoned \ {l}
    /\ UNCHANGED <<actorVars, requestVars, listed, useVars, llmLoadMu, backendVars, turnVars, stray>>

StartEnds(b, result) ==
    /\ backend[b] = "starting"
    /\ backend' = [backend EXCEPT ![b] = result]
    /\ UNCHANGED <<actorVars, requestVars, listed, routerVars, useVars, llmLoadMu, locked, turnVars,
                   history>>

RouterStep(l) == LLMGone(l) \/ \E result \in {"loaded", "unloaded"} : LoadEnds(l, result)

BackendStep(b) == \E result \in {"running", "stopped"} : StartEnds(b, result)

----------------------------------------------------------------------------

\* Whatever fits may be loaded and running at first.
Init ==
    /\ pc = [a \in Actors |-> "new"]
    /\ want = [a \in Actors |-> None] /\ out = want
    /\ attempt = [r \in Requests |-> 1] /\ pass = [r \in Requests |-> "first"]
    /\ busy = [r \in Requests |-> FALSE] /\ beside = [r \in Requests |-> {}]
    /\ listed = [j \in Jobs |-> {}]
    /\ status \in [LLMs -> {"unloaded", "loaded"}] /\ leaving = {}
    /\ n = [l \in LLMs |-> 0] /\ evicting = {}
    /\ llmLoadMu = None
    /\ backend \in [Backends -> {"stopped", "running"}] /\ locked \in MayLock
    /\ wants = [a \in Actors |-> {}] /\ has = wants
    /\ abandoned = {} /\ stray = {}
    /\ \A g \in GPUs : PlannedOn(g, Loaded) + ReservedOn(g, Counted) <= Room[g]

Next ==
    \/ \E r \in Requests : Arrive(r) \/ RequestStep(r) \/ GiveUp(r)
    \/ \E j \in Jobs : Submit(j) \/ JobStep(j) \/ GiveUpJob(j)
    \/ GrantTurns
    \/ \E l \in LLMs : RouterStep(l)
    \/ \E b \in Backends : BackendStep(b)

Spec == Init /\ [][Next]_vars

\* The handlers run on, replies and jobs end, the queue grants, and the
\* router and the backends end what they began.  Nobody has to give up.
Fairness ==
    /\ \A r \in Requests : WF_vars(RequestStep(r))
    /\ \A j \in Jobs : WF_vars(JobStep(j))
    /\ WF_vars(GrantTurns)
    /\ \A l \in LLMs : WF_vars(RouterStep(l))
    /\ \A b \in Backends : WF_vars(BackendStep(b))

FairSpec == Spec /\ Fairness

----------------------------------------------------------------------------
(* Safety.                                                                 *)

\* A reply in progress is never cut short: its LLM stays loaded, and nobody
\* asks the router to unload it.  The exception is a request let through to
\* an LLM whose unload was given up after the router was asked.
RepliesUncut == \A r \in Requests :
    pc[r] = "serve" /\ r \notin stray =>
        status[want[r]] = "loaded" /\ want[r] \notin leaving

\* While a load for which backends were stopped is under way, no job has the
\* turn of a GPU of the LLM, so none can take the room back.
RoomKept == \A r \in Requests :
    pc[r] = "wait" /\ pass[r] = "held" /\ status[want[r]] = "loading" =>
        \A j \in Jobs : has[j] \cap UsedBy({want[r]}) = {}

\* Making room, for an LLM or for another job, never stops a running
\* backend under its job, although stopGenUntil asks no job's leave.
JobsUndisturbed == [][\A j \in Jobs :
    pc[j] \in {"starting", "work"} /\ backend[want[j]] = "running"
        => backend'[want[j]] = "running"]_vars

\* What a load crowds out: backends that counted when its request was done
\* making room, that still do when the load is sent, and that have no room
\* beside the LLMs then.
CrowdedOut(r) == {b \in beside[r] \cap Counted :
    PlannedOn(On[b], Loaded') + ReservedOn(On[b], beside[r] \cap Counted) > Room[On[b]]}

Sends(r) == pc[r] = "free" /\ pc'[r] = "wait"

\* A load crowds no reservation out, when replies in progress do not leave
\* its plan short anyway.
ReservationsKept == [][\A r \in Requests : Sends(r) /\ ~busy[r] => CrowdedOut(r) = {}]_vars

\* What somebody was given room for is not taken from them: a job's backend runs
\* to the job's end, and a load leaves the reservations their room.
NobodyCrowdedOut == JobsUndisturbed /\ ReservationsKept

----------------------------------------------------------------------------
(* Liveness.                                                               *)

\* Nobody waits for ever, although requests wait for jobs and jobs for requests:
\* whoever has come is answered, or ends, so that in the end all have (each comes once).
NobodyWaits == []<>(\A c \in Actors : pc[c] \in {"new", "done"})
=============================================================================
