------------------------- MODULE TakingTurnsProofs -------------------------
(***************************************************************************)
(* Proofs about TakingTurns: no reply is cut short, no job takes back the  *)
(* room made for an LLM, and no backend is stopped under its job, for any  *)
(* GPUs, models, backends, requests and jobs.                              *)
(***************************************************************************)
EXTENDS TakingTurns, FiniteSetTheorems, TLAPS

-----------------------------------------------------------------------------
(* The invariant.                                                          *)

\* What the queue sees to: each GPU is one user's, and who waits has none.
TurnInv ==
    /\ wants \in [Actors -> SUBSET GPUs] /\ has \in [Actors -> SUBSET GPUs]
    /\ \A a \in Actors : wants[a] = {} \/ has[a] = {}
    /\ \A a, b \in Actors : a # b => has[a] \cap has[b] = {}

\* A request that takes turns has asked for the GPUs of its LLM, and has them
\* from the stops on to the end of the load; it unloads LLMs only while it
\* makes room.
RequestOK(r) ==
    /\ pc[r] \in RequestAt /\ (pc[r] # "new" => want[r] \in LLMs)
    /\ out[r] # None => pc[r] \in {"room", "free"}
    /\ pc[r] = "lock" => pass[r] = "first"
    /\ pass[r] = "held" /\ pc[r] = "hold" => UsedBy({want[r]}) \subseteq has[r] \cup wants[r]
    /\ pass[r] = "held" /\ pc[r] \in {"relock", "room", "free", "wait"} =>
          UsedBy({want[r]}) \subseteq has[r]

\* A job has its backend's GPU from the turn on, and unloads LLMs only while it
\* makes room.
JobOK(j) ==
    /\ pc[j] \in JobAt /\ (pc[j] # "new" => want[j] \in Backends)
    /\ out[j] # None => pc[j] = "llms"
    /\ pc[j] = "queued" => has[j] \cup wants[j] = {On[want[j]]}
    /\ pc[j] \in JobAt \ {"new", "queued", "done"} => has[j] = {On[want[j]]}

ActorsOK == (\A r \in Requests : RequestOK(r)) /\ (\A j \in Jobs : JobOK(j))

\* The requests that llmUse counts for an LLM.
Counting(l) == {r \in Requests : pc[r] \in {"counted", "serve"} /\ want[r] = l}

\* The counts are right; an LLM held for unloading is not used, and one that
\* is unloaded is held, unless that was given up.
UseInv ==
    /\ \A l \in LLMs : n[l] = Cardinality(Counting(l))
    /\ \A l \in evicting : n[l] = 0
    /\ leaving \subseteq evicting \cup abandoned

IInv == TypeOK /\ TurnInv /\ ActorsOK /\ UseInv /\ RepliesUncut

-----------------------------------------------------------------------------
(* What a step of the queue does to its users.                             *)

\* Somebody's own GPUs are not touched, and a wait goes on or is granted.
TurnKept(a) ==
    /\ has'[a] \cup wants'[a] = has[a] \cup wants[a]
    /\ has[a] # {} => has'[a] = has[a]

\* Granting keeps the GPUs apart, and gives what was asked for.
LEMMA GrantFacts ==
    ASSUME NEW w \in [Actors -> SUBSET GPUs], NEW h \in [Actors -> SUBSET GPUs],
           \A a \in Actors : w[a] = {} \/ h[a] = {},
           \A a, b \in Actors : a # b => h[a] \cap h[b] = {},
           Turns!Grant(w, h)
    PROVE  /\ TurnInv'
           /\ \A a \in Actors : /\ has'[a] \cup wants'[a] = h[a] \cup w[a]
                                /\ h[a] # {} => has'[a] = h[a]
<1>1. PICK granted \in SUBSET {u \in Actors : w[u] # {}} :
        /\ has' = [u \in Actors |-> IF u \in granted THEN w[u] ELSE h[u]]
        /\ wants' = [u \in Actors |-> IF u \in granted THEN {} ELSE w[u]]
        /\ \A u \in granted : \A v \in Actors \ {u} : w[u] \cap has'[v] = {}
  BY DEF Turns!Grant
<1>2. wants' \in [Actors -> SUBSET GPUs] /\ has' \in [Actors -> SUBSET GPUs]
  BY <1>1
<1>3. \A a \in Actors : wants'[a] = {} \/ has'[a] = {}
  BY <1>1
<1>4. ASSUME NEW a \in Actors, NEW b \in Actors, a # b PROVE has'[a] \cap has'[b] = {}
  <2>1. CASE a \in granted
    BY <1>1, <1>4, <2>1
  <2>2. CASE b \in granted
    BY <1>1, <1>4, <2>2
  <2>3. CASE a \notin granted /\ b \notin granted
    BY <1>1, <1>4, <2>3
  <2> QED BY <2>1, <2>2, <2>3
<1>5. \A a \in Actors : /\ has'[a] \cup wants'[a] = h[a] \cup w[a]
                        /\ h[a] # {} => has'[a] = h[a]
  BY <1>1
<1> QED BY <1>2, <1>3, <1>4, <1>5 DEF TurnInv

\* A step that has nothing to do with the queue, or is the queue's own.
LEMMA TurnsOn ==
    ASSUME TurnInv, UNCHANGED turnVars \/ Turns!Grant(wants, has)
    PROVE  TurnInv' /\ \A a \in Actors : TurnKept(a)
<1>1. CASE UNCHANGED turnVars
  BY <1>1 DEF TurnInv, TurnKept, turnVars
<1>2. CASE Turns!Grant(wants, has)
  BY <1>2, GrantFacts DEF TurnInv, TurnKept
<1> QED BY <1>1, <1>2

\* Somebody asks for GPUs.
LEMMA AskFacts ==
    ASSUME TurnInv, NEW a \in Actors, NEW S \in SUBSET GPUs, Turns!Ask(a, S)
    PROVE  /\ TurnInv' /\ has'[a] \cup wants'[a] = S
           /\ \A b \in Actors \ {a} : TurnKept(b)
<1> DEFINE w == [wants EXCEPT ![a] = S]
<1>1. has[a] = {} /\ wants[a] = {} /\ Turns!Grant(w, has)
  BY DEF Turns!Ask
<1>2. /\ w \in [Actors -> SUBSET GPUs] /\ w[a] = S
      /\ \A b \in Actors \ {a} : w[b] = wants[b]
  BY DEF TurnInv
<1> HIDE DEF w
<1>3. \A b \in Actors : w[b] = {} \/ has[b] = {}
  BY <1>1, <1>2 DEF TurnInv
<1>4. /\ TurnInv'
      /\ \A b \in Actors : /\ has'[b] \cup wants'[b] = has[b] \cup w[b]
                           /\ has[b] # {} => has'[b] = has[b]
  BY <1>1, <1>2, <1>3, GrantFacts DEF TurnInv
<1> QED BY <1>1, <1>2, <1>4 DEF TurnKept

\* Somebody gives back what it has, or asks no longer.
LEMMA GiveBackFacts ==
    ASSUME TurnInv, NEW a \in Actors, GiveBack(a)
    PROVE  TurnInv' /\ \A b \in Actors \ {a} : TurnKept(b)
<1>1. CASE UNCHANGED turnVars
  BY <1>1, TurnsOn
<1>2. CASE Turns!GiveBack(a)
  <2> DEFINE h == [has EXCEPT ![a] = {}]
  <2>1. Turns!Grant(wants, h)
    BY <1>2 DEF Turns!GiveBack
  <2>2. /\ h \in [Actors -> SUBSET GPUs] /\ h[a] = {}
        /\ \A b \in Actors \ {a} : h[b] = has[b]
    BY DEF TurnInv
  <2> HIDE DEF h
  <2>3. /\ \A b \in Actors : wants[b] = {} \/ h[b] = {}
        /\ \A b, c \in Actors : b # c => h[b] \cap h[c] = {}
    BY <2>2 DEF TurnInv
  <2>4. /\ TurnInv'
        /\ \A b \in Actors : /\ has'[b] \cup wants'[b] = h[b] \cup wants[b]
                             /\ h[b] # {} => has'[b] = h[b]
    BY <2>1, <2>2, <2>3, GrantFacts DEF TurnInv
  <2> QED BY <2>2, <2>4 DEF TurnKept
<1>3. CASE Turns!Withdraw(a)
  <2> DEFINE w == [wants EXCEPT ![a] = {}]
  <2>1. Turns!Grant(w, has)
    BY <1>3 DEF Turns!Withdraw
  <2>2. /\ w \in [Actors -> SUBSET GPUs] /\ w[a] = {}
        /\ \A b \in Actors \ {a} : w[b] = wants[b]
    BY DEF TurnInv
  <2> HIDE DEF w
  <2>3. \A b \in Actors : w[b] = {} \/ has[b] = {}
    BY <2>2 DEF TurnInv
  <2>4. /\ TurnInv'
        /\ \A b \in Actors : /\ has'[b] \cup wants'[b] = has[b] \cup w[b]
                             /\ has[b] # {} => has'[b] = has[b]
    BY <2>1, <2>2, <2>3, GrantFacts DEF TurnInv
  <2> QED BY <2>2, <2>4 DEF TurnKept
<1> QED BY <1>1, <1>2, <1>3 DEF GiveBack

-----------------------------------------------------------------------------
(* What a step leaves alone.                                               *)

\* An actor's step does nothing to the other actors.
Others(a) == \A b \in Actors \ {a} :
    /\ pc'[b] = pc[b] /\ want'[b] = want[b] /\ out'[b] = out[b]
    /\ b \in Requests => pass'[b] = pass[b]
    /\ TurnKept(b)

\* An actor that nothing happens to stays right.
LEMMA ActorKept ==
    ASSUME TurnInv, ActorsOK, NEW b \in Actors,
           pc'[b] = pc[b], want'[b] = want[b], out'[b] = out[b],
           b \in Requests => pass'[b] = pass[b], TurnKept(b)
    PROVE  (b \in Requests => RequestOK(b)') /\ (b \in Jobs => JobOK(b)')
<1>1. ASSUME b \in Requests PROVE RequestOK(b)'
  <2>1. RequestOK(b) /\ UsedBy({want[b]})' = UsedBy({want[b]})
    BY <1>1 DEF ActorsOK, UsedBy
  <2>2. \A S : S \subseteq has[b] => S \subseteq has'[b]
    BY DEF TurnKept
  <2> QED BY <1>1, <2>1, <2>2 DEF RequestOK, TurnKept
<1>2. ASSUME b \in Jobs PROVE JobOK(b)'
  BY <1>2 DEF ActorsOK, JobOK, TurnKept
<1> QED BY <1>1, <1>2

\* The counts and the replies, when nothing happens to either.
LEMMA UseKept ==
    ASSUME IInv, UNCHANGED <<status, leaving, n, evicting, abandoned, stray>>,
           \A r \in Requests :
              /\ pc'[r] \in {"counted", "serve"} <=> pc[r] \in {"counted", "serve"}
              /\ pc'[r] = "serve" <=> pc[r] = "serve"
              /\ pc[r] \in {"counted", "serve"} => want'[r] = want[r]
    PROVE  UseInv' /\ RepliesUncut'
<1>1. \A l : Counting(l)' = Counting(l)
  BY DEF Counting
<1>2. UseInv'
  BY <1>1 DEF IInv, UseInv
<1>3. RepliesUncut'
  BY DEF IInv, RepliesUncut
<1> QED BY <1>2, <1>3

\* A step of an actor that is not, and will not be, counted by llmUse, and
\* that touches neither llmUse nor the router.
LEMMA QuietStep ==
    ASSUME IInv, NEW a \in Actors, TypeOK', TurnInv', Others(a),
           UNCHANGED <<status, leaving, n, evicting, abandoned, stray>>,
           a \in Requests => /\ pc[a] \notin {"counted", "serve"}
                             /\ pc'[a] \notin {"counted", "serve"} /\ RequestOK(a)',
           a \in Jobs => JobOK(a)'
    PROVE  IInv'
<1>1. ActorsOK'
  BY ActorKept DEF IInv, ActorsOK, Others, Actors
<1>2. UseInv' /\ RepliesUncut'
  BY UseKept DEF Others, Actors
<1> QED BY <1>1, <1>2 DEF IInv

-----------------------------------------------------------------------------
(* A request up to the load.                                               *)

\* A request is one actor, and no job.
LEMMA RequestFacts ==
    ASSUME IInv, NEW r \in Requests
    PROVE  /\ TypeOK /\ TurnInv /\ RequestOK(r) /\ r \in Actors /\ r \notin Jobs
           /\ want[r] \in LLMs \cup Backends \cup {None} /\ (pc[r] # "new" => want[r] \in LLMs)
           /\ UsedBy({want[r]})' = UsedBy({want'[r]}) /\ \A S : UsedBy(S) \subseteq GPUs
  BY TurnsAssumption DEF IInv, ActorsOK, RequestOK, Actors, TypeOK, UsedBy

\* A request arrives, and looks for its LLM.
LEMMA LookInv ==
    ASSUME IInv, NEW r \in Requests, Arrive(r) \/ Look(r)
    PROVE  IInv'
<1>1. /\ TypeOK /\ TurnInv /\ RequestOK(r) /\ r \in Actors /\ r \notin Jobs
      /\ UNCHANGED <<out, attempt, busy, beside, listed, routerVars, useVars, llmLoadMu,
                     backendVars, turnVars, history>>
  BY RequestFacts DEF Arrive, Look, requestVars
<1>2. TurnInv' /\ \A b \in Actors : TurnKept(b)
  BY <1>1, TurnsOn
<1>3. PICK to \in {"look", "wait", "begin", "lock"} : pc' = [pc EXCEPT ![r] = to]
  <2>1. CASE Arrive(r)
    BY <2>1 DEF Arrive, Goto
  <2>2. CASE Look(r)
    <3> DEFINE at == CASE status[want[r]] = "loaded" -> "begin"
                       [] status[want[r]] = "loading" -> "wait"
                       [] status[want[r]] = "unloaded" -> "lock"
    <3>1. want[r] \in LLMs
      BY <2>2, RequestFacts DEF Look
    <3>2. at \in {"wait", "begin", "lock"}
      BY <1>1, <3>1 DEF TypeOK
    <3> QED BY <2>2, <3>2 DEF Look, Goto
  <2> QED BY <2>1, <2>2
<1>4. /\ want' \in [Actors -> LLMs \cup Backends \cup {None}] /\ want'[r] \in LLMs
      /\ \A b \in Actors \ {r} : want'[b] = want[b]
      /\ pass' \in [Requests -> {"first", "free", "held"}]
      /\ \A b \in Requests \ {r} : pass'[b] = pass[b]
      /\ to # "look" => pass'[r] = "first"
  <2>1. CASE Arrive(r)
    BY <1>1, <1>3, <2>1, TurnsAssumption DEF Arrive, TypeOK, requestVars, Goto
  <2>2. CASE Look(r)
    BY <1>1, <1>3, <2>2, RequestFacts DEF Look, TypeOK
  <2> QED BY <2>1, <2>2
<1>5. TypeOK'
  BY <1>1, <1>2, <1>3, <1>4 DEF TypeOK, TurnInv, RequestAt, routerVars, useVars, backendVars, history
<1>6. RequestOK(r)'
  BY <1>1, <1>3, <1>4 DEF RequestOK, TypeOK, RequestAt, Arrive, Look
<1>7. Others(r) /\ pc[r] \notin {"counted", "serve"} /\ pc'[r] \notin {"counted", "serve"}
  BY <1>1, <1>2, <1>3, <1>4 DEF Others, TypeOK, Arrive, Look
<1> QED BY <1>1, <1>2, <1>5, <1>6, <1>7, QuietStep DEF routerVars, useVars, history

\* A request goes on, without touching llmUse or the router, and still has
\* the GPUs that it needs.
LEMMA RequestMove ==
    ASSUME IInv, NEW r \in Requests, NEW to \in RequestAt \ {"new", "lock", "counted", "serve"},
           pc[r] \notin {"new", "counted", "serve"}, pc' = [pc EXCEPT ![r] = to],
           UNCHANGED <<want, out, attempt, listed, routerVars, useVars, locked, history>>,
           pass' \in [Requests -> {"first", "free", "held"}],
           \A q \in Requests \ {r} : pass'[q] = pass[q],
           busy' \in [Requests -> BOOLEAN], beside' \in [Requests -> SUBSET Backends],
           llmLoadMu' \in Requests \cup {None},
           backend' \in [Backends -> {"stopped", "starting", "running"}],
           TurnInv', \A b \in Actors \ {r} : TurnKept(b),
           out[r] # None => to \in {"room", "free"},
           pass'[r] = "held" /\ to = "hold" => UsedBy({want[r]}) \subseteq has'[r] \cup wants'[r],
           pass'[r] = "held" /\ to \in {"relock", "room", "free", "wait"} =>
              UsedBy({want[r]}) \subseteq has'[r]
    PROVE  IInv'
<1>1. TypeOK /\ RequestOK(r) /\ r \in Actors /\ r \notin Jobs
  BY RequestFacts
<1>2. TypeOK'
  BY <1>1 DEF TypeOK, TurnInv, routerVars, useVars, history
<1>3. pc'[r] = to /\ \A b \in Actors \ {r} : pc'[b] = pc[b]
  BY <1>1 DEF TypeOK
<1>4. RequestOK(r)'
  BY <1>1, <1>3 DEF RequestOK, UsedBy
<1>5. Others(r)
  BY <1>3 DEF Others
<1> QED BY <1>1, <1>2, <1>3, <1>4, <1>5, QuietStep DEF routerVars, useVars, history

\* An answer ends a request and gives back its GPUs and the lock.
LEMMA AnswerInv ==
    ASSUME IInv, NEW r \in Requests, pc[r] \notin {"new", "counted", "serve"}, out[r] = None,
           Goto(r, "done"), GiveBack(r),
           llmLoadMu' \in {llmLoadMu, None},
           UNCHANGED <<want, out, attempt, pass, listed, routerVars, useVars, backendVars, history>>,
           busy' \in [Requests -> BOOLEAN], beside' \in [Requests -> SUBSET Backends]
    PROVE  IInv'
<1>1. TypeOK /\ TurnInv /\ r \in Actors
  BY RequestFacts
<1>2. TurnInv' /\ \A b \in Actors \ {r} : TurnKept(b)
  BY <1>1, GiveBackFacts
<1>3. /\ pc' = [pc EXCEPT ![r] = "done"]
      /\ "done" \in RequestAt \ {"new", "lock", "counted", "serve"}
  BY DEF Goto, RequestAt
<1>4. /\ pass' \in [Requests -> {"first", "free", "held"}]
      /\ llmLoadMu' \in Requests \cup {None}
      /\ backend' \in [Backends -> {"stopped", "starting", "running"}] /\ UNCHANGED locked
      /\ \A q \in Requests \ {r} : pass'[q] = pass[q]
  BY <1>1 DEF TypeOK, backendVars
<1> QED BY <1>2, <1>3, <1>4, RequestMove

\* The lock is taken, and the room is made or refused.
LEMMA RoomInv ==
    ASSUME IInv, NEW r \in Requests, Lock(r) \/ RefuseTooMany(r) \/ RoomMade(r) \/ Relock(r)
    PROVE  IInv'
<1>1. /\ TypeOK /\ TurnInv /\ RequestOK(r) /\ r \in Actors /\ pc[r] \in {"lock", "room", "relock"}
      /\ out[r] = None
      /\ UNCHANGED <<want, out, attempt, pass, listed, routerVars, useVars, backendVars, history>>
  BY RequestFacts DEF Lock, RefuseTooMany, RoomMade, Relock, RequestOK, requestVars
<1>2. /\ pass' \in [Requests -> {"first", "free", "held"}]
      /\ \A q \in Requests \ {r} : pass'[q] = pass[q]
      /\ backend' \in [Backends -> {"stopped", "starting", "running"}] /\ UNCHANGED locked
  BY <1>1 DEF TypeOK, backendVars
<1>3. /\ busy' \in [Requests -> BOOLEAN]
      /\ beside' \in [Requests -> SUBSET Backends]
  <2>1. BusyBlocked(want[r]) \in BOOLEAN /\ Counted \subseteq Backends
    BY DEF BusyBlocked, Counted
  <2> QED BY <1>1, <2>1 DEF TypeOK, Lock, RefuseTooMany, RoomMade, Relock, requestVars
<1>4. llmLoadMu' \in Requests \cup {None}
  BY <1>1 DEF TypeOK, Lock, RefuseTooMany, RoomMade, Relock, Unlock, Answer
<1>5. CASE Goto(r, "done") /\ GiveBack(r) /\ llmLoadMu' \in {llmLoadMu, None}
  BY <1>1, <1>3, <1>5, AnswerInv
<1>6. ASSUME UNCHANGED turnVars, NEW to \in {"room", "free", "ask"}, Goto(r, to),
             pc[r] = "lock" \/ pass[r] # "held" \/ (to # "ask" /\ pc[r] \in {"room", "relock"})
      PROVE  IInv'
  <2>1. TurnInv' /\ \A b \in Actors : TurnKept(b)
    BY <1>1, <1>6, TurnsOn
  <2>2. pc' = [pc EXCEPT ![r] = to] /\ to \in RequestAt \ {"new", "lock", "counted", "serve"}
    BY <1>6 DEF Goto, RequestAt
  <2>3. pass'[r] = "held" => UsedBy({want[r]}) \subseteq has'[r]
    BY <1>1, <1>6 DEF RequestOK, turnVars
  <2> QED BY <1>1, <1>2, <1>3, <1>4, <1>6, <2>1, <2>2, <2>3, RequestMove
<1>7. CASE Lock(r)
  BY <1>1, <1>5, <1>6, <1>7 DEF Lock, Answer, Unlock
<1>8. CASE RefuseTooMany(r)
  BY <1>5, <1>8 DEF RefuseTooMany, Answer, Unlock
<1>9. CASE RoomMade(r)
  BY <1>1, <1>5, <1>6, <1>9 DEF RoomMade, Answer, Unlock
<1>10. CASE Relock(r)
  BY <1>6, <1>10 DEF Relock
<1> QED BY <1>7, <1>8, <1>9, <1>10

\* A request takes the turns of GPUs, and stops backends there.
LEMMA TurnsInv ==
    ASSUME IInv, NEW r \in Requests, TakeGPUs(r) \/ StopForLLM(r) \/ StopsDone(r) \/ LoadDone(r)
    PROVE  IInv'
<1>1. /\ TypeOK /\ TurnInv /\ RequestOK(r) /\ r \in Actors /\ want[r] \in LLMs
      /\ pc[r] \in {"ask", "hold", "wait"} /\ out[r] = None
      /\ UNCHANGED <<want, out, attempt, busy, beside, listed, routerVars, useVars, locked, history>>
  BY RequestFacts DEF TakeGPUs, StopForLLM, StopsDone, LoadDone, RequestOK, requestVars,
     backendVars, actorVars
<1>2. /\ busy' \in [Requests -> BOOLEAN] /\ beside' \in [Requests -> SUBSET Backends]
      /\ llmLoadMu' \in Requests \cup {None}
      /\ backend' \in [Backends -> {"stopped", "starting", "running"}]
  BY <1>1 DEF TypeOK, TakeGPUs, StopForLLM, StopLargest, StopsDone, LoadDone, Unlock, Answer,
     backendVars
<1>3. /\ pass' \in [Requests -> {"first", "free", "held"}]
      /\ \A q \in Requests \ {r} : pass'[q] = pass[q]
  BY <1>1 DEF TypeOK, TakeGPUs, StopForLLM, StopsDone, LoadDone, requestVars
<1>4. {"hold", "relock", "begin", "done"} \subseteq RequestAt \ {"new", "lock", "counted", "serve"}
  BY DEF RequestAt
<1>5. CASE TakeGPUs(r)
  <2>1. CASE pass' = [pass EXCEPT ![r] = "free"] /\ Goto(r, "relock") /\ UNCHANGED turnVars
    <3>1. TurnInv' /\ \A b \in Actors : TurnKept(b)
      BY <1>1, <2>1, TurnsOn
    <3> QED BY <1>1, <1>2, <1>3, <1>4, <2>1, <3>1, RequestMove DEF Goto, TypeOK
  <2>2. CASE Turns!Ask(r, UsedBy(Loaded \cup {want[r]})) /\ Goto(r, "hold")
    <3>1. /\ UsedBy(Loaded \cup {want[r]}) \subseteq GPUs
          /\ UsedBy({want[r]}) \subseteq UsedBy(Loaded \cup {want[r]})
      BY DEF UsedBy
    <3>2. /\ TurnInv' /\ \A b \in Actors \ {r} : TurnKept(b)
          /\ UsedBy({want[r]}) \subseteq has'[r] \cup wants'[r]
      BY <1>1, <2>2, <3>1, AskFacts
    <3> QED BY <1>1, <1>2, <1>3, <1>4, <2>2, <3>2, RequestMove DEF Goto
  <2> QED BY <1>5, <2>1, <2>2 DEF TakeGPUs
<1>6. CASE StopForLLM(r)
  <2>1. TurnInv' /\ \A b \in Actors : TurnKept(b)
    BY <1>1, <1>6, TurnsOn DEF StopForLLM
  <2>2. pc' = [pc EXCEPT ![r] = "hold"]
    BY <1>1, <1>6 DEF StopForLLM, actorVars, TypeOK
  <2>3. pass'[r] = "held" => UsedBy({want[r]}) \subseteq has'[r] \cup wants'[r]
    BY <1>1, <1>6 DEF StopForLLM, RequestOK, turnVars, requestVars
  <2> QED BY <1>1, <1>2, <1>3, <1>4, <2>1, <2>2, <2>3, RequestMove
<1>7. CASE StopsDone(r)
  <2>1. CASE Goto(r, "relock") /\ UNCHANGED turnVars
    <3>1. TurnInv' /\ \A b \in Actors : TurnKept(b)
      BY <1>1, <2>1, TurnsOn
    <3>2. pass'[r] = "held" => UsedBy({want[r]}) \subseteq has'[r]
      BY <1>1, <1>7, <2>1 DEF StopsDone, RequestOK, TurnInv, turnVars, requestVars
    <3> QED BY <1>1, <1>2, <1>3, <1>4, <2>1, <3>1, <3>2, RequestMove DEF Goto
  <2>2. CASE Answer(r)
    BY <1>1, <1>2, <1>7, <2>2, AnswerInv DEF StopsDone, Answer, Unlock, requestVars
  <2> QED BY <1>7, <2>1, <2>2 DEF StopsDone
<1>8. CASE LoadDone(r)
  <2>1. TurnInv' /\ \A b \in Actors \ {r} : TurnKept(b)
    BY <1>1, <1>8, GiveBackFacts DEF LoadDone
  <2>2. PICK to \in {"begin", "done"} : pc' = [pc EXCEPT ![r] = to]
    BY <1>8 DEF LoadDone, Goto
  <2> QED BY <1>1, <1>2, <1>3, <1>4, <2>1, <2>2, RequestMove
<1> QED BY <1>5, <1>6, <1>7, <1>8

-----------------------------------------------------------------------------
(* Unloading, and counting replies.                                        *)

\* A step of an actor that leaves the counts and the replies right.
LEMMA ActorStep ==
    ASSUME IInv, NEW a \in Actors, TypeOK', TurnInv', Others(a), UseInv', RepliesUncut',
           a \in Requests => RequestOK(a)', a \in Jobs => JobOK(a)'
    PROVE  IInv'
<1>1. ActorsOK'
  BY ActorKept DEF IInv, ActorsOK, Others, Actors
<1> QED BY <1>1 DEF IInv

\* A set of requests is finite, and so is their count.
LEMMA CountingFacts ==
    ASSUME NEW S \in SUBSET Requests
    PROVE  /\ IsFiniteSet(S) /\ Cardinality(S) \in 0..Cardinality(Requests)
           /\ Cardinality(S) = 0 <=> S = {}
<1>1. IsFiniteSet(Requests)
  BY TurnsAssumption
<1>2. IsFiniteSet(S) /\ Cardinality(S) <= Cardinality(Requests)
  BY <1>1, FS_Subset
<1> QED BY <1>1, <1>2, FS_CardinalityType, FS_EmptySet

\* An LLM with a request that is counted for it is used.
LEMMA CountedIsUsed ==
    ASSUME IInv, NEW r \in Requests, pc[r] \in {"counted", "serve"}
    PROVE  want[r] \in LLMs /\ n[want[r]] # 0
<1>1. want[r] \in LLMs
  BY RequestFacts
<1>2. r \in Counting(want[r]) /\ Counting(want[r]) \subseteq Requests
  BY DEF Counting
<1> QED BY <1>1, <1>2, CountingFacts DEF IInv, UseInv

\* Nobody's reply is cut by an unload.
LEMMA UnloadUse ==
    ASSUME IInv, NEW a, NEW l \in LLMs, Unload(a, l), UNCHANGED <<abandoned, stray>>,
           \A r \in Requests : pc'[r] = pc[r] /\ want'[r] = want[r]
    PROVE  UseInv' /\ RepliesUncut'
<1>1. \A m : Counting(m)' = Counting(m)
  BY DEF Counting
<1>2. /\ n[l] = 0 /\ evicting' = evicting \cup {l} /\ leaving' = leaving \cup {l}
      /\ status' = status /\ n' = n
  BY DEF Unload, Unused
<1>3. UseInv'
  BY <1>1, <1>2 DEF IInv, UseInv
<1>4. RepliesUncut'
  <2> SUFFICES ASSUME NEW r \in Requests, pc[r] = "serve", r \notin stray
               PROVE  status[want[r]] = "loaded" /\ want[r] \notin leaving \cup {l}
    BY <1>2 DEF RepliesUncut
  <2>1. want[r] # l
    BY <1>2, CountedIsUsed
  <2> QED BY <2>1 DEF IInv, RepliesUncut
<1> QED BY <1>3, <1>4

\* An unload ends, or is given up.
LEMMA EvictedUse ==
    ASSUME IInv, NEW a, EndEvicting(a), UNCHANGED <<status, leaving, stray>>,
           abandoned \subseteq abandoned', leaving \cap {out[a]} \subseteq abandoned',
           \A r \in Requests :
              /\ pc'[r] \in {"counted", "serve"} <=> pc[r] \in {"counted", "serve"}
              /\ pc'[r] = "serve" <=> pc[r] = "serve"
              /\ pc[r] \in {"counted", "serve"} => want'[r] = want[r]
    PROVE  UseInv' /\ RepliesUncut'
<1>1. \A m : Counting(m)' = Counting(m)
  BY DEF Counting
<1>2. UseInv'
  BY <1>1 DEF IInv, UseInv, EndEvicting
<1>3. RepliesUncut'
  BY DEF IInv, RepliesUncut
<1> QED BY <1>2, <1>3

\* A request unloads an idle LLM.
LEMMA RequestUnloads ==
    ASSUME IInv, NEW r \in Requests, UnloadIdle(r) \/ UnloadMore(r)
    PROVE  IInv'
<1>1. PICK l \in Idle(want[r]) : Unload(r, l)
  BY DEF UnloadIdle, UnloadMore, InTheWay
<1>2. /\ TypeOK /\ TurnInv /\ RequestOK(r) /\ r \in Actors /\ r \notin Jobs
      /\ l \in LLMs /\ status[l] = "loaded" /\ pc[r] \in {"room", "free"}
      /\ UNCHANGED <<pc, want, requestVars, listed, llmLoadMu, backendVars, turnVars, history>>
  BY RequestFacts DEF UnloadIdle, UnloadMore, Idle
<1>3. /\ evicting' = evicting \cup {l} /\ leaving' = leaving \cup {l} /\ UNCHANGED <<status, n>>
      /\ out' = [out EXCEPT ![r] = l]
  BY <1>1 DEF Unload
<1>4. TurnInv' /\ \A b \in Actors : TurnKept(b)
  BY <1>2, TurnsOn
<1>5. TypeOK'
  BY <1>2, <1>3, <1>4 DEF TypeOK, TurnInv, requestVars, backendVars, history
<1>6. UseInv' /\ RepliesUncut'
  BY <1>1, <1>2, UnloadUse DEF history
<1>7. RequestOK(r)'
  BY <1>2 DEF RequestOK, UsedBy, requestVars, turnVars
<1>8. Others(r)
  BY <1>2, <1>3, <1>4 DEF Others, TypeOK, requestVars
<1> QED BY <1>2, <1>4, <1>5, <1>6, <1>7, <1>8, ActorStep

\* The unload ends, or the request is given up.
LEMMA RequestEvicted ==
    ASSUME IInv, NEW r \in Requests, Unloaded(r) \/ GiveUp(r)
    PROVE  IInv'
<1>1. /\ TypeOK /\ TurnInv /\ RequestOK(r) /\ r \in Actors /\ r \notin Jobs
      /\ pc[r] \in {"hold", "room", "free", "wait", "begin"}
      /\ EndEvicting(r) /\ UNCHANGED <<want, requestVars, listed, routerVars, backendVars, stray>>
  BY RequestFacts DEF Unloaded, GiveUp, Fail, RequestOK, history
<1>2. out' = [out EXCEPT ![r] = None] /\ evicting' = evicting \ {out[r]} /\ n' = n
  BY <1>1 DEF EndEvicting
<1>3. TurnInv' /\ \A b \in Actors \ {r} : TurnKept(b)
  BY <1>1, TurnsOn, GiveBackFacts DEF Unloaded, GiveUp, Fail, Answer
<1>4. PICK to \in {pc[r], "done"} : pc' = [pc EXCEPT ![r] = to]
  <2>1. pc = [pc EXCEPT ![r] = pc[r]]
    BY <1>1 DEF TypeOK
  <2> QED BY <2>1 DEF Unloaded, GiveUp, Fail, Answer, Goto
<1>5. /\ abandoned \subseteq abandoned' /\ abandoned' \subseteq leaving
      /\ leaving \cap {out[r]} \subseteq abandoned'
      /\ to = "done" \/ UNCHANGED <<pc, turnVars>>
  <2>1. CASE Unloaded(r)
    BY <1>1, <2>1 DEF Unloaded, TypeOK, history
  <2>2. CASE GiveUp(r)
    <3>1. pc' = [pc EXCEPT ![r] = "done"]
      BY <2>2 DEF GiveUp, Fail, Answer, Goto
    <3>2. to = "done"
      BY <1>1, <1>4, <3>1 DEF TypeOK
    <3> QED BY <1>1, <2>2, <3>2 DEF GiveUp, Fail, TypeOK
  <2> QED BY <2>1, <2>2
<1>6. llmLoadMu' \in Requests \cup {None}
  BY <1>1 DEF TypeOK, Unloaded, GiveUp, Fail, Answer, Unlock
<1>7. TypeOK'
  BY <1>1, <1>2, <1>3, <1>4, <1>5, <1>6 DEF TypeOK, TurnInv, RequestAt, requestVars, routerVars, backendVars
<1>8. UseInv' /\ RepliesUncut'
  <2>1. \A q \in Requests :
          /\ pc'[q] \in {"counted", "serve"} <=> pc[q] \in {"counted", "serve"}
          /\ pc'[q] = "serve" <=> pc[q] = "serve"
          /\ want'[q] = want[q]
    BY <1>1, <1>4 DEF TypeOK
  <2> QED BY <1>1, <1>5, <2>1, EvictedUse DEF routerVars
<1>9. RequestOK(r)'
  BY <1>1, <1>2, <1>4, <1>5 DEF RequestOK, UsedBy, TypeOK, RequestAt, requestVars, turnVars
<1>10. Others(r)
  BY <1>1, <1>2, <1>3, <1>4 DEF Others, TypeOK, requestVars
<1> QED BY <1>1, <1>3, <1>7, <1>8, <1>9, <1>10, ActorStep

\* The load is sent: an LLM that was not loaded is loading now.
LEMMA SendLoadInv ==
    ASSUME IInv, NEW r \in Requests, SendLoad(r)
    PROVE  IInv'
<1>1. /\ TypeOK /\ TurnInv /\ RequestOK(r) /\ r \in Actors /\ r \notin Jobs /\ want[r] \in LLMs
      /\ pc[r] = "free" /\ out[r] = None /\ pc' = [pc EXCEPT ![r] = "wait"]
      /\ UNCHANGED <<want, out, requestVars, listed, leaving, useVars, backendVars, turnVars, history>>
  BY RequestFacts DEF SendLoad, Goto
<1>2. /\ status' \in [LLMs -> {"unloaded", "loading", "loaded"}]
      /\ \A l \in LLMs : status[l] # "unloaded" => status'[l] = status[l]
  BY <1>1 DEF SendLoad, TypeOK
<1>3. llmLoadMu' \in Requests \cup {None}
  BY <1>1 DEF SendLoad, Unlock, TypeOK
<1>4. TurnInv' /\ \A b \in Actors : TurnKept(b)
  BY <1>1, TurnsOn
<1>5. TypeOK'
  BY <1>1, <1>2, <1>3, <1>4 DEF TypeOK, TurnInv, RequestAt, requestVars, useVars, backendVars, history
<1>6. \A m : Counting(m)' = Counting(m)
  BY <1>1 DEF Counting, TypeOK
<1>7. UseInv'
  BY <1>1, <1>6 DEF IInv, UseInv, useVars, history
<1>8. RepliesUncut'
  <2> SUFFICES ASSUME NEW q \in Requests, pc'[q] = "serve", q \notin stray
               PROVE  status'[want[q]] = "loaded" /\ want[q] \notin leaving
    BY <1>1 DEF RepliesUncut, history
  <2>1. pc[q] = "serve"
    BY <1>1 DEF TypeOK
  <2> QED BY <1>2, <2>1, CountedIsUsed DEF IInv, RepliesUncut
<1>9. RequestOK(r)'
  BY <1>1 DEF RequestOK, UsedBy, TypeOK, RequestAt, requestVars, turnVars
<1>10. Others(r)
  BY <1>1, <1>4 DEF Others, TypeOK, requestVars
<1> QED BY <1>1, <1>4, <1>5, <1>7, <1>8, <1>9, <1>10, ActorStep

\* A request begins a reply, and is counted.
LEMMA BeginInv ==
    ASSUME IInv, NEW r \in Requests, Begin(r)
    PROVE  IInv'
<1> DEFINE m == want[r]
<1>1. /\ TypeOK /\ TurnInv /\ RequestOK(r) /\ r \in Actors /\ r \notin Jobs /\ m \in LLMs
      /\ pc[r] = "begin" /\ m \notin evicting /\ out[r] = None
      /\ pc' = [pc EXCEPT ![r] = "counted"] /\ n' = [n EXCEPT ![m] = n[m] + 1]
      /\ UNCHANGED <<want, out, requestVars, listed, routerVars, evicting, llmLoadMu, backendVars,
                     turnVars, history>>
  BY RequestFacts DEF Begin, Goto, NotEvicting, RequestOK
<1>2. TurnInv' /\ \A b \in Actors : TurnKept(b)
  BY <1>1, TurnsOn
<1>3. Counting(m)' = Counting(m) \cup {r} /\ r \notin Counting(m)
  BY <1>1 DEF Counting, TypeOK
<1>4. \A l \in LLMs \ {m} : Counting(l)' = Counting(l)
  BY <1>1 DEF Counting, TypeOK
<1>5. Counting(m) \subseteq Requests /\ \A l : Counting(l)' \subseteq Requests
  BY DEF Counting
<1>6. Cardinality(Counting(m)') = Cardinality(Counting(m)) + 1
  BY <1>3, <1>5, CountingFacts, FS_AddElement
<1>7. \A l \in LLMs : n'[l] = Cardinality(Counting(l)')
  BY <1>1, <1>4, <1>6 DEF IInv, UseInv, TypeOK
<1> HIDE DEF m
<1>8. n' \in [LLMs -> 0..Cardinality(Requests)]
  <2>1. \A l \in LLMs : n'[l] \in 0..Cardinality(Requests)
    BY <1>5, <1>7, CountingFacts
  <2> QED BY <1>1, <2>1 DEF TypeOK
<1>9. TypeOK'
  BY <1>1, <1>2, <1>8 DEF TypeOK, TurnInv, RequestAt, requestVars, routerVars, backendVars, history
<1>10. UseInv'
  BY <1>1, <1>7 DEF IInv, UseInv, TypeOK, routerVars, history
<1>11. RepliesUncut'
  BY <1>1 DEF IInv, RepliesUncut, TypeOK, routerVars, history
<1>12. RequestOK(r)'
  BY <1>1 DEF RequestOK, m, TypeOK, RequestAt
<1>13. Others(r)
  BY <1>1, <1>2 DEF Others, TypeOK, requestVars
<1> QED BY <1>1, <1>2, <1>9, <1>10, <1>11, <1>12, <1>13, ActorStep

\* A counted request leaves, and is counted no longer.
LEMMA UncountInv ==
    ASSUME IInv, NEW r \in Requests, NEW to \in {"look", "done"}, pc[r] \in {"counted", "serve"},
           pc' = [pc EXCEPT ![r] = to], Uncount(r), attempt' \in [Requests -> 1..LoadAttempts],
           UNCHANGED <<want, out, pass, busy, beside, listed, routerVars, evicting, llmLoadMu,
                       backendVars, turnVars, history>>
    PROVE  IInv'
<1> DEFINE m == want[r]
<1>1. /\ TypeOK /\ TurnInv /\ RequestOK(r) /\ r \in Actors /\ r \notin Jobs /\ m \in LLMs
      /\ n[m] # 0 /\ n' = [n EXCEPT ![m] = n[m] - 1] /\ out[r] = None
  BY RequestFacts, CountedIsUsed DEF Uncount, RequestOK
<1>2. TurnInv' /\ \A b \in Actors : TurnKept(b)
  BY <1>1, TurnsOn
<1>3. Counting(m)' = Counting(m) \ {r} /\ r \in Counting(m)
  BY <1>1 DEF Counting, TypeOK
<1>4. \A l \in LLMs \ {m} : Counting(l)' = Counting(l)
  BY <1>1 DEF Counting, TypeOK
<1>5. Counting(m) \subseteq Requests /\ \A l : Counting(l)' \subseteq Requests
  BY DEF Counting
<1>6. Cardinality(Counting(m)') = Cardinality(Counting(m)) - 1
  BY <1>3, <1>5, CountingFacts, FS_RemoveElement
<1>7. \A l \in LLMs : n'[l] = Cardinality(Counting(l)')
  BY <1>1, <1>4, <1>6 DEF IInv, UseInv, TypeOK
<1> HIDE DEF m
<1>8. n' \in [LLMs -> 0..Cardinality(Requests)]
  <2>1. \A l \in LLMs : n'[l] \in 0..Cardinality(Requests)
    BY <1>5, <1>7, CountingFacts
  <2> QED BY <1>1, <2>1 DEF TypeOK
<1>9. TypeOK'
  BY <1>1, <1>2, <1>8 DEF TypeOK, TurnInv, RequestAt, routerVars, backendVars, history
<1>10. UseInv'
  BY <1>1, <1>7 DEF IInv, UseInv, TypeOK, routerVars, history
<1>11. RepliesUncut'
  BY <1>1 DEF IInv, RepliesUncut, TypeOK, routerVars, history
<1>12. RequestOK(r)'
  BY <1>1 DEF RequestOK, m, TypeOK, RequestAt
<1>13. Others(r)
  BY <1>1, <1>2 DEF Others, TypeOK
<1> QED BY <1>1, <1>2, <1>9, <1>10, <1>11, <1>12, <1>13, ActorStep

\* A counted request is sent on only if its LLM is loaded and stays so.
LEMMA ReplyInv ==
    ASSUME IInv, NEW r \in Requests, CheckLoaded(r) \/ EndReply(r)
    PROVE  IInv'
<1>1. /\ TypeOK /\ TurnInv /\ RequestOK(r) /\ r \in Actors /\ r \notin Jobs /\ want[r] \in LLMs
      /\ pc[r] \in {"counted", "serve"} /\ n[want[r]] # 0 /\ out[r] = None
  BY RequestFacts, CountedIsUsed DEF CheckLoaded, EndReply, RequestOK
<1>2. CASE Uncount(r)
  <2>1. PICK to \in {"look", "done"} : pc' = [pc EXCEPT ![r] = to]
    BY <1>1, <1>2, TurnsAssumption DEF CheckLoaded, EndReply, Goto, Uncount, TypeOK
  <2>2. attempt' \in [Requests -> 1..LoadAttempts]
    <3>1. CASE UNCHANGED attempt
      BY <1>1, <3>1 DEF TypeOK
    <3>2. CASE attempt[r] < LoadAttempts /\ attempt' = [attempt EXCEPT ![r] = attempt[r] + 1]
      <4>1. attempt[r] + 1 \in 1..LoadAttempts
        BY <1>1, <3>2, TurnsAssumption DEF TypeOK
      <4> QED BY <1>1, <3>2, <4>1 DEF TypeOK
    <3> QED BY <1>1, <1>2, <3>1, <3>2 DEF CheckLoaded, EndReply, Uncount, TypeOK, requestVars
  <2>3. UNCHANGED <<want, out, pass, busy, beside, listed, routerVars, evicting, llmLoadMu,
                    backendVars, turnVars, history>>
    BY <1>1, <1>2 DEF CheckLoaded, EndReply, Uncount, TypeOK, requestVars, history
  <2> QED BY <1>1, <1>2, <2>1, <2>2, <2>3, UncountInv
<1>3. CASE CheckLoaded(r) /\ status[want[r]] = "loaded"
  <2>1. /\ pc[r] = "counted" /\ pc' = [pc EXCEPT ![r] = "serve"]
        /\ stray' = stray \cup {q \in {r} : want[r] \in abandoned}
        /\ UNCHANGED <<want, out, attempt, pass, busy, beside, listed, routerVars, useVars,
                       llmLoadMu, backendVars, turnVars, abandoned>>
    BY <1>3 DEF CheckLoaded, Goto, useVars
  <2>2. TurnInv' /\ \A b \in Actors : TurnKept(b)
    BY <1>1, <2>1, TurnsOn
  <2>3. TypeOK'
    BY <1>1, <2>1, <2>2 DEF TypeOK, TurnInv, RequestAt, routerVars, useVars, backendVars
  <2>4. \A l : Counting(l)' = Counting(l)
    BY <1>1, <2>1 DEF Counting, TypeOK
  <2>5. UseInv'
    BY <2>1, <2>4 DEF IInv, UseInv, routerVars, useVars
  <2>6. RepliesUncut'
    <3>1. want[r] \in leaving => r \in stray'
      BY <1>1, <2>1 DEF IInv, UseInv
    <3> QED BY <1>1, <1>3, <2>1, <3>1 DEF IInv, RepliesUncut, TypeOK, routerVars
  <2>7. RequestOK(r)'
    BY <1>1, <2>1 DEF RequestOK, TypeOK, RequestAt
  <2>8. Others(r)
    BY <1>1, <2>1, <2>2 DEF Others, TypeOK
  <2> QED BY <1>1, <2>2, <2>3, <2>5, <2>6, <2>7, <2>8, ActorStep
<1> QED BY <1>2, <1>3 DEF CheckLoaded, EndReply

-----------------------------------------------------------------------------
(* A job.                                                                  *)

\* A job is one actor, and no request; what it waits for is a backend.
LEMMA JobFacts ==
    ASSUME IInv, NEW j \in Jobs
    PROVE  /\ TypeOK /\ TurnInv /\ JobOK(j) /\ j \in Actors /\ j \notin Requests
           /\ (pc[j] # "new" => want[j] \in Backends /\ On[want[j]] \in GPUs)
  BY TurnsAssumption DEF IInv, ActorsOK, JobOK, Actors

\* A job goes on, without touching llmUse or the router, and has its GPU.
LEMMA JobMove ==
    ASSUME IInv, NEW j \in Jobs, NEW to \in JobAt \ {"new"},
           pc[j] # "new", pc' = [pc EXCEPT ![j] = to],
           UNCHANGED <<want, out, requestVars, routerVars, useVars, llmLoadMu, locked, history>>,
           listed' \in [Jobs -> SUBSET LLMs],
           backend' \in [Backends -> {"stopped", "starting", "running"}],
           TurnInv', \A b \in Actors \ {j} : TurnKept(b),
           out[j] # None => to = "llms",
           to = "queued" => has'[j] \cup wants'[j] = {On[want[j]]},
           to \notin {"queued", "done"} => has'[j] = {On[want[j]]}
    PROVE  IInv'
<1>1. TypeOK /\ JobOK(j) /\ j \in Actors /\ j \notin Requests /\ want[j] \in Backends
  BY JobFacts
<1>2. TypeOK'
  BY <1>1 DEF TypeOK, TurnInv, requestVars, routerVars, useVars, history
<1>3. pc'[j] = to /\ \A b \in Actors \ {j} : pc'[b] = pc[b]
  BY <1>1 DEF TypeOK
<1>4. JobOK(j)'
  BY <1>1, <1>3 DEF JobOK
<1>5. Others(j)
  BY <1>3 DEF Others, requestVars
<1> QED BY <1>1, <1>2, <1>3, <1>4, <1>5, QuietStep DEF routerVars, useVars, history

\* A job is submitted: it asks for its backend's GPU.
LEMMA SubmitInv ==
    ASSUME IInv, NEW j \in Jobs, Submit(j)
    PROVE  IInv'
<1>1. PICK b \in MayWant[j] : want' = [want EXCEPT ![j] = b] /\ Turns!Ask(j, {On[b]})
  BY DEF Submit
<1>2. /\ TypeOK /\ TurnInv /\ JobOK(j) /\ j \in Actors /\ j \notin Requests
      /\ pc[j] = "new" /\ pc' = [pc EXCEPT ![j] = "queued"]
      /\ UNCHANGED <<out, requestVars, listed, routerVars, useVars, llmLoadMu, backendVars, history>>
  BY JobFacts DEF Submit, Goto
<1>3. b \in Backends /\ On[b] \in GPUs
  BY TurnsAssumption
<1>4. /\ TurnInv' /\ has'[j] \cup wants'[j] = {On[b]}
      /\ \A c \in Actors \ {j} : TurnKept(c)
  BY <1>1, <1>2, <1>3, AskFacts
<1>5. TypeOK'
  BY <1>1, <1>2, <1>3, <1>4 DEF TypeOK, TurnInv, JobAt, requestVars, routerVars, useVars, backendVars, history
<1>6. JobOK(j)'
  BY <1>1, <1>2, <1>3, <1>4 DEF JobOK, TypeOK, JobAt
<1>7. Others(j)
  BY <1>1, <1>2, <1>4 DEF Others, TypeOK, requestVars
<1> QED BY <1>2, <1>4, <1>5, <1>6, <1>7, QuietStep DEF routerVars, useVars, history

\* A job ends, and gives back its GPU.
LEMMA EndJobInv ==
    ASSUME IInv, NEW j \in Jobs, pc[j] # "new", out[j] = None, EndJob(j),
           UNCHANGED <<want, out, requestVars, listed, routerVars, useVars, llmLoadMu, backendVars, history>>
    PROVE  IInv'
<1>1. TypeOK /\ TurnInv /\ j \in Actors
  BY JobFacts
<1>2. TurnInv' /\ \A b \in Actors \ {j} : TurnKept(b)
  BY <1>1, GiveBackFacts DEF EndJob
<1>3. pc' = [pc EXCEPT ![j] = "done"] /\ "done" \in JobAt \ {"new"}
  BY DEF EndJob, Goto, JobAt
<1>4. /\ listed' \in [Jobs -> SUBSET LLMs] /\ UNCHANGED locked
      /\ backend' \in [Backends -> {"stopped", "starting", "running"}]
  BY <1>1 DEF TypeOK, backendVars
<1> QED BY <1>2, <1>3, <1>4, JobMove

\* A job that has its GPU goes on with it.
LEMMA JobGoesOn ==
    ASSUME IInv, NEW j \in Jobs, NEW to \in JobAt \ {"new", "queued", "done"},
           \/ pc[j] \in JobAt \ {"new", "queued", "done"}
           \/ pc[j] = "queued" /\ has[j] # {},
           Goto(j, to), out[j] # None => to = "llms",
           UNCHANGED <<want, out, requestVars, routerVars, useVars, llmLoadMu, locked, turnVars, history>>,
           listed' \in [Jobs -> SUBSET LLMs],
           backend' \in [Backends -> {"stopped", "starting", "running"}]
    PROVE  IInv'
<1>1. TypeOK /\ TurnInv /\ JobOK(j) /\ pc[j] # "new" /\ j \in Actors
  BY JobFacts
<1>2. TurnInv' /\ \A b \in Actors : TurnKept(b)
  BY <1>1, TurnsOn
<1>3. has'[j] = {On[want[j]]}
  BY <1>1 DEF JobOK, turnVars
<1>4. pc' = [pc EXCEPT ![j] = to]
  BY DEF Goto
<1> QED BY <1>1, <1>2, <1>3, <1>4, JobMove

\* A job makes room: it stops backends, and looks for the LLMs in its way.
LEMMA JobRoomInv ==
    ASSUME IInv, NEW j \in Jobs, GenReady(j) \/ StopForJob(j) \/ StoppedEnough(j) \/ ListLLMs(j)
    PROVE  IInv'
<1>1. /\ TypeOK /\ JobOK(j) /\ pc[j] \in {"queued", "stop", "stopped"} /\ out[j] = None
      /\ pc[j] = "queued" => has[j] # {}
      /\ UNCHANGED <<want, out, requestVars, routerVars, useVars, llmLoadMu, locked, turnVars, history>>
  BY JobFacts DEF GenReady, StopForJob, StoppedEnough, ListLLMs, JobOK, backendVars
<1>2. /\ listed' \in [Jobs -> SUBSET LLMs]
      /\ backend' \in [Backends -> {"stopped", "starting", "running"}]
  <2>1. {l \in Loaded : On[want[j]] \in UsedBy({l})} \subseteq LLMs
    BY DEF Loaded
  <2>2. UNCHANGED listed \/ listed' = [listed EXCEPT ![j] = {l \in Loaded : On[want[j]] \in UsedBy({l})}]
    BY DEF GenReady, StopForJob, StoppedEnough, ListLLMs
  <2>3. UNCHANGED backend \/ \E b : backend' = [backend EXCEPT ![b] = "stopped"]
    BY DEF GenReady, StopForJob, StopLargest, StoppedEnough, ListLLMs, backendVars
  <2>4. listed \in [Jobs -> SUBSET LLMs] /\ backend \in [Backends -> {"stopped", "starting", "running"}]
    BY <1>1 DEF TypeOK
  <2>5. listed' \in [Jobs -> SUBSET LLMs]
    BY <2>1, <2>2, <2>4
  <2>6. backend' \in [Backends -> {"stopped", "starting", "running"}]
    BY <2>3, <2>4
  <2> QED BY <2>5, <2>6
<1>3. PICK to \in {"work", "starting", "start", "stop", "stopped", "llms"} : Goto(j, to)
  <2>1. CASE GenReady(j)
    <3>1. want[j] \in Backends
      BY <1>1, JobFacts
    <3> QED BY <1>1, <2>1, <3>1 DEF GenReady, TypeOK
  <2>2. CASE StopForJob(j) \/ StoppedEnough(j) \/ ListLLMs(j)
    BY <2>2 DEF StopForJob, StoppedEnough, ListLLMs
  <2> QED BY <2>1, <2>2
<1> QED BY <1>1, <1>2, <1>3, JobGoesOn DEF JobAt

\* A job starts its backend, waits for it, and works.
LEMMA JobWorkInv ==
    ASSUME IInv, NEW j \in Jobs, NothingLeft(j) \/ StartGenInstance(j) \/ WaitRunning(j) \/ EndWork(j)
    PROVE  IInv'
<1>1. /\ TypeOK /\ JobOK(j) /\ pc[j] \in {"llms", "start", "starting", "work"} /\ out[j] = None
      /\ want[j] \in Backends
      /\ UNCHANGED <<want, out, requestVars, listed, routerVars, useVars, llmLoadMu, locked, history>>
  BY JobFacts DEF NothingLeft, StartGenInstance, WaitRunning, EndWork, JobOK, backendVars
<1>2. CASE EndJob(j) /\ UNCHANGED backend
  BY <1>1, <1>2, EndJobInv DEF backendVars
<1>3. ASSUME UNCHANGED turnVars, NEW to \in {"starting", "work"}, Goto(j, to),
             backend' \in {backend, [backend EXCEPT ![want[j]] = "starting"]}
      PROVE  IInv'
  <2>1. /\ listed' \in [Jobs -> SUBSET LLMs]
        /\ backend' \in [Backends -> {"stopped", "starting", "running"}]
    BY <1>1, <1>3 DEF TypeOK
  <2> QED BY <1>1, <1>3, <2>1, JobGoesOn DEF JobAt
<1> QED BY <1>2, <1>3 DEF NothingLeft, StartGenInstance, WaitRunning, EndWork, backendVars

\* A job unloads an LLM, or finds it gone.
LEMMA JobUnloadsInv ==
    ASSUME IInv, NEW j \in Jobs, UnloadForGen(j)
    PROVE  IInv'
<1>1. PICK l \in listed[j] :
        /\ listed' = [listed EXCEPT ![j] = listed[j] \ {l}]
        /\ \/ l \in Loaded /\ Unload(j, l) /\ UNCHANGED pc
           \/ /\ l \notin Loaded
              /\ Goto(j, IF BackendFits(want[j]) THEN "start" ELSE "llms")
              /\ UNCHANGED <<out, routerVars, useVars>>
  BY DEF UnloadForGen
<1>2. /\ TypeOK /\ TurnInv /\ JobOK(j) /\ j \in Actors /\ j \notin Requests
      /\ pc[j] = "llms" /\ out[j] = None /\ l \in LLMs /\ listed' \in [Jobs -> SUBSET LLMs]
      /\ UNCHANGED <<want, requestVars, llmLoadMu, backendVars, turnVars, history>>
  BY <1>1, JobFacts DEF UnloadForGen, TypeOK
<1>3. TurnInv' /\ \A b \in Actors : TurnKept(b)
  BY <1>2, TurnsOn
<1>4. CASE l \notin Loaded
  <2>1. PICK to \in {"start", "llms"} : Goto(j, to)
    BY <1>1, <1>4
  <2> QED BY <1>1, <1>2, <1>4, <2>1, JobGoesOn DEF JobAt, backendVars, TypeOK
<1>5. CASE l \in Loaded
  <2>1. /\ Unload(j, l) /\ pc' = pc /\ out' = [out EXCEPT ![j] = l]
        /\ evicting' = evicting \cup {l} /\ leaving' = leaving \cup {l} /\ UNCHANGED <<status, n>>
        /\ status[l] # "unloaded"
    BY <1>1, <1>5 DEF Unload, Loaded
  <2>2. TypeOK'
    BY <1>2, <1>3, <2>1 DEF TypeOK, TurnInv, requestVars, backendVars, history
  <2>3. UseInv' /\ RepliesUncut'
    BY <1>2, <2>1, UnloadUse DEF history
  <2>4. JobOK(j)'
    BY <1>2, <2>1 DEF JobOK, turnVars
  <2>5. Others(j)
    BY <1>2, <1>3, <2>1 DEF Others, TypeOK, requestVars
  <2> QED BY <1>2, <1>3, <2>2, <2>3, <2>4, <2>5, ActorStep
<1> QED BY <1>4, <1>5

\* The unload ends, or the job is given up.
LEMMA JobEvicted ==
    ASSUME IInv, NEW j \in Jobs, UnloadedForGen(j) \/ UnloadForGenTimesOut(j) \/ GiveUpJob(j)
    PROVE  IInv'
<1>1. /\ TypeOK /\ TurnInv /\ JobOK(j) /\ j \in Actors /\ j \notin Requests
      /\ pc[j] \in {"queued", "llms", "starting"} /\ EndEvicting(j)
      /\ UNCHANGED <<want, requestVars, listed, routerVars, llmLoadMu, backendVars, stray>>
  BY JobFacts DEF UnloadedForGen, UnloadForGenTimesOut, GiveUpJob, FailJob, JobOK, history
<1>2. out' = [out EXCEPT ![j] = None] /\ evicting' = evicting \ {out[j]} /\ n' = n
  BY <1>1 DEF EndEvicting
<1>3. TurnInv' /\ \A b \in Actors \ {j} : TurnKept(b)
  BY <1>1, TurnsOn, GiveBackFacts DEF UnloadedForGen, UnloadForGenTimesOut, GiveUpJob, FailJob, EndJob
<1>4. /\ abandoned \subseteq abandoned' /\ abandoned' \subseteq leaving
      /\ leaving \cap {out[j]} \subseteq abandoned'
  <2>1. CASE UnloadedForGen(j)
    BY <1>1, <2>1 DEF UnloadedForGen, TypeOK, history
  <2>2. CASE FailJob(j)
    BY <1>1, <2>2 DEF FailJob, TypeOK
  <2> QED BY <2>1, <2>2 DEF UnloadForGenTimesOut, GiveUpJob
<1>5. PICK to \in {"start", "llms", "done"} :
        /\ pc' = [pc EXCEPT ![j] = to]
        /\ to = "done" \/ (pc[j] = "llms" /\ UNCHANGED turnVars)
  <2>1. CASE UnloadedForGen(j)
    <3>1. pc[j] = "llms"
      BY <1>1, <2>1, TurnsAssumption DEF UnloadedForGen, JobOK, TypeOK
    <3> QED BY <2>1, <3>1 DEF UnloadedForGen, Goto
  <2>2. CASE FailJob(j)
    BY <2>2 DEF FailJob, EndJob, Goto
  <2> QED BY <2>1, <2>2 DEF UnloadForGenTimesOut, GiveUpJob
<1>6. TypeOK'
  BY <1>1, <1>2, <1>3, <1>4, <1>5 DEF TypeOK, TurnInv, JobAt, requestVars, routerVars, backendVars
<1>7. UseInv' /\ RepliesUncut'
  <2>1. \A q \in Requests : pc'[q] = pc[q] /\ want'[q] = want[q]
    BY <1>1, <1>5 DEF TypeOK, Actors
  <2> QED BY <1>1, <1>4, <2>1, EvictedUse DEF routerVars
<1>8. JobOK(j)'
  BY <1>1, <1>2, <1>5 DEF JobOK, TypeOK, JobAt, turnVars
<1>9. Others(j)
  BY <1>1, <1>2, <1>3, <1>5 DEF Others, TypeOK, requestVars
<1> QED BY <1>1, <1>3, <1>6, <1>7, <1>8, <1>9, ActorStep

-----------------------------------------------------------------------------
(* What they wait for, and the theorems.                                   *)

\* The queue grants turns, and backends end what they began.
LEMMA OutsideInv ==
    ASSUME IInv, GrantTurns \/ \E b \in Backends : BackendStep(b)
    PROVE  IInv'
<1>1. /\ TypeOK /\ TurnInv /\ ActorsOK
      /\ UNCHANGED <<actorVars, requestVars, listed, routerVars, useVars, llmLoadMu, locked, history>>
      /\ UNCHANGED turnVars \/ Turns!Grant(wants, has)
  BY DEF IInv, GrantTurns, BackendStep, StartEnds, backendVars
<1>2. TurnInv' /\ \A b \in Actors : TurnKept(b)
  BY <1>1, TurnsOn
<1>3. backend' \in [Backends -> {"stopped", "starting", "running"}]
  BY <1>1 DEF GrantTurns, BackendStep, StartEnds, backendVars, TypeOK
<1>4. TypeOK'
  BY <1>1, <1>2, <1>3 DEF TypeOK, TurnInv, actorVars, requestVars, routerVars, useVars, history
<1>5. ActorsOK'
  BY <1>1, <1>2, ActorKept DEF ActorsOK, Actors, actorVars, requestVars
<1>6. UseInv' /\ RepliesUncut'
  BY <1>1, UseKept DEF actorVars, routerVars, useVars, history
<1> QED BY <1>2, <1>4, <1>5, <1>6 DEF IInv

\* The router ends a load or an unload.
LEMMA RouterInv ==
    ASSUME IInv, NEW l \in LLMs, RouterStep(l)
    PROVE  IInv'
<1>1. /\ TypeOK /\ TurnInv /\ ActorsOK
      /\ UNCHANGED <<actorVars, requestVars, listed, useVars, llmLoadMu, backendVars, turnVars, stray>>
  BY DEF IInv, RouterStep, LLMGone, LoadEnds, history
<1>2. \/ /\ l \in leaving /\ status' = [status EXCEPT ![l] = "unloaded"]
         /\ leaving' = leaving \ {l} /\ abandoned' = abandoned \ {l}
      \/ /\ status[l] = "loading" /\ l \notin leaving
         /\ \E result \in {"loaded", "unloaded"} : status' = [status EXCEPT ![l] = result]
         /\ leaving' = leaving /\ abandoned' = abandoned
  BY DEF RouterStep, LLMGone, LoadEnds, routerVars, history
<1>3. TurnInv' /\ \A b \in Actors : TurnKept(b)
  BY <1>1, TurnsOn
<1>4. TypeOK'
  BY <1>1, <1>2, <1>3 DEF TypeOK, TurnInv, actorVars, requestVars, useVars, backendVars
<1>5. ActorsOK'
  BY <1>1, <1>3, ActorKept DEF ActorsOK, Actors, actorVars, requestVars
<1>6. \A m : Counting(m)' = Counting(m)
  BY <1>1 DEF Counting, actorVars
<1>7. UseInv'
  BY <1>1, <1>2, <1>6 DEF IInv, UseInv, useVars
<1>8. RepliesUncut'
  <2> SUFFICES ASSUME NEW r \in Requests, pc[r] = "serve", r \notin stray
               PROVE  status'[want[r]] = "loaded" /\ want[r] \notin leaving'
    BY <1>1 DEF RepliesUncut, actorVars
  <2>1. want[r] \in LLMs /\ status[want[r]] = "loaded" /\ want[r] \notin leaving
    BY CountedIsUsed DEF IInv, RepliesUncut
  <2> QED BY <1>1, <1>2, <2>1 DEF TypeOK
<1> QED BY <1>3, <1>4, <1>5, <1>7, <1>8 DEF IInv

\* At the start nobody has a turn and nothing is unloaded.
LEMMA InitInv == Init => IInv
<1> SUFFICES ASSUME Init PROVE IInv
  OBVIOUS
<1>1. TypeOK /\ TurnInv
  BY TurnsAssumption, CountingFacts DEF Init, TypeOK, TurnInv, RequestAt, JobAt
<1>2. ActorsOK
  BY DEF Init, ActorsOK, RequestOK, JobOK, RequestAt, JobAt, Actors
<1>3. \A l : Counting(l) = {}
  BY DEF Init, Counting, Actors
<1>4. UseInv
  BY <1>3, CountingFacts DEF Init, UseInv
<1>5. RepliesUncut
  BY DEF Init, RepliesUncut, Actors
<1> QED BY <1>1, <1>2, <1>4, <1>5 DEF IInv

\* Every step keeps the invariant.
LEMMA NextInv == IInv /\ [Next]_vars => IInv'
<1> SUFFICES ASSUME IInv, [Next]_vars PROVE IInv'
  OBVIOUS
<1>1. ASSUME NEW r \in Requests, Arrive(r) \/ RequestStep(r) \/ GiveUp(r) PROVE IInv'
  BY <1>1, LookInv, RoomInv, TurnsInv, RequestUnloads, RequestEvicted, SendLoadInv, BeginInv,
     ReplyInv DEF RequestStep
<1>2. ASSUME NEW j \in Jobs, Submit(j) \/ JobStep(j) \/ GiveUpJob(j) PROVE IInv'
  BY <1>2, SubmitInv, JobRoomInv, JobWorkInv, JobUnloadsInv, JobEvicted DEF JobStep
<1>3. CASE GrantTurns \/ (\E b \in Backends : BackendStep(b))
  BY <1>3, OutsideInv
<1>4. ASSUME NEW l \in LLMs, RouterStep(l) PROVE IInv'
  BY <1>4, RouterInv
<1>5. CASE UNCHANGED vars
  <2>1. /\ UNCHANGED <<pc, want, out, attempt, pass, busy, beside, listed, status, leaving, n,
                       evicting, llmLoadMu, backend, locked, wants, has, abandoned, stray>>
    BY <1>5 DEF vars, actorVars, requestVars, routerVars, useVars, backendVars, turnVars, history
  <2>2. \A m : Counting(m)' = Counting(m)
    BY <2>1 DEF Counting
  <2>3. TypeOK' /\ TurnInv' /\ ActorsOK'
    BY <2>1 DEF IInv, TypeOK, TurnInv, ActorsOK, RequestOK, JobOK, UsedBy
  <2>4. UseInv' /\ RepliesUncut'
    BY <2>1, <2>2 DEF IInv, UseInv, RepliesUncut
  <2> QED BY <2>3, <2>4 DEF IInv
<1> QED BY <1>1, <1>2, <1>3, <1>4, <1>5 DEF Next

\* The inductive invariant holds in every state.
THEOREM Invariant == Spec => []IInv
  BY InitInv, NextInv, PTL DEF Spec

\* Every variable keeps its type; in particular llmUse never counts below
\* zero, and only an LLM that the router lists is asked to unload.
THEOREM TypeCorrect == Spec => []TypeOK
<1>1. IInv => TypeOK
  BY DEF IInv
<1> QED BY <1>1, Invariant, PTL

\* While a request is served its LLM stays loaded and is not asked to unload,
\* unless the unload was asked for, and given up, before (llmUse).
THEOREM NoReplyIsCut == Spec => []RepliesUncut
<1>1. IInv => RepliesUncut
  BY DEF IInv
<1> QED BY <1>1, Invariant, PTL

\* While a load for which backends were stopped is under way, no job has the
\* turn of a GPU of the LLM (makeRoomForLLM and the release of its hold).
THEOREM RoomIsKept == Spec => []RoomKept
<1>1. IInv => RoomKept
  <2> SUFFICES ASSUME IInv, NEW r \in Requests, pc[r] = "wait", pass[r] = "held", NEW j \in Jobs
               PROVE  has[j] \cap UsedBy({want[r]}) = {}
    BY DEF RoomKept
  <2>1. UsedBy({want[r]}) \subseteq has[r]
    BY RequestFacts DEF RequestOK
  <2>2. has[j] \cap has[r] = {}
    BY RequestFacts, JobFacts DEF TurnInv
  <2> QED BY <2>1, <2>2
<1> QED BY <1>1, Invariant, PTL

-----------------------------------------------------------------------------
(* No backend is stopped under its job.                                    *)

\* A job that starts its backend, or works with it.
Working(j) == pc[j] \in {"starting", "work"} /\ backend[want[j]] = "running"

StillRunning == \A j \in Jobs : Working(j) => backend'[want[j]] = "running"

\* Whoever stops a backend has the GPU it is on, which a working job has
\* itself.
LEMMA StopsSpare ==
    ASSUME IInv, NEW a \in Actors, NEW g \in has[a], NEW c, StopLargest(Stoppable(g, c)),
           a \in Jobs => c = want[a]
    PROVE  StillRunning
<1>1. PICK b \in Stoppable(g, c) : backend' = [backend EXCEPT ![b] = "stopped"]
  BY DEF StopLargest
<1>2. b \in Backends /\ On[b] = g /\ b # c
  BY <1>1 DEF Stoppable
<1>3. ASSUME NEW j \in Jobs, Working(j) PROVE backend'[want[j]] = "running"
  <2>1. has[j] = {On[want[j]]} /\ want[j] \in Backends /\ j \in Actors /\ TypeOK /\ TurnInv
    BY <1>3, JobFacts DEF Working, JobOK, JobAt
  <2>2. want[j] # b
    BY <1>2, <2>1 DEF TurnInv
  <2> QED BY <1>1, <1>3, <2>1, <2>2 DEF Working, TypeOK
<1> QED BY <1>3 DEF StillRunning

\* A backend that runs is stopped only to make room, and never under a job:
\* stopGenUntil asks no job's leave, but its caller has the GPU's turn.
THEOREM NoJobIsDisturbed == Spec => JobsUndisturbed
<1>1. IInv /\ [Next]_vars => [StillRunning]_vars
  <2> SUFFICES ASSUME IInv, Next PROVE StillRunning
    OBVIOUS
  <2>1. CASE UNCHANGED backend
    BY <2>1 DEF StillRunning, Working
  <2>2. ASSUME NEW r \in Requests, StopForLLM(r) PROVE StillRunning
    <3>1. PICK g \in has[r] : StopLargest(Stoppable(g, None))
      BY <2>2 DEF StopForLLM
    <3> QED BY <3>1, StopsSpare, RequestFacts
  <2>3. ASSUME NEW j \in Jobs, StopForJob(j) PROVE StillRunning
    <3>1. On[want[j]] \in has[j] /\ j \in Actors
      BY <2>3, JobFacts DEF StopForJob, JobOK, JobAt
    <3> QED BY <2>3, <3>1, StopsSpare DEF StopForJob, OthersOf
  <2>4. ASSUME NEW j \in Jobs, StartGenInstance(j) PROVE StillRunning
    <3>1. /\ has[j] = {On[want[j]]} /\ j \in Actors /\ TurnInv /\ TypeOK /\ pc[j] = "start"
          /\ want[j] \in Backends
      BY <2>4, JobFacts DEF StartGenInstance, JobOK, JobAt
    <3>2. ASSUME NEW k \in Jobs, Working(k) PROVE want[k] # want[j]
      <4>1. has[k] = {On[want[k]]} /\ k \in Actors /\ k # j
        BY <3>1, <3>2, JobFacts DEF Working, JobOK, JobAt
      <4> QED BY <3>1, <4>1 DEF TurnInv
    <3>3. backend' \in {backend, [backend EXCEPT ![want[j]] = "starting"]}
      BY <2>4 DEF StartGenInstance
    <3>4. ASSUME NEW k \in Jobs, Working(k) PROVE backend'[want[k]] = "running"
      <4>1. want[k] \in Backends /\ backend[want[k]] = "running"
        BY <3>4, JobFacts DEF Working
      <4> QED BY <3>1, <3>2, <3>3, <3>4, <4>1 DEF TypeOK
    <3> QED BY <3>4 DEF StillRunning
  <2>5. ASSUME NEW b \in Backends, BackendStep(b) PROVE StillRunning
    BY <2>5 DEF BackendStep, StartEnds, StillRunning, Working, IInv, TypeOK
  <2>6. ASSUME NEW r \in Requests, Arrive(r) \/ RequestStep(r) \/ GiveUp(r) PROVE StillRunning
    BY <2>1, <2>2, <2>6 DEF RequestStep, Arrive, GiveUp, Fail, Look, Lock, UnloadIdle,
       RefuseTooMany, RoomMade, TakeGPUs, StopsDone, Relock, UnloadMore, SendLoad, LoadDone,
       Begin, CheckLoaded, EndReply, Unloaded, backendVars
  <2>7. ASSUME NEW j \in Jobs, Submit(j) \/ JobStep(j) \/ GiveUpJob(j) PROVE StillRunning
    BY <2>1, <2>3, <2>4, <2>7 DEF JobStep, Submit, GiveUpJob, FailJob, GenReady, StoppedEnough,
       ListLLMs, UnloadForGen, UnloadedForGen, UnloadForGenTimesOut, NothingLeft, WaitRunning,
       EndWork, backendVars
  <2>8. CASE GrantTurns \/ \E l \in LLMs : RouterStep(l)
    BY <2>1, <2>8 DEF GrantTurns, RouterStep, LLMGone, LoadEnds, backendVars
  <2> QED BY <2>5, <2>6, <2>7, <2>8 DEF Next
<1>2. [StillRunning]_vars => [\A j \in Jobs :
        pc[j] \in {"starting", "work"} /\ backend[want[j]] = "running"
            => backend'[want[j]] = "running"]_vars
  BY DEF StillRunning, Working
<1> QED BY <1>1, <1>2, Invariant, PTL DEF Spec, JobsUndisturbed
=============================================================================
