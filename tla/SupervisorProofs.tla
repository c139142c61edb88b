-------------------------- MODULE SupervisorProofs --------------------------
(***************************************************************************)
(* Proofs about Supervisor: what is called stopped is gone, and a live     *)
(* process is lost from sight only in the two races that the code has, for *)
(* any number of processes and of callers.                                 *)
(***************************************************************************)
EXTENDS Supervisor, TLAPS

\* A process has a monitor and a poller from its start on.
UnbornUntouched == \A p \in Procs :
    life[p] = "unborn" => monitor[p] = "none" /\ poller[p] = "none"

\* done is closed after the process has exited.  Forget drops monitors in any
\* state, but never that of a process that is supervised or waited for.
DoneMeansGone == \A p \in Procs :
    \/ monitor[p] = "closed"
    \/ monitor[p] = "ended" /\ (p = cmd \/ \E c \in Callers : at[c].proc = p)
    => Gone(p)

\* Every live process is the one that an active supervisor has, or lost.
LiveIsKnown == \A p \in Procs : Live(p) => p \in astray \/ (p = cmd /\ Active)

IInv == TypeOK /\ UnbornUntouched /\ DoneMeansGone /\ LiveIsKnown

-----------------------------------------------------------------------------
\* A caller has a process exactly while it waits for one in Stop.
LEMMA CallerFacts ==
    ASSUME TypeOK, NEW c \in Callers
    PROVE  \/ at[c].pc \in {"idle", "stopChecked", "restart", "start"} /\ at[c].proc = None
           \/ /\ at[c].pc \in {"stopping", "killing", "restopping", "rekilling"}
              /\ at[c].proc \in Procs
<1>1. at[c] \in Places
  BY DEF TypeOK
<1> QED BY <1>1 DEF Places

\* A step that launches no process, drops none and ends no Stop: monitors only
\* go on, a caller only captures the process that is supervised, and that one
\* is gone, goes on being looked after, or is lost.
LEMMA QuietStep ==
    ASSUME IInv, TypeOK',
           \A p \in Procs : (life'[p] = "unborn" <=> life[p] = "unborn") /\ (Gone(p) => Gone(p)'),
           \A p \in Procs : life[p] = "unborn" => monitor'[p] = monitor[p] /\ poller'[p] = poller[p],
           \A p \in Procs : monitor'[p] = monitor[p] \/ Gone(p),
           cmd' = cmd,
           \A c \in Callers : at'[c].proc \in {at[c].proc, cmd, None},
           \A p \in Procs \ {cmd} : Live(p)' /\ p \in astray => p \in astray',
           \A p \in Procs : p = cmd /\ Live(p)' =>
               p \in astray' \/ Active' \/ (astray' = astray /\ state' = state)
    PROVE  IInv'
<1>1. UnbornUntouched'
  BY DEF IInv, UnbornUntouched
<1>2. DoneMeansGone'
  <2> SUFFICES ASSUME NEW p \in Procs,
                      \/ monitor'[p] = "closed"
                      \/ /\ monitor'[p] = "ended"
                         /\ p = cmd' \/ \E c \in Callers : at'[c].proc = p
               PROVE  Gone(p)'
    BY DEF DoneMeansGone
  <2>1. CASE monitor'[p] = monitor[p]
    BY <2>1, NoneAssumption DEF IInv, DoneMeansGone
  <2>2. CASE Gone(p)
    BY <2>2
  <2> QED BY <2>1, <2>2
<1>3. LiveIsKnown'
  <2> SUFFICES ASSUME NEW p \in Procs, Live(p)'
               PROVE  p \in astray' \/ (p = cmd' /\ Active')
    BY DEF LiveIsKnown
  <2>1. Live(p)
    <3>1. life[p] \in {"unborn", "up", "healthy", "exited", "crashed"}
      BY DEF IInv, TypeOK
    <3> QED BY <3>1 DEF Live, Gone
  <2>2. p \in astray \/ (p = cmd /\ Active)
    BY <2>1 DEF IInv, LiveIsKnown
  <2>3. CASE p = cmd
    BY <2>2, <2>3 DEF Active
  <2>4. CASE p # cmd
    BY <2>2, <2>4
  <2> QED BY <2>3, <2>4
<1> QED BY <1>1, <1>2, <1>3 DEF IInv

\* A process that becomes healthy, or exits.
LEMMA LifeInv ==
    ASSUME IInv, NEW p \in Procs, BecomeHealthy(p) \/ Exit(p)
    PROVE  IInv'
<1>1. /\ life' \in [Procs -> {"unborn", "up", "healthy", "exited", "crashed"}]
      /\ UNCHANGED <<state, cmd, monitor, poller, at>>
      /\ astray' \subseteq Procs
      /\ \A q \in Procs : Live(q)' => (q \in astray' <=> q \in astray)
  BY DEF BecomeHealthy, Exit, IInv, TypeOK, Live
<1>2. \A q \in Procs : (life'[q] = "unborn" <=> life[q] = "unborn") /\ (Gone(q) => Gone(q)')
  BY DEF BecomeHealthy, Exit, IInv, TypeOK, Live, Gone
<1>3. TypeOK'
  BY <1>1 DEF IInv, TypeOK
<1>4. \A q \in Procs : q = cmd /\ Live(q)' => q \in astray' \/ Active'
  BY <1>1, <1>2 DEF IInv, TypeOK, LiveIsKnown, Live, Gone, Active
<1> QED BY <1>1, <1>2, <1>3, <1>4, QuietStep

\* monitorProcess closes done, and records the exit of the supervised process.
LEMMA MonitorInv ==
    ASSUME IInv, NEW p \in Procs, CloseDone(p) \/ RecordExit(p)
    PROVE  IInv'
<1>1. /\ Gone(p) /\ UNCHANGED <<cmd, life, poller, at, astray>>
      /\ monitor' \in [Procs -> {"none", "waiting", "closed", "ended"}]
      /\ \A q \in Procs \ {p} : monitor'[q] = monitor[q]
  BY DEF CloseDone, RecordExit, IInv, TypeOK, DoneMeansGone
<1>2. \/ state' = state
      \/ state' \in {"stopped", "failed"} /\ cmd = p
  BY DEF CloseDone, RecordExit
<1>3. TypeOK'
  BY <1>1, <1>2 DEF IInv, TypeOK
<1>4. \A q \in Procs : (life'[q] = "unborn" <=> life[q] = "unborn") /\ (Gone(q) => Gone(q)')
  BY <1>1 DEF Gone
<1>5. life[p] # "unborn"
  BY <1>1 DEF Gone
<1>6. \A q \in Procs : q = cmd /\ Live(q)' => astray' = astray /\ state' = state
  BY <1>1, <1>2 DEF Live, Gone
<1> QED BY <1>1, <1>2, <1>3, <1>4, <1>5, <1>6, NoneAssumption, QuietStep

\* pollHealth, each of its steps: the timeout alone loses the process that is
\* starting, and only a passed check takes it back.
LEMMA PollInv ==
    ASSUME IInv, NEW p \in Procs,
           PollWake(p) \/ PollAnswered(p) \/ PollUnanswered(p) \/ PollRecord(p) \/ PollTimeout(p)
    PROVE  IInv'
<1>1. /\ UNCHANGED <<cmd, life, monitor, at>>
      /\ poller[p] \in {"sleeping", "asking", "passed"}
      /\ poller' \in [Procs -> {"none", "sleeping", "asking", "passed", "timedOut", "ended"}]
      /\ \A q \in Procs \ {p} : poller'[q] = poller[q]
  BY DEF PollWake, PollAnswered, PollUnanswered, PollRecord, PollTimeout, PollMove, IInv, TypeOK
<1>2. \/ UNCHANGED <<state, astray>>
      \/ state' = "running" /\ astray' = astray \ {cmd}
      \/ state' = "failed" /\ astray' = astray \cup {q \in Procs : q = cmd /\ Live(q)}
  BY DEF PollWake, PollAnswered, PollUnanswered, PollRecord, PollTimeout
<1>3. TypeOK'
  BY <1>1, <1>2 DEF IInv, TypeOK
<1>4. life[p] # "unborn"
  BY <1>1 DEF IInv, UnbornUntouched
<1>5. \A q \in Procs : (life'[q] = "unborn" <=> life[q] = "unborn") /\ (Gone(q) => Gone(q)')
  BY <1>1 DEF Gone
<1>6. \A q \in Procs \ {cmd} : q \in astray => q \in astray'
  BY <1>2
<1>7. \A q \in Procs : q = cmd /\ Live(q)' =>
          q \in astray' \/ Active' \/ (astray' = astray /\ state' = state)
  BY <1>1, <1>2 DEF Live, Active
<1> QED BY <1>1, <1>3, <1>4, <1>5, <1>6, <1>7, QuietStep

\* A caller that begins to stop or restart, or kills the process it waits for.
LEMMA CallerInv ==
    ASSUME IInv, NEW c \in Callers, InstancesStop(c) \/ Restart(c) \/ Stop(c) \/ StopKill(c)
    PROVE  IInv'
<1>1. TypeOK
  BY DEF IInv
<1>2. UNCHANGED <<state, cmd, life, monitor, poller, astray>>
  BY DEF InstancesStop, Restart, Stop, StopKill, CallerMove
<1>3. PICK place \in Places : at' = [at EXCEPT ![c] = place] /\ place.proc \in {at[c].proc, cmd, None}
  <2>1. CASE InstancesStop(c) \/ Restart(c)
    BY <2>1 DEF InstancesStop, Restart, CallerMove, Places
  <2>2. CASE Stop(c)
    <3>1. CASE cmd # None
      BY <1>1, <2>2, <3>1 DEF Stop, CallerMove, Places, TypeOK
    <3>2. CASE cmd = None
      BY <2>2, <3>2 DEF Stop, CallerMove, Places
    <3> QED BY <3>1, <3>2
  <2>3. CASE StopKill(c)
    <3> DEFINE pc == IF at[c].pc = "restopping" THEN "rekilling" ELSE "killing"
               place == [pc |-> pc, proc |-> at[c].proc]
    <3>1. at[c].proc \in Procs
      BY <1>1, <2>3, CallerFacts DEF StopKill
    <3>2. pc \in {"killing", "rekilling"}
      OBVIOUS
    <3>3. at' = [at EXCEPT ![c] = place]
      BY <2>3 DEF StopKill, CallerMove
    <3> HIDE DEF pc
    <3>4. place \in Places /\ place.proc = at[c].proc
      BY <3>1, <3>2 DEF Places
    <3> QED BY <3>3, <3>4
  <2> QED BY <2>1, <2>2, <2>3
<1>4. TypeOK'
  BY <1>1, <1>2, <1>3 DEF TypeOK
<1>5. \A d \in Callers : at'[d].proc \in {at[d].proc, cmd, None}
  BY <1>1, <1>3 DEF TypeOK
<1>6. \A q \in Procs : (life'[q] = "unborn" <=> life[q] = "unborn") /\ (Gone(q) => Gone(q)')
  BY <1>2 DEF Gone
<1> QED BY <1>2, <1>4, <1>5, <1>6, QuietStep

\* A Stop that ends: nothing is supervised any more.
LEMMA StopEndInv ==
    ASSUME IInv, NEW c \in Callers, StopEnd(c)
    PROVE  IInv'
<1>1. /\ state' = "stopped" /\ cmd' = None /\ UNCHANGED <<life, monitor, poller>>
      /\ astray' = astray \cup {p \in Procs : p = cmd /\ p # at[c].proc /\ Live(p)}
      /\ \E place \in Places : place.proc = None /\ at' = [at EXCEPT ![c] = place]
  <2> DEFINE pc == IF at[c].pc \in {"restopping", "rekilling"} THEN "start" ELSE "idle"
             place == [pc |-> pc, proc |-> None]
  <2>1. pc \in {"start", "idle"}
    OBVIOUS
  <2>2. at' = [at EXCEPT ![c] = place]
    BY DEF StopEnd, CallerMove
  <2>3. /\ state' = "stopped" /\ cmd' = None
        /\ astray' = astray \cup {p \in Procs : p = cmd /\ p # at[c].proc /\ Live(p)}
        /\ UNCHANGED <<life, monitor, poller>>
    BY DEF StopEnd, CallerMove
  <2> HIDE DEF pc
  <2>4. place \in Places /\ place.proc = None
    BY <2>1 DEF Places
  <2> QED BY <2>2, <2>3, <2>4
<1>2. TypeOK'
  BY <1>1 DEF IInv, TypeOK
<1>3. \A d \in Callers : at'[d].proc \in {at[d].proc, None}
  BY <1>1 DEF IInv, TypeOK
<1>4. UnbornUntouched'
  BY <1>1 DEF IInv, UnbornUntouched
<1>5. DoneMeansGone'
  BY <1>1, <1>3, NoneAssumption DEF IInv, DoneMeansGone, Gone
<1>6. LiveIsKnown'
  <2>1. Gone(at[c].proc)
    BY CallerFacts DEF StopEnd, IInv, DoneMeansGone
  <2> SUFFICES ASSUME NEW p \in Procs, Live(p)' PROVE p \in astray'
    BY DEF LiveIsKnown
  <2>2. Live(p) /\ p # at[c].proc
    BY <1>1, <2>1 DEF Live, Gone
  <2> QED BY <1>1, <2>2 DEF IInv, LiveIsKnown
<1> QED BY <1>2, <1>4, <1>5, <1>6 DEF IInv

\* Forget drops every goroutine of a supervisor that nobody is calling.
LEMMA ForgetInv ==
    ASSUME IInv, Forget
    PROVE  IInv'
<1>1. /\ ~Active /\ state' = "stopped" /\ cmd' = None /\ UNCHANGED <<life, at, astray>>
      /\ \A c \in Callers : at[c].proc = None
      /\ \A p \in Procs : monitor'[p] = IF monitor[p] = "none" THEN "none" ELSE "ended"
      /\ \A p \in Procs : poller'[p] = IF poller[p] \in {"none", "timedOut"}
                                       THEN poller[p] ELSE "ended"
  BY DEF Forget, Idle
<1>2. TypeOK'
  BY DEF Forget, IInv, TypeOK
<1>3. UnbornUntouched'
  BY <1>1 DEF IInv, UnbornUntouched
<1>4. DoneMeansGone'
  BY <1>1, NoneAssumption DEF DoneMeansGone
<1>5. LiveIsKnown'
  BY <1>1 DEF IInv, LiveIsKnown, Live
<1> QED BY <1>2, <1>3, <1>4, <1>5 DEF IInv

\* A process is launched, by Start or by Restart's call of it.
LEMMA LaunchInv ==
    ASSUME IInv, ~Active, NEW p \in Procs, Launch(p), astray' = astray, at' \in [Callers -> Places],
           \A c \in Callers : at'[c].proc \in {at[c].proc, None}
    PROVE  IInv'
<1>1. /\ life[p] = "unborn" /\ life' = [life EXCEPT ![p] = "up"]
      /\ cmd' = p /\ state' = "starting"
      /\ monitor' = [monitor EXCEPT ![p] = "waiting"]
      /\ poller' = [poller EXCEPT ![p] = "sleeping"]
  BY DEF Launch
<1>2. TypeOK'
  BY <1>1 DEF IInv, TypeOK
<1>3. UnbornUntouched'
  BY <1>1 DEF IInv, TypeOK, UnbornUntouched
<1>4. DoneMeansGone'
  BY <1>1, NoneAssumption DEF IInv, TypeOK, DoneMeansGone, Gone
<1>5. LiveIsKnown'
  BY <1>1 DEF IInv, TypeOK, LiveIsKnown, Live, Active
<1> QED BY <1>2, <1>3, <1>4, <1>5 DEF IInv

\* Restart's call of Start, which launches a process or does nothing.
LEMMA RestartStartInv ==
    ASSUME IInv, NEW c \in Callers, RestartStart(c)
    PROVE  IInv'
<1>1. at' = [at EXCEPT ![c] = Idle] /\ Idle \in Places /\ Idle.proc = None
  BY DEF RestartStart, Idle, Places
<1>2. /\ at' \in [Callers -> Places]
      /\ \A d \in Callers : at'[d].proc \in {at[d].proc, None}
  BY <1>1 DEF IInv, TypeOK
<1>3. CASE ~Active /\ \E p \in Procs : Launch(p)
  BY <1>2, <1>3, LaunchInv DEF RestartStart
<1>4. CASE UNCHANGED <<state, cmd, life, monitor, poller>>
  <2>1. TypeOK' /\ astray' = astray
    BY <1>2, <1>4 DEF IInv, TypeOK, RestartStart
  <2>2. \A q \in Procs : (life'[q] = "unborn" <=> life[q] = "unborn") /\ (Gone(q) => Gone(q)')
    BY <1>4 DEF Gone
  <2> QED BY <1>2, <1>4, <2>1, <2>2, QuietStep
<1> QED BY <1>3, <1>4 DEF RestartStart

-----------------------------------------------------------------------------
\* At the start nothing runs and nobody calls.
LEMMA InitInv == Init => IInv
<1> SUFFICES ASSUME Init PROVE IInv
  OBVIOUS
<1>1. TypeOK
  BY DEF Init, TypeOK, Idle, Places
<1> QED BY <1>1 DEF Init, IInv, UnbornUntouched, DoneMeansGone, LiveIsKnown, Live

\* Every step keeps the invariant.
LEMMA NextInv == IInv /\ [Next]_vars => IInv'
<1> SUFFICES ASSUME IInv, [Next]_vars PROVE IInv'
  OBVIOUS
<1>1. ASSUME NEW p \in Procs, ProcStep(p) PROVE IInv'
  <2>1. CASE BecomeHealthy(p) \/ Exit(p)
    BY <2>1, LifeInv
  <2>2. CASE Start(p)
    <3>1. ~Active /\ Launch(p) /\ UNCHANGED <<at, astray>> /\ at \in [Callers -> Places]
      BY <2>2 DEF Start, IInv, TypeOK
    <3> QED BY <3>1, LaunchInv
  <2>3. CASE CloseDone(p) \/ RecordExit(p)
    BY <2>3, MonitorInv
  <2>4. CASE PollWake(p) \/ PollAnswered(p) \/ PollUnanswered(p) \/ PollRecord(p) \/ PollTimeout(p)
    BY <2>4, PollInv
  <2> QED BY <1>1, <2>1, <2>2, <2>3, <2>4 DEF ProcStep
<1>2. ASSUME NEW c \in Callers, CallerStep(c) PROVE IInv'
  BY <1>2, CallerInv, StopEndInv, RestartStartInv DEF CallerStep
<1>3. CASE UNCHANGED vars
  BY <1>3 DEF vars, IInv, TypeOK, UnbornUntouched, DoneMeansGone, LiveIsKnown, Live, Gone, Active
<1> QED BY <1>1, <1>2, <1>3, ForgetInv DEF Next

\* The inductive invariant holds in every state of a supervisor.
THEOREM Invariant == Spec => []IInv
  BY InitInv, NextInv, PTL DEF Spec

\* Every variable keeps its type, and in particular a caller past Stop's check
\* for a process has one to wait for.
THEOREM TypeCorrect == Spec => []TypeOK
<1>1. IInv => TypeOK
  BY DEF IInv
<1> QED BY <1>1, Invariant, PTL

\* A step that ends a Stop finds the process it waited for gone.
LEMMA StopEndsGone ==
    ASSUME IInv, [Next]_vars, NEW c \in Callers, at[c].proc # None, at'[c].proc = None
    PROVE  life'[at[c].proc] \in {"exited", "crashed"}
<1> DEFINE p == at[c].proc
<1>1. /\ TypeOK /\ p \in Procs
      /\ at[c].pc \in {"stopping", "killing", "restopping", "rekilling"}
  BY CallerFacts DEF IInv
<1>2. at' # at
  OBVIOUS
<1>3. PICK d \in Callers : CallerStep(d)
  BY <1>2 DEF Next, vars, ProcStep, BecomeHealthy, Exit, Start, CloseDone, RecordExit, PollWake,
              PollAnswered, PollUnanswered, PollRecord, PollTimeout, PollMove, Forget
<1>4. \A e \in Callers \ {d} : at'[e] = at[e]
  BY <1>1, <1>3 DEF CallerStep, InstancesStop, Restart, Stop, StopKill, StopEnd, RestartStart,
                    CallerMove, TypeOK
<1>5. d = c
  BY <1>4
<1>6. ~InstancesStop(c) /\ ~Restart(c) /\ ~Stop(c) /\ ~RestartStart(c)
  BY <1>1 DEF InstancesStop, Restart, Stop, RestartStart, Idle
<1>7. ~StopKill(c)
  BY <1>1 DEF StopKill, CallerMove, TypeOK
<1>8. StopEnd(c)
  BY <1>3, <1>5, <1>6, <1>7 DEF CallerStep
<1>9. Gone(p) /\ life' = life
  BY <1>1, <1>8 DEF StopEnd, CallerMove, IInv, DoneMeansGone
<1> QED BY <1>9 DEF Gone

\* Whatever is called stopped is gone: a supervisor that is not active has no
\* live process but those that the two races have lost, and when a Stop has
\* returned the process it was to stop is gone.
THEOREM StoppedAreGone == Spec => StoppedMeansGone
<1>1. IInv => StoppedIsGone
  BY DEF IInv, LiveIsKnown, StoppedIsGone
<1>2. IInv /\ [Next]_vars => [\A c \in Callers : at[c].proc # None /\ at'[c].proc = None =>
                                life'[at[c].proc] \in {"exited", "crashed"}]_vars
  BY StopEndsGone
<1> QED BY <1>1, <1>2, Invariant, PTL DEF Spec, StoppedMeansGone, StopMeansGone

\* A supervisor lets go of a live process only after a health check has called
\* this process failed, or by a Stop that had waited for another process.
THEOREM LostOnlyInRaces == Spec => LostOnlyByRaces
<1>1. ASSUME IInv, [Next]_vars, NEW p \in Procs, p = cmd, cmd' # p, Live(p)
      PROVE  \/ p \in astray
             \/ \E c \in Callers : at[c].proc \notin {None, p} /\ at'[c].proc = None
  <2>1. CASE ~Active
    BY <1>1, <2>1 DEF IInv, LiveIsKnown
  <2>2. CASE Active
    <3>1. PICK c \in Callers : StopEnd(c)
      BY <1>1, <2>2 DEF Next, vars, ProcStep, BecomeHealthy, Exit, Start, CloseDone, RecordExit,
           PollWake, PollAnswered, PollUnanswered, PollRecord, PollTimeout, PollMove, Forget,
           CallerStep, InstancesStop, Restart, Stop, StopKill, RestartStart
    <3>2. at[c].proc # None /\ at'[c].proc = None
      BY <1>1, <3>1 DEF StopEnd, CallerMove, IInv, TypeOK
    <3>3. Gone(at[c].proc)
      BY <1>1, <3>1, <3>2, CallerFacts DEF StopEnd, IInv, DoneMeansGone
    <3> QED BY <1>1, <3>2, <3>3 DEF Live, Gone
  <2> QED BY <2>1, <2>2
<1>2. IInv /\ [Next]_vars =>
        [\A p \in Procs : p = cmd /\ cmd' # p /\ Live(p) =>
            \/ p \in astray
            \/ \E c \in Callers : at[c].proc \notin {None, p} /\ at'[c].proc = None]_vars
  BY <1>1
<1> QED BY <1>2, Invariant, PTL DEF Spec, LostOnlyByRaces
=============================================================================
