--------------------------- MODULE GenQueueProofs ---------------------------
(***************************************************************************)
(* Proofs about GenQueue, for every number of GPUs, jobs, measurements and *)
(* places in the queue: type correctness and mutual exclusion; then that   *)
(* nobody is forgotten, that jobs start in order and only on GPUs that     *)
(* nobody claims, and that every step is one that GPUTurns allows.         *)
(***************************************************************************)
EXTENDS GenQueue, SequencesExt, SequenceTheorems, FiniteSetTheorems, TLAPS

\* A job and a measurement are never recorded on a GPU together.
Exclusive == \A g \in GPUs : gpus[g].running = None \/ gpus[g].held = None

\* A goroutine has a ticket until it is through, and while it waits the
\* ticket is in its GPU's queue or running.
JobPlaces == \A j \in Jobs :
    /\ jobAt[j] # "idle" => jobGPU[j] \in GPUs
    /\ jobAt[j] = "waiting" => \/ gpus[jobGPU[j]].running = j
                               \/ j \in ToSet(gpus[jobGPU[j]].waiting)

\* A goroutine that has no hold claims nothing.
HoldPlaces == \A h \in Holders : holdAt[h] = "idle" => holdGPUs[h] = {}

IInv == TypeOK /\ Exclusive /\ JobPlaces /\ HoldPlaces /\ Recorded
        /\ TicketsOwned /\ ClaimsCounted

-----------------------------------------------------------------------------
(* What the operations on waiting lists (append, take the first, take one  *)
(* out) do to the elements of a sequence, and that they keep a sequence    *)
(* without duplicates so.                                                  *)

\* Appending a new element: what Submit does to a waiting list.
LEMMA AppendFacts ==
    ASSUME NEW S, NEW s \in Seq(S), NEW e \in S
    PROVE  /\ Append(s, e) \in Seq(S)
           /\ Len(Append(s, e)) = Len(s) + 1
           /\ \A i \in 1..Len(s) : Append(s, e)[i] = s[i]
           /\ ToSet(Append(s, e)) = ToSet(s) \cup {e}
           /\ IsInjective(s) /\ e \notin ToSet(s) => IsInjective(Append(s, e))
<1> DEFINE t == Append(s, e)
<1>1. /\ t \in Seq(S)
      /\ Len(t) = Len(s) + 1
      /\ \A i \in 1..Len(s) : t[i] = s[i]
      /\ t[Len(s) + 1] = e
  BY AppendProperties
<1>2. /\ Len(s) \in Nat
      /\ DOMAIN s = 1..Len(s)
      /\ DOMAIN t = 1..(Len(s) + 1)
  BY <1>1, LenProperties
<1> HIDE DEF t
<1>3. ToSet(t) = ToSet(s) \cup {e}
  BY <1>1, <1>2 DEF ToSet
<1>4. IsInjective(s) /\ e \notin ToSet(s) => IsInjective(t)
  BY <1>1, <1>2 DEF ToSet, IsInjective
<1> QED BY <1>1, <1>3, <1>4 DEF t

\* Taking the first element: what startNextLocked does to a waiting list.
LEMMA TailFacts ==
    ASSUME NEW S, NEW s \in Seq(S), s # <<>>
    PROVE  /\ Head(s) \in S
           /\ Tail(s) \in Seq(S)
           /\ Len(Tail(s)) = Len(s) - 1 /\ Head(s) = s[1]
           /\ \A i \in 1..(Len(s) - 1) : Tail(s)[i] = s[i + 1]
           /\ ToSet(s) = {Head(s)} \cup ToSet(Tail(s))
           /\ IsInjective(s) => Head(s) \notin ToSet(Tail(s)) /\ IsInjective(Tail(s))
<1> DEFINE t == Tail(s)
<1>1. /\ Head(s) \in S
      /\ t \in Seq(S)
      /\ Len(t) = Len(s) - 1
      /\ \A i \in 1..Len(t) : t[i] = s[i + 1]
  BY HeadTailProperties
<1>2. /\ Len(s) \in Nat \ {0}
      /\ DOMAIN s = 1..Len(s)
      /\ DOMAIN t = 1..(Len(s) - 1)
      /\ Head(s) = s[1]
  BY <1>1, LenProperties, EmptySeq
<1> HIDE DEF t
<1>3. ToSet(s) = {Head(s)} \cup ToSet(t)
  <2>1. ASSUME NEW x \in ToSet(s), x # Head(s) PROVE x \in ToSet(t)
    <3>1. PICK k \in 1..Len(s) : x = s[k] /\ k # 1
      BY <1>2, <2>1 DEF ToSet
    <3>2. k - 1 \in DOMAIN t /\ t[k - 1] = s[k]
      BY <1>1, <1>2, <3>1
    <3> QED BY <3>1, <3>2 DEF ToSet
  <2>2. ToSet(t) \subseteq ToSet(s) /\ Head(s) \in ToSet(s)
    BY <1>1, <1>2 DEF ToSet
  <2> QED BY <2>1, <2>2
<1>4. ASSUME IsInjective(s) PROVE Head(s) \notin ToSet(t) /\ IsInjective(t)
  <2>1. ASSUME NEW k \in DOMAIN t
        PROVE  k + 1 \in DOMAIN s /\ 1 \in DOMAIN s /\ k + 1 # 1 /\ t[k] = s[k + 1]
    BY <1>1, <1>2
  <2>2. Head(s) \notin ToSet(t)
    BY <1>2, <1>4, <2>1 DEF ToSet, IsInjective
  <2>3. ASSUME NEW k \in DOMAIN t, NEW l \in DOMAIN t, t[k] = t[l] PROVE k = l
    <3>1. k + 1 = l + 1
      BY <1>4, <2>1, <2>3 DEF IsInjective
    <3> QED BY <1>2, <3>1
  <2> QED BY <2>2, <2>3 DEF IsInjective
<1> QED BY <1>1, <1>2, <1>3, <1>4 DEF t

\* Taking out one element: what Wait does to a waiting list when ctx ends.
LEMMA RemoveAtFacts ==
    ASSUME NEW S, NEW s \in Seq(S), NEW i \in 1..Len(s)
    PROVE  /\ RemoveAt(s, i) \in Seq(S)
           /\ Len(RemoveAt(s, i)) = Len(s) - 1
           /\ \A k \in 1..(Len(s) - 1) : RemoveAt(s, i)[k] = IF k < i THEN s[k] ELSE s[k + 1]
           /\ IsInjective(s) => /\ ToSet(RemoveAt(s, i)) = ToSet(s) \ {s[i]}
                                /\ IsInjective(RemoveAt(s, i))
<1> DEFINE r == RemoveAt(s, i)
<1>1. /\ Len(s) \in Nat
      /\ DOMAIN s = 1..Len(s)
      /\ \A k \in 1..Len(s) : s[k] \in S
  BY LenProperties, ElementOfSeq
<1>2. /\ SubSeq(s, 1, i - 1) \in Seq(S)
      /\ Len(SubSeq(s, 1, i - 1)) = i - 1
      /\ \A k \in 1..(i - 1) : SubSeq(s, 1, i - 1)[k] = s[k]
  BY <1>1, SubSeqProperties
<1>3. /\ SubSeq(s, i + 1, Len(s)) \in Seq(S)
      /\ Len(SubSeq(s, i + 1, Len(s))) = Len(s) - i
      /\ \A k \in 1..(Len(s) - i) : SubSeq(s, i + 1, Len(s))[k] = s[k + i]
  <2>1. /\ i + 1 \in Int /\ Len(s) \in Int
        /\ \A k \in (i + 1)..Len(s) : s[k] \in S
    BY <1>1
  <2>2. /\ SubSeq(s, i + 1, Len(s)) \in Seq(S)
        /\ Len(SubSeq(s, i + 1, Len(s)))
             = IF i + 1 <= Len(s) THEN Len(s) - (i + 1) + 1 ELSE 0
        /\ \A k \in 1..(Len(s) - (i + 1) + 1) :
              SubSeq(s, i + 1, Len(s))[k] = s[(i + 1) + k - 1]
    BY <2>1, SubSeqProperties
  <2>3. Len(s) - (i + 1) + 1 = Len(s) - i /\ (i + 1 <= Len(s) \/ Len(s) - i = 0)
    <3>1. ASSUME NEW n \in Nat, NEW k \in 1..n
          PROVE  n - (k + 1) + 1 = n - k /\ (k + 1 <= n \/ n - k = 0)
      OBVIOUS
    <3> QED BY <1>1, <3>1
  <2>4. Len(SubSeq(s, i + 1, Len(s))) = Len(s) - i
    BY <1>1, <2>2, <2>3
  <2>5. ASSUME NEW k \in 1..(Len(s) - i)
        PROVE  SubSeq(s, i + 1, Len(s))[k] = s[k + i]
    <3>1. SubSeq(s, i + 1, Len(s))[k] = s[(i + 1) + k - 1]
      BY <2>2, <2>3
    <3>2. (i + 1) + k - 1 = k + i
      BY <1>1
    <3> QED BY <3>1, <3>2
  <2> QED BY <2>2, <2>4, <2>5
<1>4. /\ r \in Seq(S)
      /\ Len(r) = Len(s) - 1
      /\ \A k \in 1..(Len(s) - 1) : r[k] = IF k < i THEN s[k] ELSE s[k + 1]
  <2> DEFINE u == SubSeq(s, 1, i - 1)
             v == SubSeq(s, i + 1, Len(s))
  <2>1. /\ u \o v \in Seq(S)
        /\ Len(u \o v) = Len(u) + Len(v)
        /\ \A k \in 1..(Len(u) + Len(v)) :
              (u \o v)[k] = IF k <= Len(u) THEN u[k] ELSE v[k - Len(u)]
    BY <1>2, <1>3, ConcatProperties
  <2>2. /\ Len(u) = i - 1 /\ \A k \in 1..(i - 1) : u[k] = s[k]
        /\ Len(v) = Len(s) - i /\ \A k \in 1..(Len(s) - i) : v[k] = s[k + i]
    BY <1>2, <1>3
  <2>3. r = u \o v
    BY DEF RemoveAt
  <2> HIDE DEF r, u, v
  <2>4. ASSUME NEW k \in 1..(Len(s) - 1)
        PROVE  (u \o v)[k] = IF k < i THEN s[k] ELSE s[k + 1]
    <3>1. CASE k < i
      BY <1>1, <2>1, <2>2, <3>1
    <3>2. CASE ~(k < i)
      <4>1. k - (i - 1) \in 1..(Len(s) - i) /\ (k - (i - 1)) + i = k + 1
        BY <1>1, <3>2
      <4>2. v[k - (i - 1)] = s[k + 1]
        BY <2>2, <4>1
      <4>3. (u \o v)[k] = v[k - (i - 1)]
        BY <1>1, <2>1, <2>2, <3>2
      <4> QED BY <3>2, <4>2, <4>3
    <3> QED BY <3>1, <3>2
  <2>5. Len(u) + Len(v) = Len(s) - 1
    BY <1>1, <2>2
  <2>6. r \in Seq(S) /\ Len(r) = Len(s) - 1
    BY <2>1, <2>3, <2>5
  <2> QED BY <2>3, <2>4, <2>6
<1>5. DOMAIN r = 1..(Len(s) - 1)
  BY <1>4, LenProperties
<1> HIDE DEF r
<1>6. ASSUME IsInjective(s) PROVE ToSet(r) = ToSet(s) \ {s[i]}
  <2>1. ASSUME NEW x \in ToSet(s) \ {s[i]} PROVE x \in ToSet(r)
    <3>1. PICK k \in 1..Len(s) : x = s[k] /\ k # i
      BY <1>1, <2>1 DEF ToSet
    <3>2. CASE k < i
      <4>1. k \in DOMAIN r /\ r[k] = s[k]
        BY <1>1, <1>4, <1>5, <3>2
      <4> QED BY <3>1, <4>1 DEF ToSet
    <3>3. CASE k > i
      <4>1. k - 1 \in DOMAIN r /\ r[k - 1] = s[k]
        BY <1>1, <1>4, <1>5, <3>3
      <4> QED BY <3>1, <4>1 DEF ToSet
    <3> QED BY <3>1, <3>2, <3>3
  <2>2. ASSUME NEW k \in DOMAIN r PROVE r[k] \in ToSet(s) \ {s[i]}
    <3>1. \/ r[k] = s[k] /\ k # i /\ k \in DOMAIN s
          \/ r[k] = s[k + 1] /\ k + 1 # i /\ k + 1 \in DOMAIN s
      BY <1>1, <1>4, <1>5
    <3> QED BY <1>1, <1>6, <3>1 DEF ToSet, IsInjective
  <2> QED BY <2>1, <2>2 DEF ToSet
<1>7. ASSUME IsInjective(s) PROVE IsInjective(r)
  <2> DEFINE old(k) == IF k < i THEN k ELSE k + 1
  <2>1. ASSUME NEW k \in DOMAIN r PROVE old(k) \in DOMAIN s /\ r[k] = s[old(k)]
    BY <1>1, <1>4, <1>5
  <2>2. ASSUME NEW k \in DOMAIN r, NEW l \in DOMAIN r, r[k] = r[l] PROVE k = l
    <3>1. old(k) = old(l)
      BY <1>7, <2>1, <2>2 DEF IsInjective
    <3> QED BY <1>1, <1>5, <3>1
  <2> QED BY <2>2 DEF IsInjective
<1> QED BY <1>4, <1>6, <1>7 DEF r

-----------------------------------------------------------------------------
(* The helpers on one queue.                                               *)

\* startNextLocked leaves the hold and the claims alone, and either leaves
\* the rest alone too or runs the first waiting job on a GPU nobody uses.
LEMMA StartNextFacts ==
    ASSUME NEW q \in GPUQueue
    PROVE  /\ StartNext(q) \in GPUQueue
           /\ StartNext(q).held = q.held
           /\ StartNext(q).claims = q.claims
           /\ StartNext(q).keptBy = q.keptBy
           /\ \/ StartNext(q) = q
              \/ /\ q.running = None /\ q.held = None /\ q.waiting # <<>>
                 /\ StartNext(q).running = Head(q.waiting)
                 /\ StartNext(q).waiting = Tail(q.waiting)
<1>1. CASE Open(q) /\ q.waiting # <<>>
  <2>1. Head(q.waiting) \in Jobs /\ Tail(q.waiting) \in Seq(Jobs)
    BY <1>1, TailFacts DEF GPUQueue
  <2> QED BY <1>1, <2>1 DEF StartNext, Open, Unused, GPUQueue
<1>2. CASE ~(Open(q) /\ q.waiting # <<>>)
  BY <1>2 DEF StartNext
<1> QED BY <1>1, <1>2

\* A claim more changes nothing else.
LEMMA ClaimFacts ==
    ASSUME NEW q \in GPUQueue
    PROVE  /\ Claim(q) \in GPUQueue
           /\ Claim(q).claims = q.claims + 1
           /\ Claim(q).held = q.held /\ Claim(q).keptBy = q.keptBy
           /\ Claim(q).running = q.running /\ Claim(q).waiting = q.waiting
  BY DEF Claim, GPUQueue

\* A hold taken, or given back (with None), leaves the rest of the queue alone.
LEMMA TakeFacts ==
    ASSUME NEW q \in GPUQueue, NEW h \in Holders \cup {None}
    PROVE  /\ Take(q, h) \in GPUQueue
           /\ Take(q, h).held = h
           /\ Take(q, h).claims = q.claims /\ Take(q, h).keptBy = q.keptBy
           /\ Take(q, h).running = q.running /\ Take(q, h).waiting = q.waiting
  BY DEF Take, GPUQueue

\* A claim is given up: the GPU's claims go down by one, then as above.
LEMMA UnclaimFacts ==
    ASSUME NEW q \in GPUQueue, q.claims # 0
    PROVE  /\ Unclaim(q) \in GPUQueue
           /\ Unclaim(q).held = q.held
           /\ Unclaim(q).claims = q.claims - 1
           /\ Unclaim(q).keptBy = q.keptBy
           /\ \/ Unclaim(q).running = q.running /\ Unclaim(q).waiting = q.waiting
              \/ /\ q.running = None /\ q.held = None /\ q.waiting # <<>>
                 /\ Unclaim(q).running = Head(q.waiting)
                 /\ Unclaim(q).waiting = Tail(q.waiting)
<1> DEFINE r == [q EXCEPT !.claims = q.claims - 1]
<1>1. /\ r \in GPUQueue
      /\ r.held = q.held /\ r.claims = q.claims - 1 /\ r.keptBy = q.keptBy
      /\ r.running = q.running /\ r.waiting = q.waiting
  BY DEF GPUQueue
<1>2. Unclaim(q) = StartNext(r)
  BY DEF Unclaim
<1> HIDE DEF r
<1> QED BY <1>1, <1>2, StartNextFacts

-----------------------------------------------------------------------------
(* The part of the invariant about jobs, for every action at once.         *)

\* A queue goes from q to r as startNextLocked takes it, or stays.
Advanced(q, r) ==
    \/ r.running = q.running /\ r.waiting = q.waiting
    \/ /\ q.running = None /\ q.waiting # <<>>
       /\ r.running = Head(q.waiting) /\ r.waiting = Tail(q.waiting)

\* Job k keeps its place, or goes from waiting to running.
Follows(q, r, k) ==
    /\ r.running = k => q.running = k \/ k \in ToSet(q.waiting)
    /\ q.running = k => r.running = k
    /\ k \in ToSet(r.waiting) => k \in ToSet(q.waiting) /\ r.running # k
    /\ k \in ToSet(q.waiting) => k \in ToSet(r.waiting) \/ r.running = k

\* A queue that has advanced holds each job once still, and every job in it
\* has followed it.
LEMMA AdvancedFacts ==
    ASSUME NEW q \in GPUQueue, NEW r, Advanced(q, r), IsInjective(q.waiting),
           \A k \in Jobs : k \in ToSet(q.waiting) => q.running # k
    PROVE  IsInjective(r.waiting) /\ \A k \in Jobs : Follows(q, r, k)
<1>1. CASE r.running = q.running /\ r.waiting = q.waiting
  BY <1>1 DEF Follows
<1>2. CASE /\ q.running = None /\ q.waiting # <<>>
           /\ r.running = Head(q.waiting) /\ r.waiting = Tail(q.waiting)
  <2>1. q.waiting \in Seq(Jobs)
    BY DEF GPUQueue
  <2>2. /\ ToSet(q.waiting) = {r.running} \cup ToSet(r.waiting)
        /\ r.running \notin ToSet(r.waiting) /\ IsInjective(r.waiting)
    BY <1>2, <2>1, TailFacts
  <2> QED BY <1>2, <2>2, ConstantsAssumption DEF Follows
<1> QED BY <1>1, <1>2 DEF Advanced

\* A job's own record is consistent: the instances of JobPlaces,
\* RunningRecorded and TicketsOwned for job k.
JobOK(k) ==
    /\ jobAt[k] # "idle" => jobGPU[k] \in GPUs
    /\ jobAt[k] = "waiting" => \/ gpus[jobGPU[k]].running = k
                               \/ k \in ToSet(gpus[jobGPU[k]].waiting)
    /\ \A g \in GPUs : gpus[g].running = k => jobAt[k] # "idle" /\ jobGPU[k] = g
    /\ jobAt[k] \in {"working", "giveBack"} => gpus[jobGPU[k]].running = k
    /\ \A g \in GPUs : k \in ToSet(gpus[g].waiting) =>
          jobAt[k] = "waiting" /\ jobGPU[k] = g /\ gpus[g].running # k

\* The queues' waiting lists have no duplicates.
NoDuplicates == \A g \in GPUs : IsInjective(gpus[g].waiting)

\* The three parts of the invariant about jobs, job by job: JobOK can then be
\* shown of the job that moves and of the others apart.
LEMMA JobOKEquiv ==
    JobPlaces /\ RunningRecorded /\ TicketsOwned <=> NoDuplicates /\ \A k \in Jobs : JobOK(k)
  BY DEF JobPlaces, RunningRecorded, TicketsOwned, NoDuplicates, JobOK

\* The same after a step.
LEMMA JobOKEquivPrime ==
    (JobPlaces /\ RunningRecorded /\ TicketsOwned)'
      <=> NoDuplicates' /\ \A k \in Jobs : JobOK(k)'
  BY DEF JobPlaces, RunningRecorded, TicketsOwned, NoDuplicates, JobOK

\* A job that does not move, while the queues let it follow, stays consistent.
LEMMA OtherJobKept ==
    ASSUME TypeOK, NEW k \in Jobs, JobOK(k), jobAt'[k] = jobAt[k], jobGPU'[k] = jobGPU[k],
           \A g \in GPUs : Follows(gpus[g], gpus'[g], k)
    PROVE  JobOK(k)'
<1>1. /\ jobAt'[k] # "idle" => jobGPU'[k] \in GPUs
      /\ jobAt'[k] = "waiting" => \/ gpus'[jobGPU'[k]].running = k
                                  \/ k \in ToSet(gpus'[jobGPU'[k]].waiting)
  BY DEF JobOK, Follows
<1>2. \A g \in GPUs : gpus'[g].running = k => jobAt'[k] # "idle" /\ jobGPU'[k] = g
  BY DEF JobOK, Follows
<1>3. jobAt'[k] \in {"working", "giveBack"} => gpus'[jobGPU'[k]].running = k
  BY DEF JobOK, Follows
<1>4. \A g \in GPUs : k \in ToSet(gpus'[g].waiting) =>
          jobAt'[k] = "waiting" /\ jobGPU'[k] = g /\ gpus'[g].running # k
  BY DEF JobOK, Follows
<1> QED BY <1>1, <1>2, <1>3, <1>4 DEF JobOK

\* A step in which no job's goroutine moves.
LEMMA JobsKept ==
    ASSUME TypeOK, JobPlaces, RunningRecorded, TicketsOwned, UNCHANGED <<jobAt, jobGPU>>,
           \A g \in GPUs : Advanced(gpus[g], gpus'[g])
    PROVE  (JobPlaces /\ RunningRecorded /\ TicketsOwned)'
<1>1. NoDuplicates /\ \A k \in Jobs : JobOK(k)
  BY JobOKEquiv
<1>2. ASSUME NEW g \in GPUs
      PROVE  IsInjective(gpus'[g].waiting) /\ \A k \in Jobs : Follows(gpus[g], gpus'[g], k)
  <2>1. gpus[g] \in GPUQueue /\ IsInjective(gpus[g].waiting)
        /\ \A k \in Jobs : k \in ToSet(gpus[g].waiting) => gpus[g].running # k
    BY DEF TypeOK, TicketsOwned
  <2> QED BY <2>1, AdvancedFacts
<1>3. ASSUME NEW k \in Jobs PROVE JobOK(k)'
  BY <1>1, <1>2, OtherJobKept
<1>4. NoDuplicates'
  BY <1>2 DEF NoDuplicates
<1> QED BY <1>3, <1>4, JobOKEquivPrime

\* A step in which one job's goroutine, j, moves on GPU g.
LEMMA OneJobKept ==
    ASSUME TypeOK, JobPlaces, RunningRecorded, TicketsOwned,
           NEW j \in Jobs, NEW g \in GPUs, JobOK(j)',
           \A k \in Jobs \ {j} : jobAt'[k] = jobAt[k] /\ jobGPU'[k] = jobGPU[k],
           \A x \in GPUs \ {g} : gpus'[x] = gpus[x],
           IsInjective(gpus'[g].waiting),
           \A k \in Jobs \ {j} : Follows(gpus[g], gpus'[g], k)
    PROVE  (JobPlaces /\ RunningRecorded /\ TicketsOwned)'
<1>1. NoDuplicates /\ \A k \in Jobs : JobOK(k)
  BY JobOKEquiv
<1>2. ASSUME NEW k \in Jobs \ {j}, NEW x \in GPUs PROVE Follows(gpus[x], gpus'[x], k)
  <2>1. CASE x = g
    BY <2>1
  <2>2. CASE x # g
    BY <1>1, <2>2 DEF Follows, JobOK
  <2> QED BY <2>1, <2>2
<1>3. ASSUME NEW k \in Jobs \ {j} PROVE JobOK(k)'
  BY <1>1, <1>2, OtherJobKept
<1>4. NoDuplicates'
  BY <1>1 DEF NoDuplicates
<1> QED BY <1>3, <1>4, JobOKEquivPrime

-----------------------------------------------------------------------------
(* The part of the invariant about measurements.                           *)

HoldInv == Exclusive /\ HoldPlaces /\ HeldRecorded /\ ClaimsCounted

JobInv == JobPlaces /\ RunningRecorded /\ TicketsOwned

\* The invariant is types, jobs, and holds with claims, proved apart.
LEMMA IInvParts == IInv <=> TypeOK /\ JobInv /\ HoldInv
  BY DEF IInv, JobInv, HoldInv, Recorded

\* The same after a step.
LEMMA IInvPartsPrime == IInv' <=> TypeOK' /\ JobInv' /\ HoldInv'
  BY DEF IInv, JobInv, HoldInv, Recorded

\* A step of a job leaves holds and claims alone.
LEMMA HoldsKept ==
    ASSUME HoldInv, UNCHANGED <<holdAt, holdGPUs>>,
           \A g \in GPUs : /\ gpus'[g].held = gpus[g].held
                           /\ gpus'[g].claims = gpus[g].claims
                           /\ gpus'[g].keptBy = gpus[g].keptBy
                           /\ gpus'[g].running = None \/ gpus'[g].held = None
    PROVE  HoldInv'
<1>1. Exclusive'
  BY DEF Exclusive
<1>2. HoldPlaces'
  BY DEF HoldInv, HoldPlaces
<1>3. HeldRecorded'
  <2> SUFFICES ASSUME NEW g \in GPUs, NEW h \in Holders
               PROVE  gpus'[g].held = h <=> holdAt'[h] = "holding" /\ g \in holdGPUs'[h]
    BY DEF HeldRecorded
  <2> QED BY DEF HoldInv, HeldRecorded
<1>4. ClaimsCounted'
  <2> SUFFICES ASSUME NEW g \in GPUs
               PROVE  gpus'[g].claims = Cardinality({h \in Holders : g \in holdGPUs'[h]})
                                        + (IF gpus'[g].keptBy = None THEN 0 ELSE 1)
    BY DEF ClaimsCounted
  <2>1. holdGPUs' = holdGPUs
    OBVIOUS
  <2>2. gpus[g].claims = Cardinality({h \in Holders : g \in holdGPUs[h]})
                         + (IF gpus[g].keptBy = None THEN 0 ELSE 1)
    BY DEF HoldInv, ClaimsCounted
  <2> QED BY <2>1, <2>2
<1> QED BY <1>1, <1>2, <1>3, <1>4 DEF HoldInv

-----------------------------------------------------------------------------
(* The invariant is kept by each action of a job.                          *)

\* Submit: the job starts on a free GPU or is the last in its queue.
LEMMA SubmitInv ==
    ASSUME IInv, NEW j \in Jobs, NEW g \in GPUs, Submit(j, g)
    PROVE  IInv'
<1>0. TypeOK /\ JobInv /\ HoldInv /\ JobOK(j)
  BY IInvParts, JobOKEquiv DEF JobInv
<1>1. gpus[g] \in GPUQueue /\ gpus[g].waiting \in Seq(Jobs)
  BY <1>0 DEF TypeOK, GPUQueue
<1>2. \A x \in GPUs : gpus[x].running # j /\ j \notin ToSet(gpus[x].waiting)
  BY <1>0 DEF Submit, JobOK
<1>3. /\ Append(gpus[g].waiting, j) \in Seq(Jobs)
      /\ ToSet(Append(gpus[g].waiting, j)) = ToSet(gpus[g].waiting) \cup {j}
      /\ IsInjective(gpus[g].waiting) => IsInjective(Append(gpus[g].waiting, j))
  BY <1>1, <1>2, AppendFacts
<1>4. /\ jobAt' = [jobAt EXCEPT ![j] = "waiting"]
      /\ jobGPU' = [jobGPU EXCEPT ![j] = g]
      /\ UNCHANGED <<holdAt, holdGPUs, woken>>
  BY DEF Submit
<1>5. /\ gpus' \in [GPUs -> GPUQueue]
      /\ \A x \in GPUs \ {g} : gpus'[x] = gpus[x]
      /\ gpus'[g].held = gpus[g].held /\ gpus'[g].claims = gpus[g].claims
      /\ gpus'[g].keptBy = gpus[g].keptBy
      /\ \/ /\ gpus[g].running = None /\ gpus[g].held = None
            /\ gpus'[g].running = j /\ gpus'[g].waiting = gpus[g].waiting
         \/ /\ gpus'[g].running = gpus[g].running
            /\ gpus'[g].waiting = Append(gpus[g].waiting, j)
  <2> DEFINE q == gpus[g]
             r == IF Open(q) THEN Start(q, j) ELSE Enqueue(q, j)
  <2>1. gpus' = [gpus EXCEPT ![g] = r] /\ gpus \in [GPUs -> GPUQueue]
    BY <1>0 DEF Submit, TypeOK
  <2>2. /\ r \in GPUQueue /\ r.held = q.held /\ r.claims = q.claims /\ r.keptBy = q.keptBy
        /\ \/ q.running = None /\ q.held = None /\ r.running = j /\ r.waiting = q.waiting
           \/ r.running = q.running /\ r.waiting = Append(q.waiting, j)
    <3>1. CASE Open(q)
      BY <1>1, <3>1 DEF GPUQueue, Open, Unused, Start
    <3>2. CASE ~Open(q)
      BY <1>1, <1>3, <3>2 DEF GPUQueue, Enqueue
    <3> QED BY <3>1, <3>2
  <2> HIDE DEF r
  <2> QED BY <2>1, <2>2
<1>6. TypeOK'
  BY <1>0, <1>4, <1>5 DEF TypeOK
<1>7. JobInv'
  <2>1. jobAt'[j] = "waiting" /\ jobGPU'[j] = g
    BY <1>0, <1>4 DEF TypeOK
  <2>2. JobOK(j)'
    <3>1. \A x \in GPUs \ {g} : gpus'[x].running # j /\ j \notin ToSet(gpus'[x].waiting)
      BY <1>2, <1>5
    <3>2. gpus'[g].running = j <=> j \notin ToSet(gpus'[g].waiting)
      BY <1>2, <1>3, <1>5
    <3> QED BY <2>1, <3>1, <3>2 DEF JobOK
  <2>3. \A k \in Jobs \ {j} : jobAt'[k] = jobAt[k] /\ jobGPU'[k] = jobGPU[k]
    BY <1>0, <1>4 DEF TypeOK
  <2>4. IsInjective(gpus'[g].waiting)
    BY <1>0, <1>3, <1>5 DEF JobInv, TicketsOwned
  <2>5. ASSUME NEW k \in Jobs \ {j} PROVE Follows(gpus[g], gpus'[g], k)
    <3>1. k # None /\ (k \in ToSet(gpus[g].waiting) => gpus[g].running # k)
      BY <1>0, ConstantsAssumption DEF JobInv, TicketsOwned
    <3> QED BY <1>3, <1>5, <3>1 DEF Follows
  <2> QED BY <1>0, <1>5, <2>2, <2>3, <2>4, <2>5, OneJobKept DEF JobInv
<1>8. HoldInv'
  BY <1>0, <1>4, <1>5, HoldsKept DEF HoldInv, Exclusive
<1> QED BY <1>6, <1>7, <1>8, IInvPartsPrime

\* Ready and LeaveStarted move only the job's goroutine.
LEMMA MoveInv ==
    ASSUME IInv, NEW j \in Jobs, Ready(j) \/ LeaveStarted(j)
    PROVE  IInv'
<1>0. TypeOK /\ JobInv /\ HoldInv /\ JobOK(j)
  BY IInvParts, JobOKEquiv DEF JobInv
<1>1. /\ jobAt[j] = "waiting" /\ gpus[jobGPU[j]].running = j /\ jobGPU[j] \in GPUs
      /\ jobAt' \in [Jobs -> {"idle", "waiting", "giveBack", "working"}]
      /\ jobAt'[j] \in {"working", "giveBack"}
      /\ \A k \in Jobs \ {j} : jobAt'[k] = jobAt[k]
      /\ UNCHANGED <<gpus, jobGPU, holdAt, holdGPUs, woken>>
  BY <1>0 DEF Ready, LeaveStarted, JobOK, TypeOK
<1>2. TypeOK'
  BY <1>0, <1>1 DEF TypeOK
<1>3. JobInv'
  <2>1. JobOK(j)'
    BY <1>0, <1>1 DEF JobOK
  <2>2. \A x \in GPUs : IsInjective(gpus'[x].waiting)
    BY <1>0, <1>1 DEF JobInv, TicketsOwned
  <2>3. \A k \in Jobs, x \in GPUs : Follows(gpus[x], gpus'[x], k)
    BY <1>0, <1>1 DEF Follows, JobInv, TicketsOwned
  <2> QED BY <1>0, <1>1, <2>1, <2>2, <2>3, OneJobKept DEF JobInv
<1>4. HoldInv'
  BY <1>0, <1>1, HoldsKept DEF HoldInv, Exclusive
<1> QED BY <1>2, <1>3, <1>4, IInvPartsPrime

\* Wait ends with its context: the ticket leaves the queue.
LEMMA LeaveQueueInv ==
    ASSUME IInv, NEW j \in Jobs, LeaveQueue(j)
    PROVE  IInv'
<1>0. TypeOK /\ JobInv /\ HoldInv /\ JobOK(j)
  BY IInvParts, JobOKEquiv DEF JobInv
<1> DEFINE g == jobGPU[j]
<1>1. g \in GPUs /\ gpus[g] \in GPUQueue /\ gpus[g].waiting \in Seq(Jobs)
  BY <1>0 DEF LeaveQueue, JobOK, TypeOK, GPUQueue
<1>2. PICK i \in 1..Len(gpus[g].waiting) :
          gpus[g].waiting[i] = j /\ gpus' = [gpus EXCEPT ![g] = Dequeue(gpus[g], i)]
  BY DEF LeaveQueue
<1>3. /\ jobAt' = [jobAt EXCEPT ![j] = "idle"]
      /\ jobGPU' = [jobGPU EXCEPT ![j] = None]
      /\ UNCHANGED <<holdAt, holdGPUs, woken>>
  BY DEF LeaveQueue
<1> HIDE DEF g
<1>4. /\ RemoveAt(gpus[g].waiting, i) \in Seq(Jobs)
      /\ ToSet(RemoveAt(gpus[g].waiting, i)) = ToSet(gpus[g].waiting) \ {j}
      /\ IsInjective(RemoveAt(gpus[g].waiting, i))
  BY <1>0, <1>1, <1>2, RemoveAtFacts DEF JobInv, TicketsOwned
<1>5. j \in ToSet(gpus[g].waiting)
  BY <1>1, <1>2, LenProperties DEF ToSet
<1>6. /\ gpus' \in [GPUs -> GPUQueue]
      /\ \A x \in GPUs \ {g} : gpus'[x] = gpus[x]
      /\ gpus'[g].held = gpus[g].held /\ gpus'[g].claims = gpus[g].claims
      /\ gpus'[g].keptBy = gpus[g].keptBy /\ gpus'[g].running = gpus[g].running
      /\ gpus'[g].waiting = RemoveAt(gpus[g].waiting, i)
  BY <1>0, <1>1, <1>2, <1>4 DEF TypeOK, GPUQueue, Dequeue
<1>7. TypeOK'
  BY <1>0, <1>3, <1>6 DEF TypeOK
<1>8. JobInv'
  <2>1. jobAt'[j] = "idle" /\ \A k \in Jobs \ {j} : jobAt'[k] = jobAt[k] /\ jobGPU'[k] = jobGPU[k]
    BY <1>0, <1>3 DEF TypeOK
  <2>2. \A x \in GPUs : gpus'[x].running # j /\ j \notin ToSet(gpus'[x].waiting)
    BY <1>0, <1>1, <1>4, <1>5, <1>6 DEF JobOK
  <2>3. JobOK(j)'
    BY <2>1, <2>2 DEF JobOK
  <2>4. \A k \in Jobs \ {j} : Follows(gpus[g], gpus'[g], k)
    BY <1>0, <1>1, <1>4, <1>6 DEF Follows, JobInv, TicketsOwned
  <2> QED BY <1>0, <1>1, <1>4, <1>6, <2>1, <2>3, <2>4, OneJobKept DEF JobInv
<1>9. HoldInv'
  BY <1>0, <1>3, <1>6, HoldsKept DEF HoldInv, Exclusive
<1> QED BY <1>7, <1>8, <1>9, IInvPartsPrime

\* Done: the GPU goes to the next job, if it is open.
LEMMA DoneInv ==
    ASSUME IInv, NEW j \in Jobs, Done(j)
    PROVE  IInv'
<1>0. TypeOK /\ JobInv /\ HoldInv /\ JobOK(j)
  BY IInvParts, JobOKEquiv DEF JobInv
<1> DEFINE g == jobGPU[j]
           q == [gpus[g] EXCEPT !.running = None]
<1>1. g \in GPUs /\ gpus[g] \in GPUQueue /\ gpus[g].running = j
  BY <1>0 DEF Done, JobOK, TypeOK
<1>2. /\ jobAt' = [jobAt EXCEPT ![j] = "idle"]
      /\ jobGPU' = [jobGPU EXCEPT ![j] = None]
      /\ gpus' = [gpus EXCEPT ![g] = StartNext(q)]
      /\ woken' \in [Holders -> BOOLEAN]
      /\ UNCHANGED <<holdAt, holdGPUs>>
  BY <1>1 DEF Done, Finish, Notify
<1>3. /\ q \in GPUQueue
      /\ q.running = None /\ q.waiting = gpus[g].waiting /\ q.held = gpus[g].held
      /\ q.claims = gpus[g].claims /\ q.keptBy = gpus[g].keptBy
  BY <1>1 DEF GPUQueue
<1> HIDE DEF g, q
<1>4. /\ \A x \in GPUs \ {g} : gpus'[x] = gpus[x]
      /\ gpus'[g] = StartNext(q)
  BY <1>0, <1>1, <1>2 DEF TypeOK
<1>5. /\ gpus'[g] \in GPUQueue
      /\ gpus'[g].held = gpus[g].held /\ gpus'[g].claims = gpus[g].claims
      /\ gpus'[g].keptBy = gpus[g].keptBy
      /\ Advanced(q, gpus'[g])
  BY <1>3, <1>4, StartNextFacts DEF Advanced
<1>6. TypeOK'
  BY <1>0, <1>1, <1>2, <1>4, <1>5 DEF TypeOK
<1>7. /\ IsInjective(gpus'[g].waiting)
      /\ \A k \in Jobs : Follows(q, gpus'[g], k)
  BY <1>0, <1>1, <1>3, <1>5, AdvancedFacts, ConstantsAssumption DEF JobInv, TicketsOwned
<1>8. JobInv'
  <2>1. jobAt'[j] = "idle" /\ \A k \in Jobs \ {j} : jobAt'[k] = jobAt[k] /\ jobGPU'[k] = jobGPU[k]
    BY <1>0, <1>2 DEF TypeOK
  <2>2. \A x \in GPUs : gpus'[x].running # j /\ j \notin ToSet(gpus'[x].waiting)
    <3>1. ASSUME NEW x \in GPUs, x # g
          PROVE  gpus'[x].running # j /\ j \notin ToSet(gpus'[x].waiting)
      BY <1>0, <1>1, <1>4, <3>1 DEF JobOK, g
    <3>2. gpus'[g].running # j /\ j \notin ToSet(gpus'[g].waiting)
      BY <1>0, <1>1, <1>3, <1>7, ConstantsAssumption DEF JobOK, Follows
    <3> QED BY <3>1, <3>2
  <2>3. JobOK(j)'
    BY <2>1, <2>2 DEF JobOK
  <2>4. \A k \in Jobs \ {j} : Follows(gpus[g], gpus'[g], k)
    <3>1. ASSUME NEW k \in Jobs \ {j} PROVE Follows(gpus[g], gpus'[g], k)
      BY <1>1, <1>3, <1>7, ConstantsAssumption DEF Follows
    <3> QED BY <3>1
  <2> QED BY <1>0, <1>1, <1>4, <1>7, <2>1, <2>3, <2>4, OneJobKept DEF JobInv
<1>9. HoldInv'
  <2>1. gpus'[g].running = None \/ gpus'[g].held = None
    BY <1>0, <1>1, <1>5, ConstantsAssumption DEF HoldInv, Exclusive
  <2> QED BY <1>0, <1>1, <1>2, <1>4, <1>5, <2>1, HoldsKept DEF HoldInv, Exclusive
<1> QED BY <1>6, <1>8, <1>9, IInvPartsPrime

-----------------------------------------------------------------------------
(* The invariant is kept by each action of a measurement.                  *)

\* The measurements that claim GPU g when f says who claims what.
Claimants(f, g) == {h \in Holders : g \in f[h]}

\* Counting a GPU's claimants apart from one measurement, h.
LEMMA ClaimantsApart ==
    ASSUME NEW f, NEW h \in Holders, NEW g
    PROVE  /\ Cardinality(Claimants(f, g) \ {h}) \in Nat
           /\ g \in f[h] => Cardinality(Claimants(f, g)) = Cardinality(Claimants(f, g) \ {h}) + 1
           /\ g \notin f[h] => Claimants(f, g) = Claimants(f, g) \ {h}
<1>1. Claimants(f, g) \in SUBSET Holders /\ (h \in Claimants(f, g) <=> g \in f[h])
  BY DEF Claimants
<1>2. IsFiniteSet(Claimants(f, g)) /\ Cardinality(Claimants(f, g)) \in Nat
  BY <1>1, ConstantsAssumption, FS_Subset, FS_CardinalityType
<1>3. IsFiniteSet(Claimants(f, g) \ {h}) /\ Cardinality(Claimants(f, g) \ {h}) \in Nat
  BY <1>2, FS_RemoveElement, FS_CardinalityType
<1>4. CASE g \in f[h]
  BY <1>1, <1>2, <1>3, <1>4, FS_RemoveElement
<1>5. CASE g \notin f[h]
  BY <1>1, <1>3, <1>5
<1> QED BY <1>4, <1>5

\* 1 while GPU g is kept.
Kept(g) == IF gpus[g].keptBy = None THEN 0 ELSE 1

\* The claims of a GPU are its claimants and its keep.
LEMMA ClaimsCountedBy ==
    /\ ClaimsCounted <=> \A g \in GPUs :
          gpus[g].claims = Cardinality(Claimants(holdGPUs, g)) + Kept(g)
    /\ ClaimsCounted' <=> \A g \in GPUs :
          gpus'[g].claims = Cardinality(Claimants(holdGPUs', g)) + Kept(g)'
  BY DEF ClaimsCounted, Claimants, Kept

\* A GPU that a measurement claims or that is kept has a claim to give up.
LEMMA ClaimsPositive ==
    ASSUME TypeOK, ClaimsCounted, NEW g \in GPUs,
           gpus[g].keptBy # None \/ \E h \in Holders : g \in holdGPUs[h]
    PROVE  gpus[g].claims # 0
<1>1. gpus[g].claims = Cardinality(Claimants(holdGPUs, g)) + Kept(g)
  BY ClaimsCountedBy
<1>2. Cardinality(Claimants(holdGPUs, g)) \in Nat
  <2>1. Claimants(holdGPUs, g) \in SUBSET Holders
    BY DEF Claimants
  <2> QED BY <2>1, ConstantsAssumption, FS_Subset, FS_CardinalityType
<1>3. CASE gpus[g].keptBy # None
  BY <1>1, <1>2, <1>3 DEF Kept
<1>4. CASE \E h \in Holders : g \in holdGPUs[h]
  <2>1. PICK h \in Holders : g \in holdGPUs[h]
    BY <1>4
  <2>2. /\ Cardinality(Claimants(holdGPUs, g) \ {h}) \in Nat
        /\ Cardinality(Claimants(holdGPUs, g)) = Cardinality(Claimants(holdGPUs, g) \ {h}) + 1
    BY <2>1, ClaimantsApart
  <2> QED BY <1>1, <2>2 DEF Kept
<1> QED BY <1>3, <1>4

\* Only measurement h changes what it claims, and the GPUs' claims follow.
LEMMA ClaimsMoved ==
    ASSUME TypeOK, ClaimsCounted, NEW h \in Holders, NEW before, NEW after,
           holdGPUs[h] = before, holdGPUs'[h] = after,
           \A k \in Holders \ {h} : holdGPUs'[k] = holdGPUs[k],
           \A g \in GPUs : /\ gpus'[g].keptBy = gpus[g].keptBy
                           /\ gpus'[g].claims = gpus[g].claims
                                + (IF g \in after THEN 1 ELSE 0) - (IF g \in before THEN 1 ELSE 0)
    PROVE  ClaimsCounted'
<1>1. ASSUME NEW g \in GPUs
      PROVE  gpus'[g].claims = Cardinality(Claimants(holdGPUs', g)) + Kept(g)'
  <2> DEFINE others == Claimants(holdGPUs, g) \ {h}
  <2>1. Claimants(holdGPUs', g) \ {h} = others
    BY DEF Claimants
  <2>2. /\ Cardinality(others) \in Nat
        /\ g \in before => Cardinality(Claimants(holdGPUs, g)) = Cardinality(others) + 1
        /\ g \notin before => Claimants(holdGPUs, g) = others
    BY ClaimantsApart
  <2>3. /\ g \in holdGPUs'[h] => Cardinality(Claimants(holdGPUs', g))
                                   = Cardinality(Claimants(holdGPUs', g) \ {h}) + 1
        /\ g \notin holdGPUs'[h] => Claimants(holdGPUs', g) = Claimants(holdGPUs', g) \ {h}
    <3> DEFINE f == holdGPUs'
    <3> HIDE DEF f
    <3>1. /\ g \in f[h] => Cardinality(Claimants(f, g)) = Cardinality(Claimants(f, g) \ {h}) + 1
          /\ g \notin f[h] => Claimants(f, g) = Claimants(f, g) \ {h}
      BY ClaimantsApart
    <3> QED BY <3>1 DEF f
  <2> HIDE DEF others
  <2>4. /\ g \in after => Cardinality(Claimants(holdGPUs', g)) = Cardinality(others) + 1
        /\ g \notin after => Cardinality(Claimants(holdGPUs', g)) = Cardinality(others)
    BY <2>1, <2>3
  <2>5. gpus[g].claims = Cardinality(Claimants(holdGPUs, g)) + Kept(g)
    BY ClaimsCountedBy
  <2>6. Kept(g)' = Kept(g) /\ Kept(g) \in Nat
    BY DEF Kept
  <2>7. gpus'[g].claims = gpus[g].claims + (IF g \in after THEN 1 ELSE 0) - (IF g \in before THEN 1 ELSE 0)
    OBVIOUS
  <2>8. gpus[g].claims = Cardinality(others) + (IF g \in before THEN 1 ELSE 0) + Kept(g)
    BY <2>2, <2>5, <2>6
  <2>9. Cardinality(Claimants(holdGPUs', g)) = Cardinality(others) + (IF g \in after THEN 1 ELSE 0)
    BY <2>2, <2>4
  <2> QED BY <2>2, <2>6, <2>7, <2>8, <2>9
<1> QED BY <1>1, ClaimsCountedBy

\* Hold, both ways: the GPUs of S are claimed, and held if nobody uses them.
LEMMA HoldStepInv ==
    ASSUME IInv, NEW h \in Holders, NEW S \in SUBSET GPUs, Hold(h, S)
    PROVE  IInv'
<1>0. TypeOK /\ JobInv /\ HoldInv
  BY IInvParts
<1>1. /\ holdAt[h] = "idle" /\ holdGPUs[h] = {}
      /\ holdGPUs' = [holdGPUs EXCEPT ![h] = S]
      /\ UNCHANGED <<jobAt, jobGPU, woken>>
  BY <1>0 DEF Hold, HoldInv, HoldPlaces
<1>2. /\ gpus' \in [GPUs -> GPUQueue]
      /\ \A g \in GPUs \ S : gpus'[g] = gpus[g]
      /\ \A g \in S : /\ gpus'[g].claims = gpus[g].claims + 1
                      /\ gpus'[g].running = gpus[g].running
                      /\ gpus'[g].waiting = gpus[g].waiting
                      /\ gpus'[g].keptBy = gpus[g].keptBy
      /\ \/ /\ holdAt' = [holdAt EXCEPT ![h] = "holding"]
            /\ \A g \in S : /\ gpus'[g].held = h
                            /\ gpus[g].running = None /\ gpus[g].held = None
         \/ /\ holdAt' = [holdAt EXCEPT ![h] = "waiting"]
            /\ \A g \in S : gpus'[g].held = gpus[g].held
  <2>1. CASE AllUnused(S)
    <3>1. /\ gpus' = [g \in GPUs |-> IF g \in S THEN Take(Claim(gpus[g]), h) ELSE gpus[g]]
          /\ holdAt' = [holdAt EXCEPT ![h] = "holding"]
      BY <2>1 DEF Hold, OnGPUs
    <3> QED BY <2>1, <3>1, ClaimFacts, TakeFacts, <1>0 DEF AllUnused, Unused, TypeOK
  <2>2. CASE ~AllUnused(S)
    <3>1. /\ gpus' = [g \in GPUs |-> IF g \in S THEN Claim(gpus[g]) ELSE gpus[g]]
          /\ holdAt' = [holdAt EXCEPT ![h] = "waiting"]
      BY <2>2 DEF Hold, OnGPUs
    <3> QED BY <3>1, ClaimFacts, <1>0 DEF TypeOK
  <2> QED BY <2>1, <2>2
<1>4. TypeOK'
  BY <1>0, <1>1, <1>2 DEF TypeOK
<1>5. JobInv'
  <2>1. \A g \in GPUs : Advanced(gpus[g], gpus'[g])
    BY <1>2 DEF Advanced
  <2> QED BY <1>0, <1>1, <2>1, JobsKept DEF JobInv
<1>6. Exclusive' /\ HoldPlaces'
  BY <1>0, <1>1, <1>2 DEF TypeOK, HoldInv, Exclusive, HoldPlaces
<1>7. HeldRecorded'
  <2>1. ASSUME NEW g \in GPUs, NEW k \in Holders
        PROVE  gpus'[g].held = k <=> holdAt'[k] = "holding" /\ g \in holdGPUs'[k]
    <3>1. CASE k = h
      BY <1>0, <1>1, <1>2, <3>1, ConstantsAssumption DEF TypeOK, HoldInv, HeldRecorded
    <3>2. CASE k # h
      BY <1>0, <1>1, <1>2, <3>2, ConstantsAssumption DEF TypeOK, HoldInv, HeldRecorded
    <3> QED BY <3>1, <3>2
  <2> QED BY <2>1 DEF HeldRecorded
<1>8. ClaimsCounted'
  <2>1. holdGPUs'[h] = S /\ \A k \in Holders \ {h} : holdGPUs'[k] = holdGPUs[k]
    BY <1>0, <1>1 DEF TypeOK
  <2>2. ASSUME NEW g \in GPUs
        PROVE  /\ gpus'[g].keptBy = gpus[g].keptBy
               /\ gpus'[g].claims = gpus[g].claims + (IF g \in S THEN 1 ELSE 0) - (IF g \in {} THEN 1 ELSE 0)
    BY <1>0, <1>2 DEF TypeOK, GPUQueue
  <2> QED BY <1>0, <1>1, <2>1, <2>2, ClaimsMoved DEF HoldInv
<1> QED BY <1>4, <1>5, <1>6, <1>7, <1>8, IInvPartsPrime DEF HoldInv

\* A woken Hold looks again, and takes its GPUs if they are all unused.
LEMMA HoldAgainInv ==
    ASSUME IInv, NEW h \in Holders, HoldAgain(h)
    PROVE  IInv'
<1>0. TypeOK /\ JobInv /\ HoldInv
  BY IInvParts
<1> DEFINE S == holdGPUs[h]
<1>1. /\ holdAt[h] = "waiting" /\ S \subseteq GPUs
      /\ woken' \in [Holders -> BOOLEAN]
      /\ UNCHANGED <<jobAt, jobGPU, holdGPUs>>
  BY <1>0 DEF HoldAgain, TypeOK
<1> HIDE DEF S
<1>2. /\ gpus' \in [GPUs -> GPUQueue]
      /\ holdAt' \in [Holders -> {"idle", "waiting", "holding"}]
      /\ \A k \in Holders \ {h} : holdAt'[k] = holdAt[k]
      /\ \A g \in GPUs \ S : gpus'[g] = gpus[g]
      /\ \A g \in S : /\ gpus'[g].claims = gpus[g].claims
                      /\ gpus'[g].running = gpus[g].running
                      /\ gpus'[g].waiting = gpus[g].waiting
                      /\ gpus'[g].keptBy = gpus[g].keptBy
      /\ \/ /\ holdAt'[h] = "holding"
            /\ \A g \in S : /\ gpus'[g].held = h
                            /\ gpus[g].running = None /\ gpus[g].held = None
         \/ /\ holdAt'[h] = "waiting"
            /\ \A g \in S : gpus'[g].held = gpus[g].held
  <2>1. CASE AllUnused(S)
    <3>1. /\ gpus' = [g \in GPUs |-> IF g \in S THEN Take(gpus[g], h) ELSE gpus[g]]
          /\ holdAt' = [holdAt EXCEPT ![h] = "holding"]
      BY <2>1 DEF S, HoldAgain, OnGPUs
    <3> QED BY <1>0, <1>1, <2>1, <3>1, TakeFacts DEF AllUnused, Unused, TypeOK
  <2>2. CASE ~AllUnused(S)
    <3>1. UNCHANGED <<gpus, holdAt>>
      BY <2>2 DEF S, HoldAgain
    <3> QED BY <1>0, <1>1, <3>1 DEF TypeOK
  <2> QED BY <2>1, <2>2
<1>3. TypeOK'
  BY <1>0, <1>1, <1>2 DEF TypeOK
<1>4. JobInv'
  <2>1. \A g \in GPUs : Advanced(gpus[g], gpus'[g])
    BY <1>2 DEF Advanced
  <2> QED BY <1>0, <1>1, <2>1, JobsKept DEF JobInv
<1>5. Exclusive' /\ HoldPlaces'
  BY <1>0, <1>1, <1>2 DEF TypeOK, HoldInv, Exclusive, HoldPlaces
<1>6. HeldRecorded'
  <2>1. ASSUME NEW g \in GPUs, NEW k \in Holders
        PROVE  gpus'[g].held = k <=> holdAt'[k] = "holding" /\ g \in holdGPUs'[k]
    <3>1. CASE k = h
      BY <1>0, <1>1, <1>2, <3>1 DEF S, HoldInv, HeldRecorded
    <3>2. CASE k # h
      BY <1>0, <1>1, <1>2, <3>2, ConstantsAssumption DEF HoldInv, HeldRecorded
    <3> QED BY <3>1, <3>2
  <2> QED BY <2>1 DEF HeldRecorded
<1>7. ClaimsCounted'
  <2>1. \A g \in GPUs : gpus'[g].claims = gpus[g].claims /\ gpus'[g].keptBy = gpus[g].keptBy
    BY <1>2
  <2> QED BY <1>0, <1>1, <2>1 DEF HoldInv, ClaimsCounted
<1> QED BY <1>3, <1>4, <1>5, <1>6, <1>7, IInvPartsPrime DEF HoldInv

\* A Hold that gives up takes its claims back.
LEMMA HoldCancelInv ==
    ASSUME IInv, NEW h \in Holders, HoldCancel(h)
    PROVE  IInv'
<1>0. TypeOK /\ JobInv /\ HoldInv
  BY IInvParts
<1> DEFINE S == holdGPUs[h]
<1>1. /\ holdAt[h] = "waiting" /\ S \subseteq GPUs
      /\ holdAt' = [holdAt EXCEPT ![h] = "idle"]
      /\ holdGPUs' = [holdGPUs EXCEPT ![h] = {}]
      /\ woken' = [woken EXCEPT ![h] = FALSE]
      /\ gpus' = [g \in GPUs |-> IF g \in S THEN Unclaim(gpus[g]) ELSE gpus[g]]
      /\ UNCHANGED <<jobAt, jobGPU>>
  BY <1>0 DEF HoldCancel, TypeOK, OnGPUs
<1>2. ASSUME NEW g \in S
      PROVE  /\ gpus'[g] \in GPUQueue
             /\ gpus'[g].held = gpus[g].held /\ gpus'[g].keptBy = gpus[g].keptBy
             /\ gpus'[g].claims = gpus[g].claims - 1
             /\ Advanced(gpus[g], gpus'[g])
             /\ gpus'[g].running = None \/ gpus'[g].held = None
  <2>1. gpus[g] \in GPUQueue /\ gpus[g].claims # 0 /\ gpus'[g] = Unclaim(gpus[g])
    BY <1>0, <1>1, ClaimsPositive DEF TypeOK, HoldInv
  <2>2. gpus[g].running = None \/ gpus[g].held = None
    BY <1>0, <1>1 DEF HoldInv, Exclusive
  <2> QED BY <2>1, <2>2, UnclaimFacts DEF Advanced
<1>3. \A g \in GPUs \ S : gpus'[g] = gpus[g]
  BY <1>1
<1>4. TypeOK'
  BY <1>0, <1>1, <1>2, <1>3 DEF TypeOK
<1>5. JobInv'
  <2>1. \A g \in GPUs : Advanced(gpus[g], gpus'[g])
    BY <1>2, <1>3 DEF Advanced
  <2> QED BY <1>0, <1>1, <2>1, JobsKept DEF JobInv
<1>6. Exclusive' /\ HoldPlaces'
  BY <1>0, <1>1, <1>2, <1>3 DEF TypeOK, HoldInv, Exclusive, HoldPlaces
<1> HIDE DEF S
<1>7. HeldRecorded'
  <2>1. ASSUME NEW g \in GPUs, NEW k \in Holders
        PROVE  gpus'[g].held = k <=> holdAt'[k] = "holding" /\ g \in holdGPUs'[k]
    <3>1. gpus'[g].held = gpus[g].held
      BY <1>2, <1>3
    <3>2. CASE k = h
      BY <1>0, <1>1, <3>1, <3>2 DEF TypeOK, HoldInv, HeldRecorded
    <3>3. CASE k # h
      BY <1>0, <1>1, <3>1, <3>3 DEF TypeOK, HoldInv, HeldRecorded
    <3> QED BY <3>2, <3>3
  <2> QED BY <2>1 DEF HeldRecorded
<1>8. ClaimsCounted'
  <2>1. holdGPUs'[h] = {} /\ \A k \in Holders \ {h} : holdGPUs'[k] = holdGPUs[k]
    BY <1>0, <1>1 DEF TypeOK
  <2>2. ASSUME NEW g \in GPUs
        PROVE  /\ gpus'[g].keptBy = gpus[g].keptBy
               /\ gpus'[g].claims = gpus[g].claims + (IF g \in {} THEN 1 ELSE 0) - (IF g \in S THEN 1 ELSE 0)
    BY <1>0, <1>2, <1>3 DEF TypeOK, GPUQueue
  <2>3. TypeOK /\ ClaimsCounted /\ holdGPUs[h] = S /\ S \subseteq GPUs
    BY <1>0, <1>1 DEF HoldInv, S
  <2> QED BY <2>1, <2>2, <2>3, ClaimsMoved
<1> QED BY <1>4, <1>5, <1>6, <1>7, <1>8, IInvPartsPrime DEF HoldInv

\* A hold ends: its GPUs and its claims are given back.
LEMMA ReleaseHoldInv ==
    ASSUME IInv, NEW h \in Holders, ReleaseHold(h)
    PROVE  IInv'
<1>0. TypeOK /\ JobInv /\ HoldInv
  BY IInvParts
<1> DEFINE S == holdGPUs[h]
<1>1. /\ holdAt[h] = "holding" /\ S \subseteq GPUs
      /\ holdAt' = [holdAt EXCEPT ![h] = "idle"]
      /\ holdGPUs' = [holdGPUs EXCEPT ![h] = {}]
      /\ woken' \in [Holders -> BOOLEAN]
      /\ gpus' = [g \in GPUs |-> IF g \in S THEN Unclaim(Take(gpus[g], None)) ELSE gpus[g]]
      /\ UNCHANGED <<jobAt, jobGPU>>
  BY <1>0 DEF ReleaseHold, TypeOK, OnGPUs, Notify
<1>2. ASSUME NEW g \in S
      PROVE  /\ gpus'[g] \in GPUQueue
             /\ gpus[g].held = h /\ gpus'[g].held = None
             /\ gpus'[g].keptBy = gpus[g].keptBy
             /\ gpus'[g].claims = gpus[g].claims - 1
             /\ Advanced(gpus[g], gpus'[g])
  <2>1. gpus[g] \in GPUQueue /\ gpus[g].claims # 0 /\ gpus'[g] = Unclaim(Take(gpus[g], None))
    BY <1>0, <1>1, ClaimsPositive DEF TypeOK, HoldInv
  <2>2. gpus[g].held = h
    BY <1>0, <1>1 DEF HoldInv, HeldRecorded
  <2>3. /\ Take(gpus[g], None) \in GPUQueue
        /\ Take(gpus[g], None).held = None
        /\ Take(gpus[g], None).claims = gpus[g].claims
        /\ Take(gpus[g], None).keptBy = gpus[g].keptBy
        /\ Take(gpus[g], None).running = gpus[g].running
        /\ Take(gpus[g], None).waiting = gpus[g].waiting
    BY <2>1, TakeFacts
  <2> QED BY <2>1, <2>2, <2>3, UnclaimFacts DEF Advanced
<1>3. \A g \in GPUs \ S : gpus'[g] = gpus[g]
  BY <1>1
<1>4. TypeOK'
  BY <1>0, <1>1, <1>2, <1>3 DEF TypeOK
<1>5. JobInv'
  <2>1. \A g \in GPUs : Advanced(gpus[g], gpus'[g])
    BY <1>2, <1>3 DEF Advanced
  <2> QED BY <1>0, <1>1, <2>1, JobsKept DEF JobInv
<1>6. Exclusive' /\ HoldPlaces'
  BY <1>0, <1>1, <1>2, <1>3 DEF TypeOK, HoldInv, Exclusive, HoldPlaces
<1>7. HeldRecorded'
  <2>1. ASSUME NEW g \in GPUs, NEW k \in Holders
        PROVE  gpus'[g].held = k <=> holdAt'[k] = "holding" /\ g \in holdGPUs'[k]
    <3>1. CASE k = h
      <4>1. gpus'[g].held # h
        BY <1>0, <1>1, <1>2, <1>3, ConstantsAssumption DEF HoldInv, HeldRecorded
      <4> QED BY <1>0, <1>1, <3>1, <4>1 DEF TypeOK
    <3>2. CASE k # h
      <4>1. gpus'[g].held = k <=> gpus[g].held = k
        BY <1>2, <1>3, <3>2, ConstantsAssumption
      <4> QED BY <1>0, <1>1, <3>2, <4>1 DEF TypeOK, HoldInv, HeldRecorded
    <3> QED BY <3>1, <3>2
  <2> QED BY <2>1 DEF HeldRecorded
<1> HIDE DEF S
<1>8. ClaimsCounted'
  <2>1. holdGPUs'[h] = {} /\ \A k \in Holders \ {h} : holdGPUs'[k] = holdGPUs[k]
    BY <1>0, <1>1 DEF TypeOK
  <2>2. ASSUME NEW g \in GPUs
        PROVE  /\ gpus'[g].keptBy = gpus[g].keptBy
               /\ gpus'[g].claims = gpus[g].claims + (IF g \in {} THEN 1 ELSE 0) - (IF g \in S THEN 1 ELSE 0)
    BY <1>0, <1>2, <1>3 DEF TypeOK, GPUQueue
  <2> QED BY <1>0, <1>1, <2>1, <2>2, ClaimsMoved DEF HoldInv, S
<1> QED BY <1>4, <1>5, <1>6, <1>7, <1>8, IInvPartsPrime DEF HoldInv

\* A GPU is kept, one claim more of nobody in Holders, or kept no more.
LEMMA KeepInv ==
    ASSUME IInv, NEW g \in GPUs, (\E o \in Owners : Keep(g, o)) \/ ReleaseKeep(g)
    PROVE  IInv'
<1>0. TypeOK /\ JobInv /\ HoldInv /\ gpus[g] \in GPUQueue
  BY IInvParts DEF TypeOK
<1>1. /\ UNCHANGED <<jobAt, jobGPU, holdAt, holdGPUs>>
      /\ woken' \in [Holders -> BOOLEAN]
      /\ \A x \in GPUs \ {g} : gpus'[x] = gpus[x]
      /\ DOMAIN gpus' = GPUs
      /\ gpus' = [x \in GPUs |-> gpus'[x]]
  BY <1>0 DEF Keep, ReleaseKeep, Notify, TypeOK
<1>2. /\ gpus'[g] \in GPUQueue
      /\ gpus'[g].held = gpus[g].held
      /\ Advanced(gpus[g], gpus'[g])
      /\ gpus'[g].running = None \/ gpus'[g].held = None
      /\ gpus'[g].claims = gpus[g].claims + Kept(g)' - Kept(g)
  <2>0. gpus[g].running = None \/ gpus[g].held = None
    BY <1>0 DEF HoldInv, Exclusive
  <2>1. CASE \E o \in Owners : Keep(g, o)
    <3>1. PICK o \in Owners : Keep(g, o)
      BY <2>1
    <3>2. gpus'[g] = [Claim(gpus[g]) EXCEPT !.keptBy = o] /\ gpus[g].keptBy = None
      BY <1>0, <3>1 DEF Keep, TypeOK
    <3>3. /\ gpus'[g] \in GPUQueue /\ gpus'[g].held = gpus[g].held
          /\ gpus'[g].running = gpus[g].running /\ gpus'[g].waiting = gpus[g].waiting
          /\ gpus'[g].claims = gpus[g].claims + 1 /\ gpus'[g].keptBy = o
      <4> DEFINE q == Claim(gpus[g])
      <4>1. /\ q \in GPUQueue /\ q.held = gpus[g].held /\ q.running = gpus[g].running
            /\ q.waiting = gpus[g].waiting /\ q.claims = gpus[g].claims + 1
        BY <1>0, ClaimFacts
      <4>2. gpus'[g] = [q EXCEPT !.keptBy = o]
        BY <3>2
      <4> HIDE DEF q
      <4> QED BY <4>1, <4>2 DEF GPUQueue
    <3>4. Kept(g)' = 1 /\ Kept(g) = 0
      BY <3>2, <3>3, ConstantsAssumption DEF Kept
    <3>5. gpus[g].claims \in Nat
      BY <1>0 DEF GPUQueue
    <3> QED BY <2>0, <3>3, <3>4, <3>5 DEF Advanced
  <2>2. CASE ReleaseKeep(g)
    <3> DEFINE q == [gpus[g] EXCEPT !.keptBy = None]
    <3>1. gpus'[g] = Unclaim(q) /\ gpus[g].keptBy # None
      BY <1>0, <2>2 DEF ReleaseKeep, TypeOK
    <3>2. /\ q \in GPUQueue /\ q.keptBy = None /\ q.held = gpus[g].held
          /\ q.running = gpus[g].running /\ q.waiting = gpus[g].waiting
          /\ q.claims = gpus[g].claims /\ gpus[g].claims \in Nat
      BY <1>0 DEF GPUQueue
    <3>3. gpus[g].claims # 0
      BY <1>0, <3>1, ClaimsPositive DEF HoldInv
    <3> HIDE DEF q
    <3>4. /\ gpus'[g] \in GPUQueue /\ gpus'[g].held = gpus[g].held
          /\ gpus'[g].keptBy = None /\ gpus'[g].claims = gpus[g].claims - 1
          /\ Advanced(gpus[g], gpus'[g])
          /\ gpus'[g].running = None \/ gpus'[g].held = None
      BY <2>0, <3>1, <3>2, <3>3, UnclaimFacts DEF Advanced
    <3>5. Kept(g)' = 0 /\ Kept(g) = 1
      BY <3>1, <3>4 DEF Kept
    <3> QED BY <3>2, <3>4, <3>5
  <2> QED BY <2>1, <2>2
<1>3. TypeOK'
  BY <1>0, <1>1, <1>2 DEF TypeOK
<1>4. JobInv'
  <2>1. \A x \in GPUs : Advanced(gpus[x], gpus'[x])
    BY <1>1, <1>2 DEF Advanced
  <2> QED BY <1>0, <1>1, <2>1, JobsKept DEF JobInv
<1>5. Exclusive' /\ HoldPlaces'
  BY <1>0, <1>1, <1>2 DEF HoldInv, Exclusive, HoldPlaces
<1>6. HeldRecorded'
  BY <1>0, <1>1, <1>2 DEF HoldInv, HeldRecorded
<1>7. ClaimsCounted'
  <2>1. ASSUME NEW x \in GPUs
        PROVE  gpus'[x].claims = Cardinality(Claimants(holdGPUs', x)) + Kept(x)'
    <3>1. gpus[x].claims = Cardinality(Claimants(holdGPUs, x)) + Kept(x) /\ holdGPUs' = holdGPUs
      BY <1>0, <1>1, ClaimsCountedBy DEF HoldInv
    <3>2. CASE x # g
      BY <1>1, <3>1, <3>2 DEF Kept
    <3>3. CASE x = g
      <4>1. Cardinality(Claimants(holdGPUs, g)) \in Nat
        <5>1. Claimants(holdGPUs, g) \in SUBSET Holders
          BY DEF Claimants
        <5> QED BY <5>1, ConstantsAssumption, FS_Subset, FS_CardinalityType
      <4>2. Kept(g) \in Nat /\ Kept(g)' \in Nat
        BY DEF Kept
      <4> QED BY <1>2, <3>1, <3>3, <4>1, <4>2
    <3> QED BY <3>2, <3>3
  <2> QED BY <2>1, ClaimsCountedBy
<1> QED BY <1>3, <1>4, <1>5, <1>6, <1>7, IInvPartsPrime DEF HoldInv

-----------------------------------------------------------------------------
\* Nobody has a ticket, a hold or a claim at the start.
LEMMA InitInv == Init => IInv
<1> SUFFICES ASSUME Init PROVE IInv
  OBVIOUS
<1>1. /\ \A g \in GPUs : gpus[g] = EmptyQueue
      /\ \A h \in Holders : holdAt[h] = "idle" /\ holdGPUs[h] = {}
      /\ \A j \in Jobs : jobAt[j] = "idle" /\ jobGPU[j] = None
  BY DEF Init
<1>2. EmptyQueue \in GPUQueue
  BY DEF EmptyQueue, GPUQueue
<1>3. TypeOK
  BY <1>2 DEF Init, TypeOK
<1>4. ToSet(EmptyQueue.waiting) = {} /\ IsInjective(EmptyQueue.waiting)
  BY DEF EmptyQueue, ToSet, IsInjective
<1>5. JobInv
  BY <1>1, <1>4, ConstantsAssumption DEF JobInv, JobPlaces, RunningRecorded, TicketsOwned, EmptyQueue
<1>6. Exclusive /\ HoldPlaces /\ HeldRecorded
  BY <1>1, ConstantsAssumption DEF Exclusive, HoldPlaces, HeldRecorded, EmptyQueue
<1>7. ClaimsCounted
  <2>1. ASSUME NEW g \in GPUs PROVE Cardinality({h \in Holders : g \in holdGPUs[h]}) = 0
    <3>1. {h \in Holders : g \in holdGPUs[h]} = {}
      BY <1>1
    <3> QED BY <3>1, FS_EmptySet
  <2>2. \A g \in GPUs : gpus[g].claims = 0 /\ gpus[g].keptBy = None
    BY <1>1 DEF EmptyQueue
  <2> QED BY <2>1, <2>2 DEF ClaimsCounted
<1> QED BY <1>3, <1>5, <1>6, <1>7, IInvParts DEF HoldInv

\* Every step keeps the invariant.
LEMMA NextInv == IInv /\ [Next]_vars => IInv'
<1> SUFFICES ASSUME IInv, [Next]_vars PROVE IInv'
  OBVIOUS
<1>1. ASSUME NEW j \in Jobs, JobStep(j) PROVE IInv'
  <2>1. ASSUME NEW g \in GPUs, Submit(j, g) PROVE IInv'
    BY <2>1, SubmitInv
  <2>2. CASE Ready(j) \/ LeaveStarted(j)
    BY <2>2, MoveInv
  <2>3. CASE LeaveQueue(j)
    BY <2>3, LeaveQueueInv
  <2>4. CASE Done(j)
    BY <2>4, DoneInv
  <2> QED BY <1>1, <2>1, <2>2, <2>3, <2>4 DEF JobStep
<1>2. ASSUME NEW h \in Holders, HoldStep(h) PROVE IInv'
  <2>1. ASSUME NEW S \in SUBSET GPUs, Hold(h, S) PROVE IInv'
    BY <2>1, HoldStepInv
  <2>2. CASE HoldAgain(h)
    BY <2>2, HoldAgainInv
  <2>3. CASE HoldCancel(h)
    BY <2>3, HoldCancelInv
  <2>4. CASE ReleaseHold(h)
    BY <2>4, ReleaseHoldInv
  <2> QED BY <1>2, <2>1, <2>2, <2>3, <2>4 DEF HoldStep
<1>3. ASSUME NEW g \in GPUs, KeepStep(g) PROVE IInv'
  BY <1>3, KeepInv DEF KeepStep
<1>4. CASE UNCHANGED vars
  BY <1>4 DEF vars, IInv, TypeOK, Exclusive, JobPlaces, HoldPlaces, Recorded,
              RunningRecorded, HeldRecorded, TicketsOwned, ClaimsCounted
<1> QED BY <1>1, <1>2, <1>3, <1>4 DEF Next

\* The inductive invariant holds in every state of the queue.
THEOREM Invariant == Spec => []IInv
  BY InitInv, NextInv, PTL DEF Spec

\* Every variable keeps its type, and in particular no claim count goes
\* below zero: a GPU is never unclaimed more often than it was claimed.
THEOREM TypeCorrect == Spec => []TypeOK
<1>1. IInv => TypeOK
  BY DEF IInv
<1> QED BY <1>1, Invariant, PTL

\* No two goroutines ever use a GPU together, whether they are jobs or
\* measurements: all the users of a GPU are the one its queue records.
THEOREM MutualExclusion == Spec => []OneUser
<1>1. ASSUME IInv PROVE OneUser
  <2> SUFFICES ASSUME NEW g \in GPUs, NEW x \in UsersOf(g), NEW y \in UsersOf(g) PROVE x = y
    BY DEF OneUser
  <2>1. ASSUME NEW u \in UsersOf(g)
        PROVE  \/ u # None /\ gpus[g].running = u
               \/ u # None /\ gpus[g].held = u
    BY <1>1, <2>1, ConstantsAssumption DEF UsersOf, IInv, Recorded, RunningRecorded, HeldRecorded
  <2>2. gpus[g].running = None \/ gpus[g].held = None
    BY <1>1 DEF IInv, Exclusive
  <2> QED BY <2>1, <2>2
<1> QED BY <1>1, Invariant, PTL

\* The queue's records agree with the goroutines: a GPU is never left
\* running or held for somebody who is gone.
THEOREM RecordsCorrect == Spec => []Recorded
<1>1. IInv => Recorded
  BY DEF IInv
<1> QED BY <1>1, Invariant, PTL

\* A ticket in a queue has a goroutine that waits for it, and only once.
THEOREM TicketsCorrect == Spec => []TicketsOwned
<1>1. IInv => TicketsOwned
  BY DEF IInv
<1> QED BY <1>1, Invariant, PTL

\* The claims of a GPU are those of the holds on it and of its keep.
THEOREM ClaimsCorrect == Spec => []ClaimsCounted
<1>1. IInv => ClaimsCounted
  BY DEF IInv
<1> QED BY <1>1, Invariant, PTL

\* The queue's bookkeeping as a whole agrees with the goroutines that use it:
\* records, tickets and claims.
THEOREM BookkeepingCorrect == Spec => []Bookkeeping
<1>1. Recorded /\ TicketsOwned /\ ClaimsCounted => Bookkeeping
  BY DEF Bookkeeping
<1> QED BY <1>1, RecordsCorrect, TicketsCorrect, ClaimsCorrect, PTL

-----------------------------------------------------------------------------
(* Positions in a waiting list.                                            *)

\* In a list without duplicates, a job's position is where it stands.
LEMMA PositionIs ==
    ASSUME NEW q \in GPUQueue, IsInjective(q.waiting),
           NEW i \in 1..Len(q.waiting), NEW j, q.waiting[i] = j
    PROVE  Position(q, j) = i
<1>1. q.waiting \in Seq(Jobs)
  BY DEF GPUQueue
<1>2. DOMAIN q.waiting = 1..Len(q.waiting)
  BY <1>1, LenProperties
<1>3. j \in ToSet(q.waiting)
  BY <1>2 DEF ToSet
<1>4. \A k \in 1..Len(q.waiting) : q.waiting[k] = j => k = i
  BY <1>2 DEF IsInjective
<1> QED BY <1>3, <1>4 DEF Position

\* A job that waits has a position.
LEMMA PositionFound ==
    ASSUME NEW q \in GPUQueue, NEW j \in ToSet(q.waiting)
    PROVE  \E i \in 1..Len(q.waiting) : q.waiting[i] = j
<1>1. q.waiting \in Seq(Jobs)
  BY DEF GPUQueue
<1>2. DOMAIN q.waiting = 1..Len(q.waiting)
  BY <1>1, LenProperties
<1> QED BY <1>2 DEF ToSet

\* The jobs that waited in q have moved up in r, if they wait still.
Ordered(q, r) == \A j \in ToSet(q.waiting) : Position(r, j) <= Position(q, j)

\* Nothing moves while the list stays as it is.
LEMMA OrderedSame ==
    ASSUME NEW q \in GPUQueue, IsInjective(q.waiting), NEW r, r.waiting = q.waiting
    PROVE  Ordered(q, r)
<1> SUFFICES ASSUME NEW j \in ToSet(q.waiting) PROVE Position(r, j) <= Position(q, j)
  BY DEF Ordered
<1>1. Position(r, j) = Position(q, j)
  BY DEF Position
<1>2. PICK i \in 1..Len(q.waiting) : q.waiting[i] = j
  BY PositionFound
<1>3. Position(q, j) = i
  BY <1>2, PositionIs
<1> QED BY <1>1, <1>3

\* A list of the jobs that waited, each no later than it was, is ordered.
LEMMA OrderedBy ==
    ASSUME NEW q \in GPUQueue, NEW r \in GPUQueue,
           IsInjective(q.waiting), IsInjective(r.waiting),
           \A i \in 1..Len(q.waiting) :
              \/ q.waiting[i] \notin ToSet(r.waiting)
              \/ \E k \in 1..Len(r.waiting) : k <= i /\ r.waiting[k] = q.waiting[i]
    PROVE  Ordered(q, r)
<1> SUFFICES ASSUME NEW j \in ToSet(q.waiting) PROVE Position(r, j) <= Position(q, j)
  BY DEF Ordered
<1>1. PICK i \in 1..Len(q.waiting) : q.waiting[i] = j
  BY PositionFound
<1>2. Position(q, j) = i
  BY <1>1, PositionIs
<1>3. CASE j \notin ToSet(r.waiting)
  <2>1. Position(r, j) = 0
    BY <1>3 DEF Position
  <2> QED BY <1>2, <2>1
<1>4. CASE j \in ToSet(r.waiting)
  <2>1. PICK k \in 1..Len(r.waiting) : k <= i /\ r.waiting[k] = j
    BY <1>1, <1>4
  <2>2. Position(r, j) = k
    BY <2>1, PositionIs
  <2> QED BY <1>2, <2>1, <2>2
<1> QED BY <1>3, <1>4

-----------------------------------------------------------------------------
(* One queue in one step, for all the properties at once.                  *)

\* A queue goes from q to r with nobody forgotten, no job started against a
\* claim, and nobody overtaken.
Orderly(q, r) ==
    /\ Open(r) => r.waiting = <<>>
    /\ r.running \notin {q.running, None} =>
          r.claims = 0 /\ (q.waiting = <<>> \/ Position(q, r.running) = 1)
    /\ Ordered(q, r)

\* A step that neither starts a job nor opens the GPU, and leaves the list alone.
LEMMA OrderlySame ==
    ASSUME NEW q \in GPUQueue, IsInjective(q.waiting), Open(q) => q.waiting = <<>>,
           NEW r, r.waiting = q.waiting, r.running = q.running, Open(r) => Open(q)
    PROVE  Orderly(q, r)
<1>1. Ordered(q, r)
  BY OrderedSame
<1> QED BY <1>1 DEF Orderly

\* startNextLocked, called when the GPU or a claim on it is given up: p is the
\* queue it is called on.
LEMMA OrderlyStartNext ==
    ASSUME NEW q \in GPUQueue, IsInjective(q.waiting),
           NEW p \in GPUQueue, p.waiting = q.waiting, p.running \in {q.running, None}
    PROVE  Orderly(q, StartNext(p))
<1> DEFINE r == StartNext(p)
<1>1. q.waiting \in Seq(Jobs)
  BY DEF GPUQueue
<1>2. CASE Open(p) /\ p.waiting # <<>>
  <2>1. r.running = Head(q.waiting) /\ r.waiting = Tail(q.waiting) /\ r.claims = p.claims
    BY <1>2 DEF StartNext, GPUQueue
  <2>2. /\ Head(q.waiting) \in Jobs /\ Tail(q.waiting) \in Seq(Jobs)
        /\ Len(Tail(q.waiting)) = Len(q.waiting) - 1 /\ Head(q.waiting) = q.waiting[1]
        /\ \A i \in 1..(Len(q.waiting) - 1) : Tail(q.waiting)[i] = q.waiting[i + 1]
        /\ Head(q.waiting) \notin ToSet(Tail(q.waiting)) /\ IsInjective(Tail(q.waiting))
    BY <1>1, <1>2, TailFacts
  <2>3. Len(q.waiting) \in Nat /\ Len(q.waiting) # 0
    BY <1>1, <1>2, LenProperties, EmptySeq
  <2>4. Position(q, r.running) = 1
    BY <2>1, <2>2, <2>3, PositionIs
  <2>5. r \in GPUQueue
    BY StartNextFacts
  <2> HIDE DEF r
  <2>6. ASSUME NEW i \in 1..Len(q.waiting)
        PROVE  \/ q.waiting[i] \notin ToSet(r.waiting)
               \/ \E k \in 1..Len(r.waiting) : k <= i /\ r.waiting[k] = q.waiting[i]
    <3>1. CASE i = 1
      BY <2>1, <2>2, <3>1
    <3>2. CASE i # 1
      <4>1. i - 1 \in 1..(Len(q.waiting) - 1) /\ i - 1 <= i /\ (i - 1) + 1 = i
        BY <2>3, <3>2
      <4> QED BY <2>1, <2>2, <4>1
    <3> QED BY <3>1, <3>2
  <2>7. Ordered(q, r)
    BY <2>1, <2>2, <2>5, <2>6, OrderedBy
  <2>8. ~Open(r)
    BY <2>1, <2>2, ConstantsAssumption DEF Open, Unused
  <2>9. r.claims = 0
    BY <1>2, <2>1 DEF Open
  <2> QED BY <2>4, <2>7, <2>8, <2>9 DEF Orderly, r
<1>3. CASE ~(Open(p) /\ p.waiting # <<>>)
  <2>1. StartNext(p) = p
    BY <1>3 DEF StartNext
  <2>2. Ordered(q, p)
    BY OrderedSame
  <2> QED BY <1>3, <2>1, <2>2 DEF Orderly
<1> QED BY <1>2, <1>3

\* A claim given up on the queue p.
LEMMA OrderlyUnclaim ==
    ASSUME NEW q \in GPUQueue, IsInjective(q.waiting),
           NEW p \in GPUQueue, p.waiting = q.waiting, p.running = q.running, p.claims # 0
    PROVE  Orderly(q, Unclaim(p))
<1> DEFINE r == [p EXCEPT !.claims = p.claims - 1]
<1>1. r \in GPUQueue /\ r.waiting = q.waiting /\ r.running = q.running
  BY DEF GPUQueue
<1>2. Unclaim(p) = StartNext(r)
  BY DEF Unclaim
<1> HIDE DEF r
<1> QED BY <1>1, <1>2, OrderlyStartNext

\* Submit on a GPU that is open, or that is not.
LEMMA OrderlySubmit ==
    ASSUME NEW q \in GPUQueue, IsInjective(q.waiting), Open(q) => q.waiting = <<>>,
           NEW j \in Jobs, j \notin ToSet(q.waiting)
    PROVE  Orderly(q, IF Open(q) THEN Start(q, j) ELSE Enqueue(q, j))
<1>1. CASE Open(q)
  <2> DEFINE r == Start(q, j)
  <2>1. r.running = j /\ r.waiting = q.waiting /\ r.claims = 0
    BY <1>1 DEF Start, Open, GPUQueue
  <2>2. Ordered(q, r)
    BY <2>1, OrderedSame
  <2>3. ~Open(r)
    BY <2>1, ConstantsAssumption DEF Open, Unused
  <2> HIDE DEF r
  <2>4. Orderly(q, r)
    BY <1>1, <2>1, <2>2, <2>3 DEF Orderly
  <2> QED BY <1>1, <2>4 DEF r
<1>2. CASE ~Open(q)
  <2> DEFINE r == Enqueue(q, j)
  <2>1. q.waiting \in Seq(Jobs)
    BY DEF GPUQueue
  <2>2. /\ Append(q.waiting, j) \in Seq(Jobs)
        /\ Len(Append(q.waiting, j)) = Len(q.waiting) + 1
        /\ \A i \in 1..Len(q.waiting) : Append(q.waiting, j)[i] = q.waiting[i]
        /\ IsInjective(Append(q.waiting, j))
    BY <2>1, AppendFacts
  <2>3. /\ r \in GPUQueue /\ r.waiting = Append(q.waiting, j)
        /\ r.running = q.running /\ r.held = q.held /\ r.claims = q.claims
    BY <2>2 DEF Enqueue, GPUQueue
  <2>4. Len(q.waiting) \in Nat
    BY <2>1, LenProperties
  <2> HIDE DEF r
  <2>5. ASSUME NEW i \in 1..Len(q.waiting)
        PROVE  \E k \in 1..Len(r.waiting) : k <= i /\ r.waiting[k] = q.waiting[i]
    <3>1. i \in 1..Len(r.waiting) /\ i <= i /\ r.waiting[i] = q.waiting[i]
      BY <2>2, <2>3, <2>4
    <3> QED BY <3>1
  <2>6. Ordered(q, r)
    BY <2>2, <2>3, <2>5, OrderedBy
  <2>7. ~Open(r)
    BY <1>2, <2>3 DEF Open, Unused
  <2>8. Orderly(q, r)
    BY <2>3, <2>6, <2>7 DEF Orderly
  <2> QED BY <1>2, <2>8 DEF r
<1> QED BY <1>1, <1>2

\* A job leaves the list.
LEMMA OrderlyDequeue ==
    ASSUME NEW q \in GPUQueue, IsInjective(q.waiting), Open(q) => q.waiting = <<>>,
           NEW i \in 1..Len(q.waiting)
    PROVE  Orderly(q, Dequeue(q, i))
<1> DEFINE r == Dequeue(q, i)
<1>1. q.waiting \in Seq(Jobs) /\ Len(q.waiting) \in Nat
  BY LenProperties DEF GPUQueue
<1>2. DOMAIN q.waiting = 1..Len(q.waiting)
  BY <1>1, LenProperties
<1>3. /\ RemoveAt(q.waiting, i) \in Seq(Jobs)
      /\ Len(RemoveAt(q.waiting, i)) = Len(q.waiting) - 1
      /\ \A k \in 1..(Len(q.waiting) - 1) :
            RemoveAt(q.waiting, i)[k] = IF k < i THEN q.waiting[k] ELSE q.waiting[k + 1]
      /\ ToSet(RemoveAt(q.waiting, i)) = ToSet(q.waiting) \ {q.waiting[i]}
      /\ IsInjective(RemoveAt(q.waiting, i))
  <2> DEFINE s == q.waiting
  <2>1. s \in Seq(Jobs) /\ i \in 1..Len(s) /\ IsInjective(s)
    BY <1>1
  <2> HIDE DEF s
  <2>2. /\ RemoveAt(s, i) \in Seq(Jobs)
        /\ Len(RemoveAt(s, i)) = Len(s) - 1
        /\ \A k \in 1..(Len(s) - 1) : RemoveAt(s, i)[k] = IF k < i THEN s[k] ELSE s[k + 1]
        /\ ToSet(RemoveAt(s, i)) = ToSet(s) \ {s[i]}
        /\ IsInjective(RemoveAt(s, i))
    BY <2>1, RemoveAtFacts
  <2> QED BY <2>2 DEF s
<1>4. /\ r \in GPUQueue /\ r.waiting = RemoveAt(q.waiting, i)
      /\ r.running = q.running /\ r.held = q.held /\ r.claims = q.claims
  <2> DEFINE s == RemoveAt(q.waiting, i)
  <2>1. r = [q EXCEPT !.waiting = s] /\ s \in Seq(Jobs)
    BY <1>3 DEF Dequeue
  <2> HIDE DEF s, r
  <2>2. /\ r \in GPUQueue /\ r.waiting = s
        /\ r.running = q.running /\ r.held = q.held /\ r.claims = q.claims
    BY <2>1 DEF GPUQueue
  <2> QED BY <2>2 DEF s
<1>5. ~Open(q)
  BY <1>1, EmptySeq
<1> HIDE DEF r
<1>6. ASSUME NEW k \in 1..Len(q.waiting)
      PROVE  \/ q.waiting[k] \notin ToSet(r.waiting)
             \/ \E l \in 1..Len(r.waiting) : l <= k /\ r.waiting[l] = q.waiting[k]
  <2>1. CASE k = i
    BY <1>3, <1>4, <2>1
  <2>2. CASE k < i
    <3>1. k \in 1..(Len(q.waiting) - 1) /\ k <= k
      BY <1>1, <2>2
    <3> QED BY <1>3, <1>4, <2>2, <3>1
  <2>3. CASE k > i
    <3>1. k - 1 \in 1..(Len(q.waiting) - 1) /\ k - 1 <= k /\ (k - 1) + 1 = k /\ ~(k - 1 < i)
      BY <1>1, <2>3
    <3> QED BY <1>3, <1>4, <3>1
  <2> QED BY <2>1, <2>2, <2>3
<1>7. Ordered(q, r)
  BY <1>3, <1>4, <1>6, OrderedBy
<1>8. ~Open(r)
  BY <1>4, <1>5 DEF Open, Unused
<1>9. Orderly(q, r)
  BY <1>4, <1>7, <1>8 DEF Orderly
<1> QED BY <1>9 DEF r

-----------------------------------------------------------------------------
(* The invariant.                                                          *)

\* A hold is of some GPUs.
HoldsSome == \A h \in Holders : holdAt[h] # "idle" => holdGPUs[h] # {}

ServiceInv == IInv /\ WorkConserving /\ NoLostWakeup /\ HoldsSome

\* What a step does to the queues, and to the goroutines that wait for a hold.
ServiceStep ==
    /\ \A g \in GPUs : Orderly(gpus[g], gpus'[g])
    /\ NoLostWakeup' /\ HoldsSome'

\* What the invariant says of one queue.
LEMMA QueueFacts ==
    ASSUME ServiceInv, NEW g \in GPUs
    PROVE  /\ gpus[g] \in GPUQueue /\ IsInjective(gpus[g].waiting)
           /\ Open(gpus[g]) => gpus[g].waiting = <<>>
           /\ Orderly(gpus[g], gpus[g])
<1>1. /\ gpus[g] \in GPUQueue /\ IsInjective(gpus[g].waiting)
      /\ Open(gpus[g]) => gpus[g].waiting = <<>>
  BY DEF ServiceInv, IInv, TypeOK, TicketsOwned, WorkConserving
<1> QED BY <1>1, OrderlySame

\* A step that wakes nobody forgets nobody who sleeps, as long as no GPU that
\* was in use becomes unused.
LEMMA SleepersKept ==
    ASSUME TypeOK, NoLostWakeup,
           \A g \in GPUs : Unused(gpus'[g]) => Unused(gpus[g]),
           \A h \in Holders : holdAt'[h] = "waiting" /\ ~woken'[h] =>
              \/ holdAt[h] = "waiting" /\ ~woken[h] /\ holdGPUs'[h] = holdGPUs[h]
              \/ holdGPUs'[h] \subseteq GPUs /\ ~AllUnused(holdGPUs'[h])
    PROVE  NoLostWakeup'
<1> SUFFICES ASSUME NEW h \in Holders, holdAt'[h] = "waiting", ~woken'[h]
             PROVE  \E g \in holdGPUs'[h] : ~Unused(gpus'[g])
  BY DEF NoLostWakeup, AllUnused
<1>1. holdGPUs'[h] \subseteq GPUs /\ ~AllUnused(holdGPUs'[h])
  BY DEF NoLostWakeup, TypeOK
<1> QED BY <1>1 DEF AllUnused

\* A step that wakes everybody.
LEMMA SleepersWoken ==
    ASSUME Notify, \A h \in Holders : holdAt'[h] = "waiting" => holdAt[h] = "waiting"
    PROVE  NoLostWakeup'
  BY DEF Notify, NoLostWakeup

\* Submit: the job starts on an open GPU or is the last in its queue.
LEMMA SubmitService ==
    ASSUME ServiceInv, NEW j \in Jobs, NEW g \in GPUs, Submit(j, g)
    PROVE  ServiceStep
<1>1. /\ \A x \in GPUs \ {g} : gpus'[x] = gpus[x]
      /\ gpus'[g] = IF Open(gpus[g]) THEN Start(gpus[g], j) ELSE Enqueue(gpus[g], j)
      /\ UNCHANGED <<holdAt, holdGPUs, woken>>
  BY DEF ServiceInv, IInv, TypeOK, Submit
<1>2. j \notin ToSet(gpus[g].waiting)
  BY DEF ServiceInv, IInv, TicketsOwned, Submit
<1>3. \A x \in GPUs : Orderly(gpus[x], gpus'[x])
  BY <1>1, <1>2, QueueFacts, OrderlySubmit
<1>4. \A x \in GPUs : Unused(gpus'[x]) => Unused(gpus[x])
  <2>1. Unused(gpus'[g]) => Unused(gpus[g])
    BY <1>1, QueueFacts, ConstantsAssumption DEF Start, Enqueue, Open, Unused, GPUQueue
  <2> QED BY <1>1, <2>1
<1>5. NoLostWakeup'
  BY <1>1, <1>4, SleepersKept DEF ServiceInv, IInv
<1> QED BY <1>1, <1>3, <1>5 DEF ServiceStep, ServiceInv, HoldsSome

\* Ready and LeaveStarted move only the job's goroutine.
LEMMA MoveService ==
    ASSUME ServiceInv, UNCHANGED <<gpus, holdAt, holdGPUs, woken>>
    PROVE  ServiceStep
<1>1. \A x \in GPUs : Orderly(gpus[x], gpus'[x])
  BY QueueFacts
<1>2. NoLostWakeup' /\ HoldsSome'
  BY DEF ServiceInv, NoLostWakeup, AllUnused, HoldsSome
<1> QED BY <1>1, <1>2 DEF ServiceStep

\* A job that leaves the queue lets those behind it move up.
LEMMA LeaveQueueService ==
    ASSUME ServiceInv, NEW j \in Jobs, LeaveQueue(j)
    PROVE  ServiceStep
<1> DEFINE g == jobGPU[j]
<1>1. g \in GPUs
  BY DEF ServiceInv, IInv, JobPlaces, LeaveQueue
<1>2. PICK i \in 1..Len(gpus[g].waiting) : gpus' = [gpus EXCEPT ![g] = Dequeue(gpus[g], i)]
  BY DEF LeaveQueue
<1>3. /\ \A x \in GPUs \ {g} : gpus'[x] = gpus[x]
      /\ gpus'[g] = Dequeue(gpus[g], i)
      /\ UNCHANGED <<holdAt, holdGPUs, woken>>
  BY <1>1, <1>2 DEF ServiceInv, IInv, TypeOK, LeaveQueue
<1> HIDE DEF g
<1>4. \A x \in GPUs : Orderly(gpus[x], gpus'[x])
  BY <1>1, <1>3, QueueFacts, OrderlyDequeue
<1>5. \A x \in GPUs : Unused(gpus'[x]) => Unused(gpus[x])
  <2>1. Unused(gpus'[g]) => Unused(gpus[g])
    BY <1>1, <1>3, QueueFacts DEF Dequeue, Unused, GPUQueue
  <2> QED BY <1>3, <2>1
<1>6. NoLostWakeup'
  BY <1>3, <1>5, SleepersKept DEF ServiceInv, IInv
<1> QED BY <1>3, <1>4, <1>6 DEF ServiceStep, ServiceInv, HoldsSome

\* Done hands the GPU on, and wakes those who wait for a hold.
LEMMA DoneService ==
    ASSUME ServiceInv, NEW j \in Jobs, Done(j)
    PROVE  ServiceStep
<1> DEFINE g == jobGPU[j]
           p == [gpus[g] EXCEPT !.running = None]
<1>1. g \in GPUs /\ gpus[g].running = j
  BY DEF ServiceInv, IInv, JobPlaces, Recorded, RunningRecorded, Done
<1>2. /\ \A x \in GPUs \ {g} : gpus'[x] = gpus[x]
      /\ gpus'[g] = StartNext(p)
      /\ UNCHANGED <<holdAt, holdGPUs>> /\ Notify
  BY <1>1 DEF ServiceInv, IInv, TypeOK, Done, Finish
<1>3. p \in GPUQueue /\ p.waiting = gpus[g].waiting /\ p.running \in {gpus[g].running, None}
  BY <1>1, QueueFacts DEF GPUQueue
<1> HIDE DEF g, p
<1>4. \A x \in GPUs : Orderly(gpus[x], gpus'[x])
  BY <1>1, <1>2, <1>3, QueueFacts, OrderlyStartNext
<1>5. NoLostWakeup'
  BY <1>2, SleepersWoken
<1> QED BY <1>2, <1>4, <1>5 DEF ServiceStep, ServiceInv, HoldsSome

\* A hold of GPUs that are in use sleeps while they are.
LEMMA HoldService ==
    ASSUME ServiceInv, NEW h \in Holders, NEW S \in (SUBSET GPUs) \ {{}}, Hold(h, S)
    PROVE  ServiceStep
<1>1. /\ holdGPUs' = [holdGPUs EXCEPT ![h] = S] /\ woken' = woken
      /\ S \subseteq GPUs /\ S # {}
  BY DEF Hold
<1>2. \/ /\ AllUnused(S) /\ holdAt' = [holdAt EXCEPT ![h] = "holding"]
         /\ gpus' = [g \in GPUs |-> IF g \in S THEN Take(Claim(gpus[g]), h) ELSE gpus[g]]
      \/ /\ ~AllUnused(S) /\ holdAt' = [holdAt EXCEPT ![h] = "waiting"]
         /\ gpus' = [g \in GPUs |-> IF g \in S THEN Claim(gpus[g]) ELSE gpus[g]]
  <2>1. CASE AllUnused(S)
    BY <2>1 DEF Hold, OnGPUs
  <2>2. CASE ~AllUnused(S)
    BY <2>2 DEF Hold, OnGPUs
  <2> QED BY <2>1, <2>2
<1>3. ASSUME NEW g \in GPUs
      PROVE  /\ gpus'[g].waiting = gpus[g].waiting /\ gpus'[g].running = gpus[g].running
             /\ Open(gpus'[g]) => Open(gpus[g])
             /\ Unused(gpus'[g]) => Unused(gpus[g])
  <2>1. gpus[g] \in GPUQueue /\ Claim(gpus[g]) \in GPUQueue /\ gpus[g].claims + 1 # 0
    BY QueueFacts, ClaimFacts DEF GPUQueue
  <2>2. CASE g \notin S
    BY <1>2, <2>2
  <2>3. CASE g \in S /\ gpus'[g] = Claim(gpus[g])
    BY <2>1, <2>3, ClaimFacts DEF Open, Unused
  <2>4. CASE g \in S /\ gpus'[g] = Take(Claim(gpus[g]), h)
    BY <2>1, <2>4, ClaimFacts, TakeFacts, ConstantsAssumption DEF Open, Unused
  <2>5. g \in S => gpus'[g] \in {Claim(gpus[g]), Take(Claim(gpus[g]), h)}
    BY <1>2
  <2> QED BY <2>2, <2>3, <2>4, <2>5
<1>4. \A g \in GPUs : Orderly(gpus[g], gpus'[g])
  BY <1>3, QueueFacts, OrderlySame
<1>5. NoLostWakeup'
  <2>1. ASSUME NEW k \in Holders, holdAt'[k] = "waiting", ~woken'[k]
        PROVE  \/ holdAt[k] = "waiting" /\ ~woken[k] /\ holdGPUs'[k] = holdGPUs[k]
               \/ holdGPUs'[k] \subseteq GPUs /\ ~AllUnused(holdGPUs'[k])
    BY <1>1, <1>2, <2>1 DEF ServiceInv, IInv, TypeOK
  <2> QED BY <1>3, <2>1, SleepersKept DEF ServiceInv, IInv
<1>6. HoldsSome'
  BY <1>1, <1>2 DEF ServiceInv, IInv, TypeOK, HoldsSome
<1> QED BY <1>4, <1>5, <1>6 DEF ServiceStep

\* A woken hold sleeps again only if a GPU is in use.
LEMMA HoldAgainService ==
    ASSUME ServiceInv, NEW h \in Holders, HoldAgain(h)
    PROVE  ServiceStep
<1> DEFINE S == holdGPUs[h]
<1>1. /\ holdAt[h] = "waiting" /\ holdGPUs' = holdGPUs
      /\ woken' = [woken EXCEPT ![h] = FALSE] /\ S \subseteq GPUs
      /\ \/ /\ AllUnused(S) /\ holdAt' = [holdAt EXCEPT ![h] = "holding"]
            /\ gpus' = [g \in GPUs |-> IF g \in S THEN Take(gpus[g], h) ELSE gpus[g]]
         \/ ~AllUnused(S) /\ UNCHANGED <<holdAt, gpus>>
  BY DEF HoldAgain, OnGPUs, ServiceInv, IInv, TypeOK
<1>2. ASSUME NEW g \in GPUs
      PROVE  /\ gpus'[g].waiting = gpus[g].waiting /\ gpus'[g].running = gpus[g].running
             /\ Open(gpus'[g]) => Open(gpus[g])
             /\ Unused(gpus'[g]) => Unused(gpus[g])
  <2>1. CASE gpus'[g] = gpus[g]
    BY <2>1
  <2>2. CASE gpus'[g] = Take(gpus[g], h)
    BY <2>2, QueueFacts, TakeFacts, ConstantsAssumption DEF Open, Unused
  <2> QED BY <1>1, <2>1, <2>2
<1>3. \A g \in GPUs : Orderly(gpus[g], gpus'[g])
  BY <1>2, QueueFacts, OrderlySame
<1>4. NoLostWakeup'
  <2>1. ASSUME NEW k \in Holders, holdAt'[k] = "waiting", ~woken'[k]
        PROVE  \/ holdAt[k] = "waiting" /\ ~woken[k] /\ holdGPUs'[k] = holdGPUs[k]
               \/ holdGPUs'[k] \subseteq GPUs /\ ~AllUnused(holdGPUs'[k])
    BY <1>1, <2>1 DEF ServiceInv, IInv, TypeOK
  <2> QED BY <1>2, <2>1, SleepersKept DEF ServiceInv, IInv
<1>5. HoldsSome'
  BY <1>1 DEF ServiceInv, IInv, TypeOK, HoldsSome
<1> QED BY <1>3, <1>4, <1>5 DEF ServiceStep

\* A hold that gives up wakes nobody, and frees no GPU that is in use.
LEMMA HoldCancelService ==
    ASSUME ServiceInv, NEW h \in Holders, HoldCancel(h)
    PROVE  ServiceStep
<1> DEFINE S == holdGPUs[h]
<1>1. /\ holdAt[h] = "waiting" /\ S \subseteq GPUs
      /\ holdAt' = [holdAt EXCEPT ![h] = "idle"]
      /\ holdGPUs' = [holdGPUs EXCEPT ![h] = {}]
      /\ woken' = [woken EXCEPT ![h] = FALSE]
      /\ gpus' = [g \in GPUs |-> IF g \in S THEN Unclaim(gpus[g]) ELSE gpus[g]]
  BY DEF HoldCancel, OnGPUs, ServiceInv, IInv, TypeOK
<1>2. ASSUME NEW g \in GPUs
      PROVE  /\ Orderly(gpus[g], gpus'[g])
             /\ Unused(gpus'[g]) => Unused(gpus[g])
  <2>1. CASE g \in S
    <3>1. gpus[g].claims # 0 /\ gpus'[g] = Unclaim(gpus[g])
      BY <1>1, <2>1, ClaimsPositive DEF ServiceInv, IInv
    <3>2. Orderly(gpus[g], gpus'[g])
      BY <3>1, QueueFacts, OrderlyUnclaim
    <3>3. Unused(gpus'[g]) => Unused(gpus[g])
      BY <3>1, QueueFacts, UnclaimFacts, ConstantsAssumption DEF Unused
    <3> QED BY <3>2, <3>3
  <2>2. CASE g \notin S
    BY <1>1, <2>2, QueueFacts
  <2> QED BY <2>1, <2>2
<1>3. NoLostWakeup'
  <2>1. ASSUME NEW k \in Holders, holdAt'[k] = "waiting", ~woken'[k]
        PROVE  holdAt[k] = "waiting" /\ ~woken[k] /\ holdGPUs'[k] = holdGPUs[k]
    BY <1>1, <2>1 DEF ServiceInv, IInv, TypeOK
  <2> QED BY <1>2, <2>1, SleepersKept DEF ServiceInv, IInv
<1>4. HoldsSome'
  BY <1>1 DEF ServiceInv, IInv, TypeOK, HoldsSome
<1> QED BY <1>2, <1>3, <1>4 DEF ServiceStep

\* A hold that ends hands its GPUs on, and wakes those who wait for one.
LEMMA ReleaseHoldService ==
    ASSUME ServiceInv, NEW h \in Holders, ReleaseHold(h)
    PROVE  ServiceStep
<1> DEFINE S == holdGPUs[h]
<1>1. /\ holdAt[h] = "holding" /\ S \subseteq GPUs /\ Notify
      /\ holdAt' = [holdAt EXCEPT ![h] = "idle"]
      /\ holdGPUs' = [holdGPUs EXCEPT ![h] = {}]
      /\ gpus' = [g \in GPUs |-> IF g \in S THEN Unclaim(Take(gpus[g], None)) ELSE gpus[g]]
  BY DEF ReleaseHold, OnGPUs, ServiceInv, IInv, TypeOK
<1>2. ASSUME NEW g \in GPUs PROVE Orderly(gpus[g], gpus'[g])
  <2>1. CASE g \in S
    <3>1. gpus[g].claims # 0 /\ gpus'[g] = Unclaim(Take(gpus[g], None))
      BY <1>1, <2>1, ClaimsPositive DEF ServiceInv, IInv
    <3>2. /\ Take(gpus[g], None) \in GPUQueue
          /\ Take(gpus[g], None).waiting = gpus[g].waiting
          /\ Take(gpus[g], None).running = gpus[g].running
          /\ Take(gpus[g], None).claims = gpus[g].claims
      BY QueueFacts, TakeFacts
    <3> QED BY <3>1, <3>2, QueueFacts, OrderlyUnclaim
  <2>2. CASE g \notin S
    BY <1>1, <2>2, QueueFacts
  <2> QED BY <2>1, <2>2
<1>3. NoLostWakeup'
  BY <1>1, SleepersWoken DEF ServiceInv, IInv, TypeOK
<1>4. HoldsSome'
  BY <1>1 DEF ServiceInv, IInv, TypeOK, HoldsSome
<1> QED BY <1>2, <1>3, <1>4 DEF ServiceStep

\* A keep begins, or ends and hands its GPU on.
LEMMA KeepService ==
    ASSUME ServiceInv, NEW g \in GPUs, KeepStep(g)
    PROVE  ServiceStep
<1>1. \A x \in GPUs \ {g} : gpus'[x] = gpus[x]
  BY DEF KeepStep, Keep, ReleaseKeep, ServiceInv, IInv, TypeOK
<1>2. UNCHANGED <<holdAt, holdGPUs>>
  BY DEF KeepStep, Keep, ReleaseKeep
<1>3. CASE \E o \in Owners : Keep(g, o)
  <2>1. PICK o \in Owners : Keep(g, o)
    BY <1>3
  <2> DEFINE c == Claim(gpus[g])
  <2>2. gpus'[g] = [c EXCEPT !.keptBy = o] /\ woken' = woken
    BY <2>1 DEF Keep, ServiceInv, IInv, TypeOK
  <2>3. /\ c \in GPUQueue /\ c.claims = gpus[g].claims + 1 /\ c.held = gpus[g].held
        /\ c.running = gpus[g].running /\ c.waiting = gpus[g].waiting
    BY QueueFacts, ClaimFacts
  <2> HIDE DEF c
  <2>4. /\ gpus'[g].claims = gpus[g].claims + 1 /\ gpus'[g].held = gpus[g].held
        /\ gpus'[g].running = gpus[g].running /\ gpus'[g].waiting = gpus[g].waiting
    BY <2>2, <2>3 DEF GPUQueue
  <2>5. gpus[g].claims \in Nat
    BY QueueFacts DEF GPUQueue
  <2>6. (Open(gpus'[g]) => Open(gpus[g])) /\ (Unused(gpus'[g]) => Unused(gpus[g]))
    BY <2>4, <2>5 DEF Open, Unused
  <2>7. \A x \in GPUs : Orderly(gpus[x], gpus'[x])
    BY <1>1, <2>4, <2>6, QueueFacts, OrderlySame
  <2>8. NoLostWakeup'
    BY <1>1, <1>2, <2>2, <2>6, SleepersKept DEF ServiceInv, IInv
  <2> QED BY <1>2, <2>7, <2>8 DEF ServiceStep, ServiceInv, HoldsSome
<1>4. CASE ReleaseKeep(g)
  <2> DEFINE p == [gpus[g] EXCEPT !.keptBy = None]
  <2>1. gpus'[g] = Unclaim(p) /\ Notify /\ gpus[g].keptBy # None
    BY <1>4 DEF ReleaseKeep, ServiceInv, IInv, TypeOK
  <2>2. gpus[g].claims # 0
    BY <2>1, ClaimsPositive DEF ServiceInv, IInv
  <2>3. /\ p \in GPUQueue /\ p.waiting = gpus[g].waiting /\ p.running = gpus[g].running
        /\ p.claims # 0
    BY <2>2, QueueFacts DEF GPUQueue
  <2> HIDE DEF p
  <2>4. \A x \in GPUs : Orderly(gpus[x], gpus'[x])
    BY <1>1, <2>1, <2>3, QueueFacts, OrderlyUnclaim
  <2>5. NoLostWakeup'
    BY <1>2, <2>1, SleepersWoken
  <2> QED BY <1>2, <2>4, <2>5 DEF ServiceStep, ServiceInv, HoldsSome
<1> QED BY <1>3, <1>4 DEF KeepStep

-----------------------------------------------------------------------------
\* At the start nobody waits.
LEMMA InitService == Init => ServiceInv
<1> SUFFICES ASSUME Init PROVE ServiceInv
  OBVIOUS
<1>1. \A g \in GPUs : gpus[g].waiting = <<>>
  BY DEF Init, EmptyQueue
<1>2. \A h \in Holders : holdAt[h] = "idle"
  BY DEF Init
<1> QED BY <1>1, <1>2, InitInv DEF ServiceInv, WorkConserving, NoLostWakeup, HoldsSome

\* Every action is an orderly step.
LEMMA NextService ==
    ASSUME ServiceInv, [Next]_vars
    PROVE  ServiceStep
<1>1. ASSUME NEW j \in Jobs, JobStep(j) PROVE ServiceStep
  <2>1. ASSUME NEW g \in GPUs, Submit(j, g) PROVE ServiceStep
    BY <2>1, SubmitService
  <2>2. CASE Ready(j) \/ LeaveStarted(j)
    BY <2>2, MoveService DEF Ready, LeaveStarted
  <2>3. CASE LeaveQueue(j)
    BY <2>3, LeaveQueueService
  <2>4. CASE Done(j)
    BY <2>4, DoneService
  <2> QED BY <1>1, <2>1, <2>2, <2>3, <2>4 DEF JobStep
<1>2. ASSUME NEW h \in Holders, HoldStep(h) PROVE ServiceStep
  <2>1. ASSUME NEW S \in (SUBSET GPUs) \ {{}}, Hold(h, S) PROVE ServiceStep
    BY <2>1, HoldService
  <2>2. CASE HoldAgain(h)
    BY <2>2, HoldAgainService
  <2>3. CASE HoldCancel(h)
    BY <2>3, HoldCancelService
  <2>4. CASE ReleaseHold(h)
    BY <2>4, ReleaseHoldService
  <2> QED BY <1>2, <2>1, <2>2, <2>3, <2>4 DEF HoldStep
<1>3. ASSUME NEW g \in GPUs, KeepStep(g) PROVE ServiceStep
  BY <1>3, KeepService
<1>4. CASE UNCHANGED vars
  BY <1>4, MoveService DEF vars
<1> QED BY <1>1, <1>2, <1>3, <1>4 DEF Next

\* Every step keeps the invariant.
LEMMA NextServiceInv == ServiceInv /\ [Next]_vars => ServiceInv'
<1> SUFFICES ASSUME ServiceInv, [Next]_vars PROVE ServiceInv'
  OBVIOUS
<1>1. ServiceStep
  BY NextService
<1>2. IInv'
  BY NextInv DEF ServiceInv
<1>3. WorkConserving'
  BY <1>1 DEF ServiceStep, Orderly, WorkConserving
<1> QED BY <1>1, <1>2, <1>3 DEF ServiceStep, ServiceInv

\* The invariant with its service part holds in every state of the queue.
THEOREM ServiceInvariant == Spec => []ServiceInv
  BY InitService, NextServiceInv, PTL DEF Spec

\* Nobody waits for a GPU that is free for them: no GPU is idle and unclaimed
\* while a job waits for it, and a Hold sleeps on its channel only while one of
\* its GPUs is in use.
THEOREM NobodyIsForgotten == Spec => []NobodyForgotten
<1>1. ServiceInv => NobodyForgotten
  BY DEF ServiceInv, NobodyForgotten
<1> QED BY <1>1, ServiceInvariant, PTL

\* While a GPU is claimed no job starts on it, by whatever call.
THEOREM ClaimsKeepJobsOut == Spec => ClaimKeepsJobsOut
<1>1. ServiceInv /\ [Next]_vars =>
        [\A g \in GPUs : gpus'[g].running \notin {gpus[g].running, None}
                            => gpus'[g].claims = 0]_vars
  BY NextService DEF ServiceStep, Orderly
<1> QED BY <1>1, ServiceInvariant, PTL DEF Spec, ClaimKeepsJobsOut

\* The jobs of a GPU start in the order of their submission, and those that
\* wait only move up.
THEOREM JobsInOrder == Spec => FirstComeFirstServed
<1>1. ServiceInv /\ [Next]_vars =>
        [\A g \in GPUs :
            /\ \A j \in ToSet(gpus[g].waiting) : Position(gpus'[g], j) <= Position(gpus[g], j)
            /\ gpus'[g].running \notin {gpus[g].running, None} =>
                  \/ gpus[g].waiting = <<>>
                  \/ Position(gpus[g], gpus'[g].running) = 1]_vars
  BY NextService DEF ServiceStep, Orderly, Ordered
<1> QED BY <1>1, ServiceInvariant, PTL DEF Spec, FirstComeFirstServed

-----------------------------------------------------------------------------
(* The queue implements GPUTurns.                                          *)

Users == Jobs \cup Holders

\* A job's and a measurement's part of Wants and Has, by their goroutines.
JobWants(j) ==
    IF jobAt[j] = "waiting" /\ gpus[jobGPU[j]].running # j THEN {jobGPU[j]} ELSE {}

JobHas(j) ==
    IF jobAt[j] # "idle" /\ gpus[jobGPU[j]].running = j THEN {jobGPU[j]} ELSE {}

HolderWants(h) == IF holdAt[h] = "waiting" THEN holdGPUs[h] ELSE {}

HolderHas(h) == IF holdAt[h] = "holding" THEN holdGPUs[h] ELSE {}

\* What the queues say that a user wants and has is what its goroutine says.
Images ==
    /\ \A j \in Jobs : Wants[j] = JobWants(j) /\ Has[j] = JobHas(j)
    /\ \A h \in Holders : Wants[h] = HolderWants(h) /\ Has[h] = HolderHas(h)

\* Two users never have a GPU together.
Disjoint == \A u, v \in Users : u # v => Has[u] \cap Has[v] = {}

\* Nobody in Holders wants or has a GPU that is not claimed.
Unclaimed == \A g \in GPUs, h \in Holders : gpus[g].claims = 0 => g \notin holdGPUs[h]

\* The invariant makes the queues and the goroutines tell the same, for a job ...
LEMMA JobImage ==
    ASSUME IInv, NEW j \in Jobs
    PROVE  Wants[j] = JobWants(j) /\ Has[j] = JobHas(j)
<1>1. JobOK(j) /\ TypeOK
  BY JobOKEquiv DEF IInv, Recorded
<1>2. /\ Wants[j] = {g \in GPUs : j \in ToSet(gpus[g].waiting)}
      /\ Has[j] = {g \in GPUs : j \in {gpus[g].running, gpus[g].held}}
  BY DEF Wants, Has
<1>3. \A g \in GPUs : gpus[g].held # j
  BY <1>1, ConstantsAssumption DEF TypeOK, GPUQueue
<1>4. ASSUME NEW g \in GPUs
      PROVE  j \in ToSet(gpus[g].waiting)
                <=> jobAt[j] = "waiting" /\ gpus[jobGPU[j]].running # j /\ g = jobGPU[j]
  BY <1>1 DEF JobOK
<1>5. ASSUME NEW g \in GPUs
      PROVE  gpus[g].running = j
                <=> jobAt[j] # "idle" /\ gpus[jobGPU[j]].running = j /\ g = jobGPU[j]
  BY <1>1 DEF JobOK
<1>6. jobAt[j] # "idle" => jobGPU[j] \in GPUs
  BY <1>1 DEF JobOK
<1>7. Wants[j] = JobWants(j)
  BY <1>2, <1>4, <1>6 DEF JobWants
<1>8. Has[j] = JobHas(j)
  BY <1>2, <1>3, <1>5, <1>6 DEF JobHas
<1> QED BY <1>7, <1>8

\* ... and for a measurement.
LEMMA HolderImage ==
    ASSUME IInv, NEW h \in Holders
    PROVE  Wants[h] = HolderWants(h) /\ Has[h] = HolderHas(h)
<1>1. TypeOK /\ HeldRecorded /\ h \notin Jobs
  BY ConstantsAssumption DEF IInv, Recorded
<1>2. Wants[h] = HolderWants(h)
  BY <1>1 DEF Wants, HolderWants
<1>3. Has[h] = {g \in GPUs : h \in {gpus[g].running, gpus[g].held}}
  BY DEF Has
<1>4. ASSUME NEW g \in GPUs
      PROVE  h \in {gpus[g].running, gpus[g].held} <=> holdAt[h] = "holding" /\ g \in holdGPUs[h]
  <2>1. gpus[g].running # h
    BY <1>1, ConstantsAssumption DEF TypeOK, GPUQueue
  <2> QED BY <1>1, <2>1 DEF HeldRecorded
<1>5. holdGPUs[h] \subseteq GPUs
  BY <1>1 DEF TypeOK
<1>6. Has[h] = HolderHas(h)
  BY <1>3, <1>4, <1>5 DEF HolderHas
<1> QED BY <1>2, <1>6

\* What the invariant says of the abstract state.
LEMMA ImageFacts == IInv => Images /\ Disjoint /\ Unclaimed
<1> SUFFICES ASSUME IInv PROVE Images /\ Disjoint /\ Unclaimed
  OBVIOUS
<1>1. Images
  BY JobImage, HolderImage DEF Images
<1>2. Disjoint
  <2> SUFFICES ASSUME NEW u \in Users, NEW v \in Users, NEW g \in Has[u] \cap Has[v]
               PROVE  u = v
    BY DEF Disjoint
  <2>1. /\ g \in GPUs /\ u # None /\ v # None
        /\ u \in {gpus[g].running, gpus[g].held}
        /\ v \in {gpus[g].running, gpus[g].held}
    BY ConstantsAssumption DEF Has, Users
  <2>2. gpus[g].running = None \/ gpus[g].held = None
    BY <2>1 DEF IInv, Exclusive
  <2> QED BY <2>1, <2>2
<1>3. Unclaimed
  BY ClaimsPositive DEF IInv, Unclaimed
<1> QED BY <1>1, <1>2, <1>3

\* The same after a step.
LEMMA ImageFactsPrime == IInv' => Images' /\ Disjoint' /\ Unclaimed'
  BY ImageFacts, PTL

\* From wants w and has h, a user stays or is granted what it wants; a job
\* only what nobody claims.
Stays(u, w, h) == Wants'[u] = w[u] /\ Has'[u] = h[u]

Gets(u, w, h) ==
    /\ w[u] # {} /\ Wants'[u] = {} /\ Has'[u] = w[u]
    /\ u \in Jobs => \A g \in w[u] : g \in GPUs /\ gpus'[g].claims = 0

\* Users who each stay or get what they want make a step of grants.
LEMMA UsersGrant ==
    ASSUME IInv', NEW w, NEW h, \A u \in Users : Stays(u, w, h) \/ Gets(u, w, h)
    PROVE  Turns!Grant(w, h)
<1> DEFINE granted == {u \in Users : w[u] # {} /\ Wants'[u] = {} /\ Has'[u] = w[u]}
<1>1. granted \in SUBSET {u \in Users : w[u] # {}}
  OBVIOUS
<1>2. \A u \in granted : Gets(u, w, h)
  BY DEF Stays
<1>3. \A u \in Users \ granted : Stays(u, w, h)
  BY DEF Gets
<1>4. Has' = [u \in Users |-> Has'[u]] /\ Wants' = [u \in Users |-> Wants'[u]]
  BY DEF Has, Wants, Users
<1>5. granted \subseteq Users
  OBVIOUS
<1> HIDE DEF granted
<1>6. Has' = [u \in Users |-> IF u \in granted THEN w[u] ELSE h[u]]
  BY <1>2, <1>3, <1>4, <1>5 DEF Gets, Stays
<1>7. Wants' = [u \in Users |-> IF u \in granted THEN {} ELSE w[u]]
  BY <1>2, <1>3, <1>4, <1>5 DEF Gets, Stays
<1>8. \A u \in granted : \A v \in Users \ {u} : w[u] \cap Has'[v] = {}
  BY <1>2, <1>5, ImageFactsPrime DEF Gets, Disjoint
<1>9. \A u \in granted \ Holders : \A p \in Holders : w[u] \cap Wants'[p] = {}
  <2> SUFFICES ASSUME NEW u \in granted \ Holders, NEW p \in Holders,
                      NEW g \in w[u] \cap Wants'[p]
               PROVE  FALSE
    OBVIOUS
  <2>1. g \in GPUs /\ gpus'[g].claims = 0
    BY <1>2, <1>5 DEF Gets, Users
  <2>2. g \in holdGPUs'[p]
    BY ImageFactsPrime DEF Images, HolderWants
  <2> QED BY <2>1, <2>2, ImageFactsPrime DEF Unclaimed
<1>10. \E G \in SUBSET {u \in Users : w[u] # {}} :
         /\ Has' = [u \in Users |-> IF u \in G THEN w[u] ELSE h[u]]
         /\ Wants' = [u \in Users |-> IF u \in G THEN {} ELSE w[u]]
         /\ \A u \in G : \A v \in Users \ {u} : w[u] \cap Has'[v] = {}
         /\ \A u \in G \ Holders : \A p \in Holders : w[u] \cap Wants'[p] = {}
  BY <1>1, <1>6, <1>7, <1>8, <1>9
<1> QED BY <1>10 DEF Turns!Grant, Users

\* A job whose goroutine does not move, and that is left running if it runs,
\* stays or gets its turn.
LEMMA WaitingJob ==
    ASSUME IInv, IInv', NEW k \in Jobs, jobAt'[k] = jobAt[k], jobGPU'[k] = jobGPU[k],
           \A g \in GPUs : Orderly(gpus[g], gpus'[g]),
           \A g \in GPUs : gpus[g].running = k => gpus'[g].running = k,
           NEW w, NEW h, w[k] = Wants[k], h[k] = Has[k]
    PROVE  Stays(k, w, h) \/ Gets(k, w, h)
<1> DEFINE g == jobGPU[k]
<1>1. /\ w[k] = JobWants(k) /\ h[k] = JobHas(k)
      /\ Wants'[k] = JobWants(k)' /\ Has'[k] = JobHas(k)'
  BY ImageFacts, ImageFactsPrime DEF Images
<1>2. jobAt[k] # "idle" => g \in GPUs
  BY DEF IInv, JobPlaces
<1>3. CASE jobAt[k] = "waiting" /\ gpus[g].running # k /\ gpus'[g].running = k
  <2>1. gpus'[g].claims = 0
    BY <1>2, <1>3, ConstantsAssumption DEF Orderly
  <2> QED BY <1>1, <1>2, <1>3, <2>1 DEF JobWants, JobHas, Gets
<1>4. CASE ~(jobAt[k] = "waiting" /\ gpus[g].running # k /\ gpus'[g].running = k)
  <2>1. JobWants(k)' = JobWants(k)
    BY <1>2, <1>4 DEF JobWants
  <2>2. JobHas(k)' = JobHas(k)
    <3>1. jobAt[k] \in {"idle", "waiting", "giveBack", "working"}
      BY DEF IInv, TypeOK
    <3>2. jobAt[k] \in {"working", "giveBack"} => gpus[g].running = k
      BY DEF IInv, Recorded, RunningRecorded
    <3> QED BY <1>2, <1>4, <3>1, <3>2 DEF JobHas
  <2> QED BY <1>1, <2>1, <2>2 DEF Stays
<1> QED BY <1>3, <1>4

\* A measurement whose goroutine does not move stays.
LEMMA IdleHolder ==
    ASSUME IInv, IInv', NEW k \in Holders,
           holdAt'[k] = holdAt[k], holdGPUs'[k] = holdGPUs[k],
           NEW w, NEW h, w[k] = Wants[k], h[k] = Has[k]
    PROVE  Stays(k, w, h)
<1>1. /\ w[k] = HolderWants(k) /\ h[k] = HolderHas(k)
      /\ Wants'[k] = HolderWants(k)' /\ Has'[k] = HolderHas(k)'
  BY ImageFacts, ImageFactsPrime DEF Images
<1> QED BY <1>1 DEF Stays, HolderWants, HolderHas

\* Everybody but u stays or gets its turn, u as said: a step of grants.
LEMMA OthersGrant ==
    ASSUME IInv, IInv', \A g \in GPUs : Orderly(gpus[g], gpus'[g]),
           NEW u \in Users, NEW w, NEW h, Stays(u, w, h) \/ Gets(u, w, h),
           \A v \in Users \ {u} : w[v] = Wants[v] /\ h[v] = Has[v],
           \A k \in Jobs \ {u} : /\ jobAt'[k] = jobAt[k] /\ jobGPU'[k] = jobGPU[k]
                                 /\ \A g \in GPUs : gpus[g].running = k => gpus'[g].running = k,
           \A k \in Holders \ {u} : holdAt'[k] = holdAt[k] /\ holdGPUs'[k] = holdGPUs[k]
    PROVE  Turns!Grant(w, h)
<1>1. ASSUME NEW v \in Users PROVE Stays(v, w, h) \/ Gets(v, w, h)
  <2>1. CASE v = u
    BY <2>1
  <2>2. CASE v # u /\ v \in Jobs
    BY <2>2, WaitingJob
  <2>3. CASE v # u /\ v \in Holders
    BY <2>3, IdleHolder
  <2> QED BY <2>1, <2>2, <2>3 DEF Users
<1> QED BY <1>1, UsersGrant

\* The abstract state is a pair of functions on the users.
LEMMA ImageTypes ==
    /\ Wants = [u \in Users |-> Wants[u]] /\ DOMAIN Wants = Users
    /\ Has = [u \in Users |-> Has[u]] /\ DOMAIN Has = Users
  BY DEF Wants, Has, Users

\* A submitted job asks for its GPU.
LEMMA SubmitTurn ==
    ASSUME ServiceInv, IInv', ServiceStep, NEW j \in Jobs, NEW g \in GPUs, Submit(j, g)
    PROVE  Turns!Ask(j, {g})
<1> DEFINE w == [Wants EXCEPT ![j] = {g}]
<1>1. /\ IInv /\ j \in Users /\ j # None /\ \A x \in GPUs : Orderly(gpus[x], gpus'[x])
      /\ gpus[g].running # j
  BY ConstantsAssumption
     DEF ServiceInv, ServiceStep, Users, IInv, Recorded, RunningRecorded, Submit
<1>2. /\ jobAt[j] = "idle" /\ jobAt'[j] = "waiting" /\ jobGPU'[j] = g
      /\ \A k \in Jobs \ {j} : jobAt'[k] = jobAt[k] /\ jobGPU'[k] = jobGPU[k]
      /\ UNCHANGED <<holdAt, holdGPUs>>
  BY <1>1 DEF Submit, IInv, TypeOK
<1>3. Wants[j] = {} /\ Has[j] = {}
  BY <1>1, <1>2, ImageFacts DEF Images, JobWants, JobHas
<1>4. w[j] = {g} /\ \A v \in Users \ {j} : w[v] = Wants[v]
  BY <1>1, ImageTypes
<1> HIDE DEF w
<1>5. Wants'[j] = JobWants(j)' /\ Has'[j] = JobHas(j)'
  BY ImageFactsPrime DEF Images
<1>6. Stays(j, w, Has) \/ Gets(j, w, Has)
  <2>1. CASE gpus'[g].running = j
    <3>1. gpus'[g].claims = 0
      BY <1>1, <2>1 DEF Orderly
    <3> QED BY <1>2, <1>4, <1>5, <2>1, <3>1 DEF JobWants, JobHas, Gets
  <2>2. CASE gpus'[g].running # j
    BY <1>2, <1>3, <1>4, <1>5, <2>2 DEF JobWants, JobHas, Stays
  <2> QED BY <2>1, <2>2
<1>7. ASSUME NEW k \in Jobs \ {j}, NEW x \in GPUs, gpus[x].running = k
      PROVE  gpus'[x].running = k
  <2>1. gpus[x] \in GPUQueue
    BY QueueFacts
  <2>2. gpus'[x] = gpus[x] \/ gpus'[x] = Enqueue(gpus[x], j)
    BY <1>1, <1>7, ConstantsAssumption DEF Submit, Open, Unused, IInv, TypeOK
  <2> QED BY <1>7, <2>1, <2>2 DEF Enqueue, GPUQueue
<1>8. Turns!Grant(w, Has)
  BY <1>1, <1>2, <1>4, <1>6, <1>7, OthersGrant
<1> QED BY <1>3, <1>8 DEF Turns!Ask, w

\* A job that leaves the queue withdraws.
LEMMA LeaveQueueTurn ==
    ASSUME ServiceInv, IInv', ServiceStep, NEW j \in Jobs, LeaveQueue(j)
    PROVE  Turns!Withdraw(j)
<1> DEFINE g == jobGPU[j]
           w == [Wants EXCEPT ![j] = {}]
<1>1. /\ IInv /\ j \in Users /\ g \in GPUs /\ \A x \in GPUs : Orderly(gpus[x], gpus'[x])
  BY DEF ServiceInv, ServiceStep, Users, IInv, JobPlaces, LeaveQueue
<1>2. /\ jobAt[j] = "waiting" /\ jobAt'[j] = "idle"
      /\ \A k \in Jobs \ {j} : jobAt'[k] = jobAt[k] /\ jobGPU'[k] = jobGPU[k]
      /\ UNCHANGED <<holdAt, holdGPUs>>
  BY <1>1 DEF LeaveQueue, IInv, TypeOK
<1>3. PICK i \in 1..Len(gpus[g].waiting) :
        gpus[g].waiting[i] = j /\ gpus' = [gpus EXCEPT ![g] = Dequeue(gpus[g], i)]
  BY DEF LeaveQueue
<1>4. gpus[g].running # j
  <2>1. DOMAIN gpus[g].waiting = 1..Len(gpus[g].waiting)
    BY <1>1, QueueFacts, LenProperties DEF GPUQueue
  <2>2. j \in ToSet(gpus[g].waiting)
    BY <1>3, <2>1 DEF ToSet
  <2> QED BY <1>1, <2>2 DEF IInv, TicketsOwned
<1>5. Wants[j] = {g} /\ Has[j] = {} /\ Wants'[j] = {} /\ Has'[j] = {}
  BY <1>1, <1>2, <1>4, ImageFacts, ImageFactsPrime DEF Images, JobWants, JobHas
<1>6. w[j] = {} /\ \A v \in Users \ {j} : w[v] = Wants[v]
  BY <1>1, ImageTypes
<1>7. ASSUME NEW x \in GPUs PROVE gpus'[x].running = gpus[x].running
  <2>1. gpus[x] \in GPUQueue
    BY QueueFacts
  <2> QED BY <1>1, <1>3, <2>1 DEF Dequeue, GPUQueue, IInv, TypeOK
<1> HIDE DEF g, w
<1>8. Stays(j, w, Has)
  BY <1>5, <1>6 DEF Stays
<1>9. Turns!Grant(w, Has)
  BY <1>1, <1>2, <1>6, <1>7, <1>8, OthersGrant
<1> QED BY <1>5, <1>9 DEF Turns!Withdraw, w

\* A job that is done gives its GPU back.
LEMMA DoneTurn ==
    ASSUME ServiceInv, IInv', ServiceStep, NEW j \in Jobs, Done(j)
    PROVE  Turns!GiveBack(j)
<1> DEFINE g == jobGPU[j]
           h == [Has EXCEPT ![j] = {}]
<1>1. /\ IInv /\ j \in Users /\ g \in GPUs /\ gpus[g].running = j
      /\ \A x \in GPUs : Orderly(gpus[x], gpus'[x])
  BY DEF ServiceInv, ServiceStep, Users, IInv, JobPlaces, Recorded, RunningRecorded, Done
<1>2. /\ jobAt[j] \in {"working", "giveBack"} /\ jobAt'[j] = "idle"
      /\ \A k \in Jobs \ {j} : jobAt'[k] = jobAt[k] /\ jobGPU'[k] = jobGPU[k]
      /\ UNCHANGED <<holdAt, holdGPUs>>
      /\ gpus' = [gpus EXCEPT ![g] = Finish(gpus[g])]
  BY <1>1 DEF Done, IInv, TypeOK
<1>3. Wants[j] = {} /\ Has[j] = {g} /\ Wants'[j] = {} /\ Has'[j] = {}
  BY <1>1, <1>2, ImageFacts, ImageFactsPrime DEF Images, JobWants, JobHas
<1>4. h[j] = {} /\ \A v \in Users \ {j} : h[v] = Has[v]
  BY <1>1, ImageTypes
<1>5. ASSUME NEW k \in Jobs \ {j}, NEW x \in GPUs, gpus[x].running = k
      PROVE  gpus'[x].running = k
  BY <1>1, <1>2, <1>5 DEF IInv, TypeOK
<1> HIDE DEF g, h
<1>6. Stays(j, Wants, h)
  BY <1>3, <1>4 DEF Stays
<1>7. Turns!Grant(Wants, h)
  BY <1>1, <1>2, <1>4, <1>5, <1>6, OthersGrant
<1> QED BY <1>3, <1>7 DEF Turns!GiveBack, h

\* Hold asks for its GPUs.
LEMMA HoldTurn ==
    ASSUME ServiceInv, IInv', ServiceStep, NEW k \in Holders, NEW S \in (SUBSET GPUs) \ {{}},
           Hold(k, S)
    PROVE  Turns!Ask(k, S)
<1> DEFINE w == [Wants EXCEPT ![k] = S]
<1>1. /\ IInv /\ k \in Users /\ k \notin Jobs /\ \A x \in GPUs : Orderly(gpus[x], gpus'[x])
  BY ConstantsAssumption DEF ServiceInv, ServiceStep, Users
<1>2. /\ holdAt[k] = "idle" /\ holdAt'[k] \in {"waiting", "holding"} /\ holdGPUs'[k] = S
      /\ \A p \in Holders \ {k} : holdAt'[p] = holdAt[p] /\ holdGPUs'[p] = holdGPUs[p]
      /\ UNCHANGED <<jobAt, jobGPU>>
  BY <1>1 DEF Hold, IInv, TypeOK
<1>3. Wants[k] = {} /\ Has[k] = {}
  BY <1>1, <1>2, ImageFacts DEF Images, HolderWants, HolderHas
<1>4. w[k] = S /\ \A v \in Users \ {k} : w[v] = Wants[v]
  BY <1>1, ImageTypes
<1> HIDE DEF w
<1>5. Wants'[k] = HolderWants(k)' /\ Has'[k] = HolderHas(k)'
  BY ImageFactsPrime DEF Images
<1>6. Stays(k, w, Has) \/ Gets(k, w, Has)
  BY <1>1, <1>2, <1>3, <1>4, <1>5 DEF HolderWants, HolderHas, Stays, Gets
<1>7. ASSUME NEW x \in GPUs PROVE gpus'[x].running = gpus[x].running
  <2>1. gpus[x] \in GPUQueue /\ Claim(gpus[x]) \in GPUQueue
        /\ Claim(gpus[x]).running = gpus[x].running
    BY QueueFacts, ClaimFacts
  <2>2. gpus'[x] \in {gpus[x], Claim(gpus[x]), Take(Claim(gpus[x]), k)}
    <3>1. CASE AllUnused(S)
      BY <3>1 DEF Hold, OnGPUs
    <3>2. CASE ~AllUnused(S)
      BY <3>2 DEF Hold, OnGPUs
    <3> QED BY <3>1, <3>2
  <2> QED BY <2>1, <2>2, TakeFacts
<1>8. Turns!Grant(w, Has)
  BY <1>1, <1>2, <1>4, <1>6, <1>7, OthersGrant
<1> QED BY <1>3, <1>8 DEF Turns!Ask, w

\* A woken Hold is granted its GPUs, or nothing happens.
LEMMA HoldAgainTurn ==
    ASSUME ServiceInv, IInv', ServiceStep, NEW k \in Holders, HoldAgain(k)
    PROVE  Turns!Grant(Wants, Has) \/ UNCHANGED <<Wants, Has>>
<1> DEFINE S == holdGPUs[k]
<1>1. /\ IInv /\ k \in Users /\ k \notin Jobs /\ \A x \in GPUs : Orderly(gpus[x], gpus'[x])
  BY ConstantsAssumption DEF ServiceInv, ServiceStep, Users
<1>2. CASE AllUnused(S)
  <2>1. /\ holdAt[k] = "waiting" /\ holdAt'[k] = "holding" /\ holdGPUs' = holdGPUs
        /\ \A p \in Holders \ {k} : holdAt'[p] = holdAt[p]
        /\ UNCHANGED <<jobAt, jobGPU>>
        /\ \A x \in GPUs : gpus'[x] \in {gpus[x], Take(gpus[x], k)}
    BY <1>1, <1>2 DEF HoldAgain, OnGPUs, IInv, TypeOK
  <2>2. Wants[k] = S /\ S # {} /\ Wants'[k] = {} /\ Has'[k] = S
    BY <1>1, <2>1, ImageFacts, ImageFactsPrime
       DEF Images, HolderWants, HolderHas, ServiceInv, HoldsSome
  <2> HIDE DEF S
  <2>3. Gets(k, Wants, Has)
    BY <1>1, <2>2 DEF Gets
  <2>4. \A x \in GPUs : gpus'[x].running = gpus[x].running
    BY <2>1, QueueFacts, TakeFacts
  <2>5. Turns!Grant(Wants, Has)
    BY <1>1, <2>1, <2>3, <2>4, OthersGrant
  <2> QED BY <2>5
<1>3. CASE ~AllUnused(S)
  BY <1>3 DEF HoldAgain, Wants, Has
<1> QED BY <1>2, <1>3

\* A Hold that gives up withdraws.
LEMMA HoldCancelTurn ==
    ASSUME ServiceInv, IInv', ServiceStep, NEW k \in Holders, HoldCancel(k)
    PROVE  Turns!Withdraw(k)
<1> DEFINE w == [Wants EXCEPT ![k] = {}]
<1>1. /\ IInv /\ k \in Users /\ k \notin Jobs /\ \A x \in GPUs : Orderly(gpus[x], gpus'[x])
  BY ConstantsAssumption DEF ServiceInv, ServiceStep, Users
<1>2. /\ holdAt[k] = "waiting" /\ holdAt'[k] = "idle" /\ holdGPUs[k] # {}
      /\ \A p \in Holders \ {k} : holdAt'[p] = holdAt[p] /\ holdGPUs'[p] = holdGPUs[p]
      /\ UNCHANGED <<jobAt, jobGPU>>
  BY <1>1 DEF HoldCancel, IInv, TypeOK, ServiceInv, HoldsSome
<1>3. Wants[k] # {} /\ Has[k] = {} /\ Wants'[k] = {} /\ Has'[k] = {}
  BY <1>1, <1>2, ImageFacts, ImageFactsPrime DEF Images, HolderWants, HolderHas
<1>4. w[k] = {} /\ \A v \in Users \ {k} : w[v] = Wants[v]
  BY <1>1, ImageTypes
<1> HIDE DEF w
<1>5. Stays(k, w, Has)
  BY <1>3, <1>4 DEF Stays
<1>6. ASSUME NEW j \in Jobs, NEW x \in GPUs, gpus[x].running = j PROVE gpus'[x].running = j
  <2>1. gpus'[x] \in {gpus[x], Unclaim(gpus[x])} /\ (gpus'[x] # gpus[x] => x \in holdGPUs[k])
    BY DEF HoldCancel, OnGPUs
  <2>2. x \in holdGPUs[k] => gpus[x].claims # 0
    BY <1>1, ClaimsPositive DEF IInv
  <2> QED BY <1>6, <2>1, <2>2, QueueFacts, UnclaimFacts, ConstantsAssumption
<1>7. Turns!Grant(w, Has)
  BY <1>1, <1>2, <1>4, <1>5, <1>6, OthersGrant
<1> QED BY <1>3, <1>7 DEF Turns!Withdraw, w

\* A Hold that is released gives all its GPUs back.
LEMMA ReleaseHoldTurn ==
    ASSUME ServiceInv, IInv', ServiceStep, NEW k \in Holders, ReleaseHold(k)
    PROVE  Turns!GiveBack(k)
<1> DEFINE h == [Has EXCEPT ![k] = {}]
<1>1. /\ IInv /\ k \in Users /\ k \notin Jobs /\ \A x \in GPUs : Orderly(gpus[x], gpus'[x])
  BY ConstantsAssumption DEF ServiceInv, ServiceStep, Users
<1>2. /\ holdAt[k] = "holding" /\ holdAt'[k] = "idle" /\ holdGPUs[k] # {}
      /\ \A p \in Holders \ {k} : holdAt'[p] = holdAt[p] /\ holdGPUs'[p] = holdGPUs[p]
      /\ UNCHANGED <<jobAt, jobGPU>>
  BY <1>1 DEF ReleaseHold, IInv, TypeOK, ServiceInv, HoldsSome
<1>3. Wants[k] = {} /\ Has[k] # {} /\ Wants'[k] = {} /\ Has'[k] = {}
  BY <1>1, <1>2, ImageFacts, ImageFactsPrime DEF Images, HolderWants, HolderHas
<1>4. h[k] = {} /\ \A v \in Users \ {k} : h[v] = Has[v]
  BY <1>1, ImageTypes
<1> HIDE DEF h
<1>5. Stays(k, Wants, h)
  BY <1>3, <1>4 DEF Stays
<1>6. ASSUME NEW j \in Jobs, NEW x \in GPUs, gpus[x].running = j PROVE gpus'[x].running = j
  <2>1. gpus'[x] = gpus[x] \/ x \in holdGPUs[k]
    BY DEF ReleaseHold, OnGPUs
  <2>2. x \in holdGPUs[k] => gpus[x].held = k
    BY <1>1, <1>2 DEF IInv, Recorded, HeldRecorded
  <2>3. gpus[x].running = None \/ gpus[x].held = None
    BY <1>1 DEF IInv, Exclusive
  <2> QED BY <1>6, <2>1, <2>2, <2>3, ConstantsAssumption
<1>7. Turns!Grant(Wants, h)
  BY <1>1, <1>2, <1>4, <1>5, <1>6, OthersGrant
<1> QED BY <1>3, <1>7 DEF Turns!GiveBack, h

\* A GPU that is kept, or kept no more, is nobody's: a job may get its turn.
LEMMA KeepTurn ==
    ASSUME ServiceInv, IInv', ServiceStep, NEW g \in GPUs, KeepStep(g)
    PROVE  Turns!Grant(Wants, Has)
<1>1. /\ IInv /\ \A x \in GPUs : Orderly(gpus[x], gpus'[x])
      /\ UNCHANGED <<jobAt, jobGPU, holdAt, holdGPUs>>
  BY DEF ServiceInv, ServiceStep, KeepStep, Keep, ReleaseKeep
<1>2. ASSUME NEW j \in Jobs, NEW x \in GPUs, gpus[x].running = j PROVE gpus'[x].running = j
  <2>1. gpus[x] \in GPUQueue /\ Claim(gpus[x]) \in GPUQueue
        /\ Claim(gpus[x]).running = gpus[x].running
    BY QueueFacts, ClaimFacts
  <2>2. CASE x # g
    BY <1>1, <1>2, <2>2 DEF KeepStep, Keep, ReleaseKeep, IInv, TypeOK
  <2>3. CASE x = g /\ \E o \in Owners : Keep(g, o)
    <3> DEFINE c == Claim(gpus[g])
    <3>1. PICK o \in Owners : gpus'[g] = [c EXCEPT !.keptBy = o]
      BY <1>1, <2>3 DEF Keep, IInv, TypeOK
    <3>2. c \in GPUQueue /\ c.running = j
      BY <1>2, <2>1, <2>3
    <3> HIDE DEF c
    <3> QED BY <2>3, <3>1, <3>2 DEF GPUQueue
  <2>4. CASE x = g /\ ReleaseKeep(g)
    <3> DEFINE p == [gpus[g] EXCEPT !.keptBy = None]
    <3>1. gpus'[g] = Unclaim(p) /\ gpus[g].claims # 0
      BY <1>1, <2>4, ClaimsPositive DEF ReleaseKeep, IInv, TypeOK
    <3>2. p \in GPUQueue /\ p.running = j /\ p.claims # 0
      BY <1>2, <2>1, <2>4, <3>1 DEF GPUQueue
    <3> HIDE DEF p
    <3> QED BY <2>4, <3>1, <3>2, UnclaimFacts, ConstantsAssumption
  <2> QED BY <2>2, <2>3, <2>4 DEF KeepStep
<1>3. ASSUME NEW u \in Users PROVE Stays(u, Wants, Has) \/ Gets(u, Wants, Has)
  <2>1. CASE u \in Jobs
    BY <1>1, <1>2, <2>1, WaitingJob
  <2>2. CASE u \in Holders
    BY <1>1, <2>2, IdleHolder
  <2> QED BY <2>1, <2>2 DEF Users
<1> QED BY <1>3, UsersGrant

\* At the start nobody wants or has a GPU.
LEMMA InitTurns == Init => Turns!Init
<1> SUFFICES ASSUME Init PROVE Turns!Init
  OBVIOUS
<1>1. IInv
  BY InitInv
<1>2. \A u \in Users : Wants[u] = {} /\ Has[u] = {}
  BY <1>1, ImageFacts DEF Images, Users, Init, JobWants, JobHas, HolderWants, HolderHas
<1> QED BY <1>2, ImageTypes DEF Turns!Init, Turns!Nothing, Users

\* Every step of the queue is a step of GPUTurns, or changes nothing there.
LEMMA NextTurns ==
    ASSUME ServiceInv, [Next]_vars
    PROVE  [Turns!Next]_(Turns!vars)
<1>1. IInv' /\ ServiceStep
  BY NextInv, NextService DEF ServiceInv
<1>2. ASSUME NEW j \in Jobs, JobStep(j) PROVE [Turns!Next]_(Turns!vars)
  <2>1. ASSUME NEW g \in GPUs, Submit(j, g) PROVE Turns!Next
    <3>1. {g} \in (SUBSET GPUs) \ {{}} /\ Turns!Ask(j, {g})
      BY <1>1, <2>1, SubmitTurn
    <3> QED BY <3>1 DEF Turns!Next
  <2>2. CASE Ready(j) \/ LeaveStarted(j)
    BY <2>2 DEF Ready, LeaveStarted, Wants, Has, Turns!vars
  <2>3. CASE LeaveQueue(j)
    BY <1>1, <2>3, LeaveQueueTurn DEF Turns!Next
  <2>4. CASE Done(j)
    BY <1>1, <2>4, DoneTurn DEF Turns!Next
  <2> QED BY <1>2, <2>1, <2>2, <2>3, <2>4 DEF JobStep
<1>3. ASSUME NEW k \in Holders, HoldStep(k) PROVE [Turns!Next]_(Turns!vars)
  <2>1. ASSUME NEW S \in (SUBSET GPUs) \ {{}}, Hold(k, S) PROVE Turns!Next
    BY <1>1, <2>1, HoldTurn DEF Turns!Next
  <2>2. CASE HoldAgain(k)
    BY <1>1, <2>2, HoldAgainTurn DEF Turns!Next, Turns!vars
  <2>3. CASE HoldCancel(k)
    BY <1>1, <2>3, HoldCancelTurn DEF Turns!Next
  <2>4. CASE ReleaseHold(k)
    BY <1>1, <2>4, ReleaseHoldTurn DEF Turns!Next
  <2> QED BY <1>3, <2>1, <2>2, <2>3, <2>4 DEF HoldStep
<1>4. ASSUME NEW g \in GPUs, KeepStep(g) PROVE Turns!Next
  BY <1>1, <1>4, KeepTurn DEF Turns!Next
<1>5. CASE UNCHANGED vars
  BY <1>5 DEF vars, Wants, Has, Turns!vars
<1> QED BY <1>2, <1>3, <1>4, <1>5 DEF Next

\* The queue implements GPUTurns: whoever is granted GPUs is granted all it
\* asked for in one step, nobody else has any of them, and no job is granted a
\* GPU that a measurement wants or has.
THEOREM TurnsImplemented == Spec => ImplementsTurns
<1>1. ServiceInv /\ [Next]_vars => [Turns!Next]_(Turns!vars)
  BY NextTurns
<1> QED BY <1>1, InitTurns, ServiceInvariant, PTL DEF Spec, ImplementsTurns, Turns!Spec
=============================================================================
