------------------------------- MODULE RelayProofs -------------------------------
(***************************************************************************)
(* Proofs that the relay processes use the repository only as it allows,   *)
(* so that what is proved of the repository holds of the relay, for any    *)
(* number of processes and deliveries, any limits and every disruption.    *)
(***************************************************************************)
EXTENDS Relay, DeliveryRepositoryProofs

\* A job holds a claim that was handed out, under the key of that claim, and has an
\* outcome to record when it records one.
Sound(k, job, claims) ==
  /\ job \in Job
  /\ job.claim \in claims
  /\ k = <<job.claim.delivery, job.claim.generation>>
  /\ job.phase = "observed" => job.outcome \in Outcomes

JobsOK ==
  /\ up \subseteq Worker
  /\ jobs \in [Key -> Job \cup {NULL}]
  /\ \A k \in Key : Alive(k) => Sound(k, jobs[k], held)

-------------------------------------------------------------------------------
(* Moves of one job.                                                       *)

\* A step that replaces one job by a sound one, or ends it, keeps the others sound as
\* long as only the claim of that job may leave `held`.
LEMMA OneJobMoves ==
  ASSUME JobsOK, NEW k \in Key, NEW job \in Job \cup {NULL},
         jobs' = [jobs EXCEPT ![k] = job], up' = up,
         \A c \in held : c \in held' \/ k = <<c.delivery, c.generation>>,
         job # NULL => Sound(k, job, held')
  PROVE  JobsOK'
<1>1. jobs' \in [Key -> Job \cup {NULL}]
  BY DEF JobsOK
<1>2. ASSUME NEW j \in Key, Alive(j)'
      PROVE  Sound(j, jobs'[j], held')
  <2>1. CASE j = k
    BY <1>2, <2>1 DEF JobsOK, Alive
  <2>2. CASE j # k
    <3>1. jobs'[j] = jobs[j] /\ jobs[j] # NULL
      BY <1>2, <2>2 DEF JobsOK, Alive
    <3>2. Sound(j, jobs[j], held)
      BY <3>1 DEF JobsOK, Alive
    <3> QED BY <2>2, <3>1, <3>2 DEF Sound
  <2> QED BY <2>1, <2>2
<1>3. \A j \in Key : Sound(j, jobs[j], held)' <=> Sound(j, jobs'[j], held')
  BY DEF Sound
<1> QED BY <1>1, <1>2, <1>3 DEF JobsOK

\* The common case: the tables and claims stay, and the job goes on with its claim.
LEMMA JobGoesOn ==
  ASSUME JobsOK, NEW k \in Key, Alive(k), NEW job \in Job,
         jobs' = [jobs EXCEPT ![k] = job], up' = up, held' = held,
         job.claim = jobs[k].claim,
         job.phase = "observed" => job.outcome \in Outcomes
  PROVE  JobsOK'
<1>1. Sound(k, jobs[k], held)
  BY DEF JobsOK
<1>2. Sound(k, job, held')
  BY <1>1 DEF Sound
<1> QED BY <1>2, OneJobMoves

\* A job that only enters another phase, without a new outcome to record.
LEMMA GotoJobsOK ==
  ASSUME JobsOK, NEW k \in Key, Alive(k), NEW phase \in Phases \ {"observed"},
         Goto(k, phase), up' = up, held' = held
  PROVE  JobsOK'
<1> DEFINE job == [jobs[k] EXCEPT !.phase = phase]
<1>1. jobs[k] \in Job
  BY DEF JobsOK, Alive
<1>2. job \in Job /\ job.claim = jobs[k].claim /\ job.phase = phase
  BY <1>1 DEF Job
<1>3. jobs' = [jobs EXCEPT ![k] = job]
  BY DEF Goto
<1> HIDE DEF job
<1> QED BY <1>2, <1>3, JobGoesOn

\* A job that ends.
LEMMA EndJobsOK ==
  ASSUME JobsOK, NEW k \in Key, End(k), up' = up, held' = held
  PROVE  JobsOK'
BY OneJobMoves DEF End

-------------------------------------------------------------------------------
(* The queues.                                                             *)

\* The queue and the chunk of a process hold keys of `waiting`, each at most once.
Line(q, c, waiting) ==
  /\ q \in Seq(Key) /\ c \in Seq(Key)
  /\ \A i \in 1..Len(q) : q[i] \in waiting
  /\ \A i \in 1..Len(c) : c[i] \in waiting
  /\ \A i, j \in 1..Len(q) : q[i] = q[j] => i = j
  /\ \A i, j \in 1..Len(c) : c[i] = c[j] => i = j
  /\ \A i \in 1..Len(q), j \in 1..Len(c) : q[i] # c[j]

\* Every entry of a queue or chunk is a queued job of that process, and stands there
\* once: so what is dispatched is a job, and still a queued one.
QueuesOK ==
  /\ queue = [w \in Worker |-> queue[w]]
  /\ chunk = [w \in Worker |-> chunk[w]]
  /\ \A w \in Worker : Line(queue[w], chunk[w], In(w, {"queued"}))

\* A queue may be joined by a job that was not in it,
LEMMA AppendLine ==
  ASSUME NEW q, NEW c, NEW S, NEW T, Line(q, c, S), NEW k \in Key, k \notin S,
         S \subseteq T, k \in T
  PROVE  Line(Append(q, k), c, T)
<1> DEFINE r == Append(q, k)
<1>1. q \in Seq(Key) /\ Len(q) \in Nat
  BY DEF Line
<1>2. /\ r \in Seq(Key) /\ Len(r) = Len(q) + 1 /\ r[Len(q) + 1] = k
      /\ \A i \in 1..Len(q) : r[i] = q[i]
  BY <1>1
<1> HIDE DEF r
<1>3. \A i \in 1..Len(r) : i \in 1..Len(q) \/ i = Len(q) + 1
  BY <1>1, <1>2
<1>4. \A i \in 1..Len(r) : r[i] \in T
  BY <1>2, <1>3 DEF Line
<1>5. \A i, j \in 1..Len(r) : r[i] = r[j] => i = j
  BY <1>2, <1>3 DEF Line
<1>6. \A i \in 1..Len(r), j \in 1..Len(c) : r[i] # c[j]
  BY <1>2, <1>3 DEF Line
<1>7. \A i \in 1..Len(c) : c[i] \in T
  BY DEF Line
<1> QED BY <1>2, <1>4, <1>5, <1>6, <1>7 DEF Line, r

\* split into what is pulled and what stays behind,
LEMMA PullLine ==
  ASSUME NEW q, NEW S, Line(q, <<>>, S), NEW n \in 1..Len(q)
  PROVE  Line(SubSeq(q, n + 1, Len(q)), SubSeq(q, 1, n), S)
<1> DEFINE front == SubSeq(q, 1, n)
           back == SubSeq(q, n + 1, Len(q))
<1>1. q \in Seq(Key) /\ Len(q) \in Nat /\ n \in Nat /\ n <= Len(q)
  BY DEF Line
<1>2. /\ front \in Seq(Key) /\ Len(front) = n
      /\ \A i \in 1..n : front[i] = q[i] /\ i \in 1..Len(q)
  BY <1>1
<1>3. /\ back \in Seq(Key) /\ Len(back) = Len(q) - n
      /\ \A i \in 1..(Len(q) - n) : back[i] = q[i + n] /\ i + n \in 1..Len(q)
  BY <1>1
<1> HIDE DEF front, back
<1>4. \A i \in 1..Len(front) : front[i] \in S
  BY <1>2 DEF Line
<1>5. \A i \in 1..Len(back) : back[i] \in S
  BY <1>3 DEF Line
<1>6. \A i, j \in 1..Len(front) : front[i] = front[j] => i = j
  BY <1>2 DEF Line
<1>7. ASSUME NEW i \in 1..Len(back), NEW j \in 1..Len(back), back[i] = back[j]
      PROVE  i = j
  <2>1. i + n = j + n
    BY <1>3, <1>7 DEF Line
  <2> QED BY <1>1, <1>3, <2>1
<1>8. ASSUME NEW i \in 1..Len(back), NEW j \in 1..Len(front) PROVE back[i] # front[j]
  <2>1. back[i] = q[i + n] /\ front[j] = q[j] /\ i + n \in 1..Len(q) /\ j \in 1..Len(q)
    BY <1>2, <1>3
  <2>2. i + n # j
    BY <1>1, <1>2, <1>3
  <2> QED BY <2>1, <2>2 DEF Line
<1> QED BY <1>2, <1>3, <1>4, <1>5, <1>6, <1>7, <1>8 DEF Line, front, back

\* and left by the head of its chunk, the only entry with its job.
LEMMA TailLine ==
  ASSUME NEW q, NEW c, NEW S, Line(q, c, S), c # <<>>
  PROVE  Head(c) \in S /\ Line(q, Tail(c), S \ {Head(c)})
<1> DEFINE k == Head(c)
           rest == Tail(c)
<1>1. c \in Seq(Key) /\ Len(c) \in Nat \ {0}
  BY DEF Line
<1>2. k = c[1] /\ 1 \in 1..Len(c)
  BY <1>1
<1>3. /\ rest \in Seq(Key) /\ Len(rest) = Len(c) - 1
      /\ \A i \in 1..(Len(c) - 1) : rest[i] = c[i + 1] /\ i + 1 \in 1..Len(c) /\ i + 1 # 1
  BY <1>1
<1> HIDE DEF k, rest
<1>4. k \in S
  BY <1>2 DEF Line
<1>5. \A i \in 1..Len(rest) : rest[i] \in S \ {k}
  BY <1>2, <1>3 DEF Line
<1>6. \A i \in 1..Len(q) : q[i] \in S \ {k}
  BY <1>2 DEF Line
<1>7. ASSUME NEW i \in 1..Len(rest), NEW j \in 1..Len(rest), rest[i] = rest[j]
      PROVE  i = j
  <2>1. i + 1 = j + 1
    BY <1>3, <1>7 DEF Line
  <2> QED BY <1>1, <1>3, <2>1
<1>8. \A i \in 1..Len(q), j \in 1..Len(rest) : q[i] # rest[j]
  BY <1>3 DEF Line
<1>9. /\ q \in Seq(Key)
      /\ \A i, j \in 1..Len(q) : q[i] = q[j] => i = j
  BY DEF Line
<1>10. Line(q, rest, S \ {k})
  BY <1>3, <1>5, <1>6, <1>7, <1>8, <1>9 DEF Line
<1> QED BY <1>4, <1>10 DEF k, rest

\* Steps that leave the queues alone and every queued job in its place.
LEMMA QueuesStay ==
  ASSUME QueuesOK, UNCHANGED <<queue, chunk>>,
         \A k \in Key : Is(k, {"queued"}) => Is(k, {"queued"})' /\ Process(k)' = Process(k)
  PROVE  QueuesOK'
<1>1. \A w \in Worker : In(w, {"queued"}) \subseteq In(w, {"queued"})'
  BY DEF In, JobsOf, Is
<1>2. ASSUME NEW w \in Worker PROVE Line(queue'[w], chunk'[w], In(w, {"queued"})')
  <2>1. Line(queue[w], chunk[w], In(w, {"queued"}))
    BY DEF QueuesOK
  <2> QED BY <1>1, <2>1 DEF Line
<1> QED BY <1>2 DEF QueuesOK

\* In particular, steps that replace one job that is not queued, or keep it queued.
LEMMA QueuesStayForOne ==
  ASSUME QueuesOK, JobsOK, UNCHANGED <<queue, chunk>>, NEW k \in Key, NEW job,
         jobs' = [jobs EXCEPT ![k] = job],
         Is(k, {"queued"}) =>
           job # NULL /\ job.phase = "queued" /\ job.claim.owner = Process(k)
  PROVE  QueuesOK'
<1>1. ASSUME NEW j \in Key, Is(j, {"queued"})
      PROVE  Is(j, {"queued"})' /\ Process(j)' = Process(j)
  BY <1>1 DEF JobsOK, Is, Alive, Process
<1> QED BY <1>1, QueuesStay

\* The job that is offered was in no queue; it is put at the end of one.
LEMMA OfferQueues ==
  ASSUME JobsOK, QueuesOK, NEW k \in Key, Offer(k)
  PROVE  QueuesOK'
<1> DEFINE Q(v) == In(v, {"queued"})
<1>0. /\ jobs[k] \in Job /\ Process(k) \in Worker
      /\ jobs[k].phase = "claimed" /\ Alive(k)
  BY DEF JobsOK, Offer, Submittable, Is, Alive, Process, Job, Claim
<1> PICK w \in Worker : w = Process(k)
  BY <1>0
<1>1. jobs[k] \in Job /\ w = Process(k) /\ jobs[k].phase = "claimed" /\ Alive(k)
  BY <1>0
<1>2. /\ jobs' = [jobs EXCEPT ![k] = [jobs[k] EXCEPT !.phase = "queued"]]
      /\ queue' = [queue EXCEPT ![w] = Append(queue[w], k)] /\ chunk' = chunk
  BY DEF Offer, Goto, Process
<1>3. /\ jobs'[k] \in Job /\ jobs'[k].phase = "queued" /\ jobs'[k].claim.owner = w
      /\ \A j \in Key : j # k => jobs'[j] = jobs[j]
  BY <1>1, <1>2 DEF JobsOK, Job, Phases, Process
<1>4. k \notin Q(w) /\ k \in Q(w)'
  BY <1>1, <1>3, JobAssumption DEF In, JobsOf, Alive, Process
<1>5. \A v \in Worker : Q(v) \subseteq Q(v)'
  BY <1>1, <1>3 DEF In, JobsOf, Alive, Process
<1>6. queue = [v \in Worker |-> queue[v]] /\ chunk = [v \in Worker |-> chunk[v]]
  BY DEF QueuesOK
<1> HIDE DEF Q
<1>7. /\ queue'[w] = Append(queue[w], k)
      /\ \A v \in Worker : v # w => queue'[v] = queue[v]
      /\ queue' = [v \in Worker |-> queue'[v]]
  BY <1>1, <1>2, <1>6
<1>8. \A v \in Worker : Line(queue[v], chunk[v], Q(v))
  BY DEF QueuesOK, Q
<1>9. ASSUME NEW v \in Worker PROVE Line(queue'[v], chunk'[v], Q(v)')
  <2>1. CASE v = w
    <3>1. Line(Append(queue[w], k), chunk[w], Q(w)')
      BY <1>1, <1>4, <1>5, <1>8, AppendLine
    <3> QED BY <1>2, <1>7, <2>1, <3>1
  <2>2. CASE v # w
    BY <1>2, <1>5, <1>7, <1>8, <2>2 DEF Line
  <2> QED BY <2>1, <2>2
<1> QED BY <1>2, <1>6, <1>7, <1>9 DEF QueuesOK, Q

\* The pulled prefix and what stays behind share no entry, and the chunk was empty.
LEMMA PullQueues ==
  ASSUME QueuesOK, NEW w \in Worker, Pull(w)
  PROVE  QueuesOK'
<1>1. PICK n \in 1..Len(queue[w]) :
        /\ chunk' = [chunk EXCEPT ![w] = SubSeq(queue[w], 1, n)]
        /\ queue' = [queue EXCEPT ![w] = SubSeq(queue[w], n + 1, Len(queue[w]))]
  BY DEF Pull
<1>2. \A v \in Worker : In(v, {"queued"})' = In(v, {"queued"})
  BY DEF Pull, In, JobsOf, Alive, Process
<1>3. \A v \in Worker : Line(queue[v], chunk[v], In(v, {"queued"}))
  BY DEF QueuesOK
<1>4. Line(SubSeq(queue[w], n + 1, Len(queue[w])), SubSeq(queue[w], 1, n), In(w, {"queued"}))
  <2>1. chunk[w] = <<>>
    BY DEF Pull
  <2>2. Line(queue[w], <<>>, In(w, {"queued"}))
    BY <1>3, <2>1
  <2> QED BY <2>2, PullLine
<1>5. queue = [v \in Worker |-> queue[v]] /\ chunk = [v \in Worker |-> chunk[v]]
  BY DEF QueuesOK
<1>6. /\ chunk'[w] = SubSeq(queue[w], 1, n)
      /\ queue'[w] = SubSeq(queue[w], n + 1, Len(queue[w]))
      /\ \A v \in Worker : v # w => chunk'[v] = chunk[v] /\ queue'[v] = queue[v]
      /\ queue' = [v \in Worker |-> queue'[v]] /\ chunk' = [v \in Worker |-> chunk'[v]]
  BY <1>1, <1>5
<1>7. ASSUME NEW v \in Worker PROVE Line(queue'[v], chunk'[v], In(v, {"queued"})')
  BY <1>2, <1>3, <1>4, <1>6
<1> QED BY <1>6, <1>7 DEF QueuesOK

\* The head of the chunk is a job, and the only entry with that job.
LEMMA DispatchQueues ==
  ASSUME JobsOK, QueuesOK, NEW w \in Worker, Dispatch(w)
  PROVE  /\ Head(chunk[w]) \in Key /\ Alive(Head(chunk[w]))
         /\ QueuesOK'
<1> DEFINE k == Head(chunk[w])
           Q(v) == In(v, {"queued"})
<1>1. \A v \in Worker : Line(queue[v], chunk[v], Q(v))
  BY DEF QueuesOK
<1>2. k \in Q(w) /\ Line(queue[w], Tail(chunk[w]), Q(w) \ {k})
  BY <1>1, TailLine DEF Dispatch
<1>3. k \in Key /\ Alive(k) /\ Process(k) = w
  BY <1>2 DEF In, JobsOf
<1>4. /\ jobs' = [jobs EXCEPT ![k] = [jobs[k] EXCEPT !.phase = "starting"]]
      /\ chunk' = [chunk EXCEPT ![w] = Tail(chunk[w])] /\ queue' = queue
  BY DEF Dispatch, Goto
<1> HIDE DEF k
<1>5. \A j \in Key : j # k => jobs'[j] = jobs[j]
  BY <1>4 DEF JobsOK
<1>6. /\ Q(w) \ {k} \subseteq Q(w)'
      /\ \A v \in Worker : v # w => Q(v) \subseteq Q(v)'
  BY <1>3, <1>5 DEF In, JobsOf, Alive, Process
<1>7. queue = [v \in Worker |-> queue[v]] /\ chunk = [v \in Worker |-> chunk[v]]
  BY DEF QueuesOK
<1>8. /\ chunk'[w] = Tail(chunk[w])
      /\ \A v \in Worker : v # w => chunk'[v] = chunk[v]
      /\ chunk' = [v \in Worker |-> chunk'[v]]
  BY <1>4, <1>7
<1> HIDE DEF Q
<1>9. ASSUME NEW v \in Worker PROVE Line(queue'[v], chunk'[v], Q(v)')
  <2>1. CASE v = w
    <3>1. Line(queue'[v], chunk'[v], Q(w) \ {k})
      BY <1>2, <1>4, <1>8, <2>1
    <3> QED BY <1>6, <2>1, <3>1 DEF Line
  <2>2. CASE v # w
    <3>1. Line(queue'[v], chunk'[v], Q(v))
      BY <1>1, <1>4, <1>8, <2>2
    <3> QED BY <1>6, <2>2, <3>1 DEF Line
  <2> QED BY <2>1, <2>2
<1>10. QueuesOK'
  BY <1>4, <1>7, <1>8, <1>9 DEF QueuesOK, Q
<1> QED BY <1>3, <1>10 DEF k

\* A crash empties the queues of its process and ends no job of another.
LEMMA CrashKeepsQueuesAndJobs ==
  ASSUME JobsOK, QueuesOK, NEW w \in Worker, Crash(w)
  PROVE  JobsOK' /\ QueuesOK'
<1>1. /\ queue' = [queue EXCEPT ![w] = <<>>] /\ chunk' = [chunk EXCEPT ![w] = <<>>]
      /\ jobs' = [k \in Key |-> IF k \in JobsOf(w) THEN NULL ELSE jobs[k]]
      /\ held' = held /\ up' \subseteq Worker
  BY DEF Crash, vars, JobsOK
<1>2. \A k \in Key : Alive(k)' => jobs'[k] = jobs[k] /\ Alive(k)
  BY <1>1 DEF Alive
<1>3. JobsOK'
  <2>1. jobs' \in [Key -> Job \cup {NULL}]
    BY <1>1 DEF JobsOK
  <2>2. \A k \in Key : Alive(k)' => Sound(k, jobs[k], held)'
    BY <1>1, <1>2 DEF JobsOK, Sound
  <2> QED BY <1>1, <2>1, <2>2 DEF JobsOK
<1>4. \A v \in Worker : v # w => In(v, {"queued"}) \subseteq In(v, {"queued"})'
  BY <1>1 DEF In, JobsOf, Alive, Process
<1>5. queue = [v \in Worker |-> queue[v]] /\ chunk = [v \in Worker |-> chunk[v]]
  BY DEF QueuesOK
<1>6. /\ queue'[w] = <<>> /\ chunk'[w] = <<>>
      /\ \A v \in Worker : v # w => queue'[v] = queue[v] /\ chunk'[v] = chunk[v]
      /\ queue' = [v \in Worker |-> queue'[v]] /\ chunk' = [v \in Worker |-> chunk'[v]]
  BY <1>1, <1>5
<1>7. ASSUME NEW v \in Worker PROVE Line(queue'[v], chunk'[v], In(v, {"queued"})')
  <2>1. CASE v = w
    <3>1. Line(<<>>, <<>>, In(v, {"queued"})')
      BY DEF Line
    <3> QED BY <1>6, <2>1, <3>1
  <2>2. CASE v # w
    <3>1. Line(queue'[v], chunk'[v], In(v, {"queued"}))
      BY <1>6, <2>2 DEF QueuesOK
    <3> QED BY <1>4, <2>2, <3>1 DEF Line
  <2> QED BY <2>1, <2>2
<1> QED BY <1>3, <1>6, <1>7 DEF QueuesOK

-------------------------------------------------------------------------------
(* Every step of the relay is a step of the repository, or none, and keeps the *)
(* memory of the processes sound.                                          *)

RInv == IInv /\ JobsOK /\ QueuesOK

\* Every process starts with nothing in memory.
LEMMA InitRInv == RelayInit => RInv
<1> SUFFICES ASSUME RelayInit PROVE RInv
  OBVIOUS
<1>1. IInv
  BY InitFence DEF RelayInit
<1>2. JobsOK
  BY DEF RelayInit, JobsOK, Alive
<1>3. QueuesOK
  BY DEF RelayInit, QueuesOK, Line
<1> QED BY <1>1, <1>2, <1>3 DEF RInv

\* No job has a claim before the row of its delivery, or beyond its generation.
LEMMA NoJobAhead ==
  ASSUME RInv, NEW k \in Key, Alive(k)
  PROVE  Exists(k[1]) /\ k[2] <= deliveries[k[1]].generation
<1>1. Sound(k, jobs[k], held)
  BY DEF RInv, JobsOK
<1> QED BY <1>1 DEF Sound, RInv, IInv, ClaimsTraceRows

\* A delivery comes in with its first claim, under a key no job has.
LEMMA TakeInStep ==
  ASSUME RInv, NEW w \in Worker, NEW d \in Delivery, NEW from \in {"accept", "deliver"},
         TakeIn(w, d, from)
  PROVE  RInv' /\ Next
<1>1. PICK version \in Version \cup {NULL} : Intake(d, Home, version, w)
  BY DEF TakeIn
<1>2. Home \in Destination
  BY RelayAssumption
<1>3. Next
  BY <1>1, <1>2 DEF Next
<1>4. IInv'
  BY <1>3, NextFence DEF RInv
<1> DEFINE k == <<d, 1>>
           c == ClaimOf(d, 1)
<1>5. k \in Key
  BY TableAssumption DEF Key
<1>6. ~Alive(k)
  BY <1>1, <1>5, NoJobAhead DEF Intake, InsertClaimed
<1>7. c \in held' /\ held \subseteq held'
  BY <1>1 DEF Intake
<1>8. c \in Claim
  BY <1>4, <1>7 DEF IInv, TypeOK
<1>9. c.delivery = d /\ c.generation = 1
  BY <1>1 DEF ClaimOf, Intake, InsertClaimed, NewRow, RInv, IInv, TypeOK
<1> HIDE DEF c
<1>10. Sound(k, NewJob(c, from), held')
  BY <1>7, <1>8, <1>9 DEF Sound, NewJob, Job, Phases
<1>11. jobs' = [jobs EXCEPT ![k] = NewJob(c, from)]
       /\ up' = up /\ UNCHANGED <<queue, chunk>>
  BY DEF TakeIn, c
<1> HIDE DEF k
<1>12. NewJob(c, from) \in Job
  BY <1>10 DEF Sound
<1>13. JobsOK'
  BY <1>5, <1>7, <1>10, <1>11, <1>12, OneJobMoves DEF RInv
<1>14. ~Is(k, {"queued"})
  BY <1>6 DEF Is
<1>15. QueuesOK'
  BY <1>5, <1>11, <1>14, QueuesStayForOne DEF RInv
<1> QED BY <1>3, <1>4, <1>13, <1>15 DEF RInv

\* What a pass does: it takes a batch of rows over, and begins a job for each claim.
Polled(w, from, at, S, next) ==
  /\ S \in Batches(Home, at)
  /\ TakeBatch(w, Home, at, S, next)
  /\ jobs' = [k \in Key |->
       IF k[1] \in S /\ k[2] = deliveries'[k[1]].generation
       THEN NewJob(ClaimOf(k[1], next[k[1]]), from) ELSE jobs[k]]

LEMMA PollParts ==
  ASSUME NEW w, NEW from, Poll(w, from)
  PROVE  \E at \in Readings, S \in SUBSET Delivery : \E next \in ReadOrdinals(S) :
           Polled(w, from, at, S, next)
<1>1. PICK at \in Readings :
        \E S \in Batches(Home, at) : \E next \in ReadOrdinals(S) : Polled(w, from, at, S, next)
  BY DEF Poll, Polled
<1>2. PICK S \in Batches(Home, at) :
        \E next \in ReadOrdinals(S) : Polled(w, from, at, S, next)
  BY <1>1
<1>3. S \in SUBSET Delivery
  BY DEF Batches
<1> QED BY <1>2, <1>3

\* A batch brings claims of a generation that no job has, and ends no job.
LEMMA PollStep ==
  ASSUME RInv, NEW w \in Worker, NEW from \in {"poll", "manual"}, Poll(w, from)
  PROVE  RInv' /\ Next
<1>0. PICK at \in Readings, S \in SUBSET Delivery :
        \E next \in ReadOrdinals(S) : Polled(w, from, at, S, next)
  BY PollParts
<1>1. PICK next \in ReadOrdinals(S) : Polled(w, from, at, S, next)
  BY <1>0
<1>2. Home \in Destination /\ Reconcile(w, Home)
  BY <1>1, RelayAssumption DEF Polled, Reconcile
<1>3. Next
  BY <1>2 DEF Next
<1>4. IInv'
  BY <1>3, NextFence DEF RInv
<1>5. UNCHANGED <<up, queue, chunk>> /\ held \subseteq held'
  BY <1>1 DEF Poll, Polled, TakeBatch
<1>6. \A d \in S : ClaimOf(d, next[d]) \in held' /\ ClaimOf(d, next[d]) \in Claim
  BY <1>1, <1>4 DEF Polled, TakeBatch, IInv, TypeOK
<1>7. ASSUME NEW k \in Key, k[1] \in S, k[2] = deliveries'[k[1]].generation
      PROVE  Sound(k, NewJob(ClaimOf(k[1], next[k[1]]), from), held') /\ ~Alive(k)
  <2> DEFINE d == k[1]
             c == ClaimOf(d, next[d])
  <2>1. k = <<d, k[2]>> /\ d \in Delivery
    BY DEF Key
  <2>2. c.delivery = d /\ c.generation = k[2] /\ c \in held' /\ c \in Claim
    BY <1>6, <1>7 DEF ClaimOf
  <2>3. Sound(k, NewJob(c, from), held')
    <3> HIDE DEF c
    <3> QED BY <2>1, <2>2 DEF Sound, NewJob, Job, Phases
  <2>4. /\ deliveries[d] \in Row
        /\ deliveries'[d].generation = deliveries[d].generation + 1
    <3>1. Claimable(d, Home, at)
      BY <1>1, <1>7 DEF Polled, Batches
    <3>2. deliveries[d] \in Row
      BY <2>1, <3>1 DEF Claimable, Exists, RInv, IInv, TypeOK
    <3> QED BY <1>1, <1>7, <2>1, <3>2 DEF Polled, TakeBatch, ClaimPending, Claimed, Row
  <2>5. ~(k[2] <= deliveries[d].generation)
    BY <1>7, <2>4, TableAssumption DEF Row
  <2> QED BY <2>3, <2>5, NoJobAhead
<1>8. ASSUME NEW k \in Key
      PROVE  /\ jobs'[k] \in Job \cup {NULL}
             /\ Alive(k)' => Sound(k, jobs'[k], held')
             /\ Alive(k) => jobs'[k] = jobs[k]
  <2>1. CASE k[1] \in S /\ k[2] = deliveries'[k[1]].generation
    <3>1. jobs'[k] = NewJob(ClaimOf(k[1], next[k[1]]), from)
      BY <1>1, <2>1 DEF Polled
    <3> QED BY <1>7, <2>1, <3>1 DEF Sound
  <2>2. CASE ~(k[1] \in S /\ k[2] = deliveries'[k[1]].generation)
    <3>1. jobs'[k] = jobs[k]
      BY <1>1, <2>2 DEF Polled
    <3> QED BY <1>5, <3>1 DEF RInv, JobsOK, Alive, Sound
  <2> QED BY <2>1, <2>2
<1>9. JobsOK'
  <2>1. jobs' \in [Key -> Job \cup {NULL}]
    BY <1>1, <1>8 DEF Polled
  <2>2. \A k \in Key : Sound(k, jobs[k], held)' <=> Sound(k, jobs'[k], held')
    BY DEF Sound
  <2> QED BY <1>5, <1>8, <2>1, <2>2 DEF RInv, JobsOK
<1>10. QueuesOK'
  <2>1. ASSUME NEW k \in Key, Is(k, {"queued"})
        PROVE  Is(k, {"queued"})' /\ Process(k)' = Process(k)
    BY <1>8, <2>1 DEF Is, Alive, Process
  <2> QED BY <1>5, <2>1, QueuesStay DEF RInv
<1> QED BY <1>3, <1>4, <1>9, <1>10 DEF RInv

\* A step that leaves the claims alone and moves one job on with its claim.
LEMMA MoveOn ==
  ASSUME RInv, NEW k \in Key, Alive(k), NEW job \in Job,
         jobs' = [jobs EXCEPT ![k] = job], UNCHANGED <<up, queue, chunk, held>>,
         job.claim = jobs[k].claim,
         job.phase = "observed" => job.outcome \in Outcomes,
         jobs[k].phase = "queued" => job.phase = "queued"
  PROVE  JobsOK' /\ QueuesOK'
<1>1. JobsOK'
  BY JobGoesOn DEF RInv
<1>2. Is(k, {"queued"}) => job # NULL /\ job.phase = "queued" /\ job.claim.owner = Process(k)
  BY JobAssumption DEF Is, Process
<1>3. QueuesOK'
  BY <1>2, QueuesStayForOne DEF RInv
<1> QED BY <1>1, <1>3

\* The same for a job that goes to another phase and changes nothing else.
LEMMA MoveTo ==
  ASSUME RInv, NEW k \in Key, Alive(k), jobs[k].phase # "queued",
         NEW phase \in Phases \ {"observed"}, Goto(k, phase),
         UNCHANGED <<up, queue, chunk, held>>
  PROVE  JobsOK' /\ QueuesOK'
<1> DEFINE job == [jobs[k] EXCEPT !.phase = phase]
<1>1. jobs[k] \in Job
  BY DEF RInv, JobsOK, Alive
<1>2. job \in Job /\ job.claim = jobs[k].claim /\ job.phase = phase
  BY <1>1 DEF Job
<1>3. jobs' = [jobs EXCEPT ![k] = job]
  BY DEF Goto
<1> HIDE DEF job
<1> QED BY <1>2, <1>3, MoveOn

\* The same for a job that ends.
LEMMA MoveOut ==
  ASSUME RInv, NEW k \in Key, Alive(k), jobs[k].phase # "queued", End(k),
         UNCHANGED <<up, queue, chunk, held>>
  PROVE  JobsOK' /\ QueuesOK'
<1>1. JobsOK'
  BY EndJobsOK DEF RInv
<1>2. jobs' = [jobs EXCEPT ![k] = NULL] /\ ~Is(k, {"queued"})
  BY DEF End, Is
<1>3. QueuesOK'
  BY <1>2, QueuesStayForOne DEF RInv
<1> QED BY <1>1, <1>3

\* An abandoned job keeps its claim and its place in the queue, or is gone with no place.
LEMMA AbandonedJob ==
  ASSUME NEW job \in Job
  PROVE  \/ Abandoned(job) = NULL /\ job.phase # "queued"
         \/ /\ Abandoned(job) \in Job /\ Abandoned(job).claim = job.claim
            /\ Abandoned(job).phase \in {"queued", "starting"} \cup Ending
            /\ job.phase = "queued" => Abandoned(job).phase = "queued"
<1>1. CASE job.phase \in {"claimed", "rejected"}
  BY <1>1 DEF Abandoned
<1>2. CASE job.phase \in Executing
  <2>1. /\ Abandoned(job) = [job EXCEPT !.cancelled = TRUE, !.phase = "releasing"]
        /\ job.phase # "queued"
    BY <1>2 DEF Abandoned, Executing, Job
  <2>2. "releasing" \in Phases /\ "releasing" \in Ending
    BY DEF Phases, Dispatched, Ending
  <2> QED BY <2>1, <2>2 DEF Job
<1>3. CASE job.phase \notin {"claimed", "rejected"} \cup Executing
  <2>1. Abandoned(job) = [job EXCEPT !.cancelled = TRUE]
    BY <1>3 DEF Abandoned, Job
  <2>2. job.phase \in {"queued", "starting"} \cup Ending
    BY <1>3 DEF Job, Phases, Dispatched
  <2> QED BY <2>1, <2>2 DEF Job
<1> QED BY <1>1, <1>2, <1>3

\* A step in which any of the jobs stay, are abandoned, or end out of the queue.
LEMMA MoveSome ==
  ASSUME RInv, UNCHANGED <<up, queue, chunk, held>>, jobs' = [k \in Key |-> jobs'[k]],
         \A k \in Key : \/ jobs'[k] = jobs[k]
                        \/ Alive(k) /\ jobs'[k] = Abandoned(jobs[k])
                        \/ jobs'[k] = NULL /\ ~Is(k, {"queued"})
  PROVE  JobsOK' /\ QueuesOK'
<1>1. ASSUME NEW k \in Key
      PROVE  /\ jobs'[k] \in Job \cup {NULL}
             /\ jobs'[k] # NULL => Sound(k, jobs'[k], held')
             /\ Is(k, {"queued"}) => Is(k, {"queued"})' /\ Process(k)' = Process(k)
  <2>1. jobs[k] \in Job \cup {NULL} /\ (Alive(k) => Sound(k, jobs[k], held))
    BY DEF RInv, JobsOK
  <2>2. CASE jobs'[k] = jobs[k]
    BY <2>1, <2>2 DEF Alive, Is, Process
  <2>3. CASE Alive(k) /\ jobs'[k] = Abandoned(jobs[k])
    <3>1. jobs[k] \in Job
      BY <2>1, <2>3 DEF Alive
    <3>2. CASE Abandoned(jobs[k]) = NULL /\ jobs[k].phase # "queued"
      BY <2>3, <3>2 DEF Is
    <3>3. CASE /\ Abandoned(jobs[k]) \in Job /\ Abandoned(jobs[k]).claim = jobs[k].claim
               /\ Abandoned(jobs[k]).phase \in {"queued", "starting"} \cup Ending
               /\ jobs[k].phase = "queued" => Abandoned(jobs[k]).phase = "queued"
      <4>1. Sound(k, Abandoned(jobs[k]), held')
        BY <2>1, <2>3, <3>3 DEF Sound, Ending
      <4> QED BY <2>3, <3>3, <4>1, JobAssumption DEF Is, Alive, Process
    <3> QED BY <3>1, <3>2, <3>3, AbandonedJob
  <2>4. CASE jobs'[k] = NULL /\ ~Is(k, {"queued"})
    BY <2>4
  <2> QED BY <2>2, <2>3, <2>4
<1>2. JobsOK'
  <2>1. jobs' \in [Key -> Job \cup {NULL}]
    BY <1>1
  <2>2. \A k \in Key : Sound(k, jobs[k], held)' <=> Sound(k, jobs'[k], held')
    BY DEF Sound
  <2> QED BY <1>1, <2>1, <2>2 DEF RInv, JobsOK, Alive
<1>3. QueuesOK'
  BY <1>1, QueuesStay DEF RInv
<1> QED BY <1>2, <1>3

\* A defect ends its own job and abandons those of its pass.
LEMMA DyingJob ==
  ASSUME RInv, NEW k \in Key, Dies(k), held' = held
  PROVE  JobsOK' /\ QueuesOK'
<1> DEFINE pass == IF k \in PassJobs(Process(k)) THEN PassJobs(Process(k)) ELSE {}
<1>1. /\ jobs' = [j \in Key |-> IF j = k THEN NULL
                               ELSE IF j \in pass THEN Abandoned(jobs[j]) ELSE jobs[j]]
      /\ UNCHANGED <<up, queue, chunk>> /\ ~Is(k, {"queued"})
  BY DEF Dies, Is
<1>2. \A j \in pass : Alive(j)
  BY DEF PassJobs, JobsOf
<1> HIDE DEF pass
<1> QED BY <1>1, <1>2, MoveSome

\* What a job does in the memory of its process alone.
LEMMA SilentStep ==
  ASSUME RInv, NEW k \in Key, Alive(k),
         \/ Offer(k) \/ OfferRefused(k) \/ RenewRefused(k) \/ Send(k)
         \/ \E outcome \in Outcomes : Answer(k, outcome)
         \/ AttemptRefused(k) \/ AttemptThrows(k) \/ Wake(k) \/ Publish(k)
         \/ Interrupt(k) \/ StatementFails(k)
  PROVE  RInv' /\ UNCHANGED vars
<1> USE DEF Is
<1>a. UNCHANGED vars
  BY DEF Offer, OfferRefused, RenewRefused, Send, Answer, AttemptRefused, AttemptThrows,
         Wake, Publish, Interrupt, StatementFails
<1>b. IInv' /\ held' = held
  BY <1>a, StutterFence DEF RInv, vars
<1>c. jobs[k] \in Job
  BY DEF RInv, JobsOK, Alive
<1>1. ASSUME Offer(k) PROVE JobsOK' /\ QueuesOK'
  <2>1. "queued" \in Phases \ {"observed"} /\ Goto(k, "queued") /\ up' = up
    BY <1>1 DEF Offer, Phases
  <2>2. JobsOK'
    BY <1>b, <2>1, GotoJobsOK DEF RInv
  <2> QED BY <1>1, <2>2, OfferQueues DEF RInv
<1>2. ASSUME NEW phase \in {"rejected", "releasing", "dying", "sending"}, Goto(k, phase),
             UNCHANGED <<up, queue, chunk>>, jobs[k].phase # "queued"
      PROVE  JobsOK' /\ QueuesOK'
  <2>1. phase \in Phases \ {"observed"}
    BY DEF Phases, Dispatched, Executing, Ending
  <2> QED BY <1>2, <1>b, <2>1, MoveTo
<1>3. ASSUME End(k), UNCHANGED <<up, queue, chunk>>, jobs[k].phase # "queued"
      PROVE  JobsOK' /\ QueuesOK'
  BY <1>3, <1>b, MoveOut
<1>4. ASSUME NEW outcome \in Outcomes, Answer(k, outcome) PROVE JobsOK' /\ QueuesOK'
  <2> DEFINE job == [jobs[k] EXCEPT !.phase = "observed", !.outcome = outcome]
  <2>1. job \in Job /\ job.claim = jobs[k].claim /\ job.outcome = outcome
    BY <1>c DEF Job, Phases, Dispatched, Executing
  <2>2. /\ jobs' = [jobs EXCEPT ![k] = job] /\ UNCHANGED <<up, queue, chunk>>
        /\ jobs[k].phase # "queued"
    BY <1>4 DEF Answer, RInv, JobsOK
  <2> HIDE DEF job
  <2> QED BY <1>b, <2>1, <2>2, MoveOn
<1>5. ASSUME Wake(k) PROVE JobsOK' /\ QueuesOK'
  <2> DEFINE job == [jobs[k] EXCEPT !.phase = "waiting", !.outcome = NULL, !.wakeAt = NULL]
  <2>1. job \in Job /\ job.claim = jobs[k].claim /\ job.phase = "waiting"
    BY <1>c DEF Job, Phases, Dispatched, Executing
  <2>2. /\ jobs' = [jobs EXCEPT ![k] = job] /\ UNCHANGED <<up, queue, chunk>>
        /\ jobs[k].phase # "queued"
    BY <1>5 DEF Wake, RInv, JobsOK
  <2> HIDE DEF job
  <2> QED BY <1>b, <2>1, <2>2, MoveOn
<1>6. ASSUME Interrupt(k) PROVE JobsOK' /\ QueuesOK'
  <2>1. /\ jobs' = [jobs EXCEPT ![k] = Abandoned(jobs[k])]
        /\ UNCHANGED <<up, queue, chunk, held>>
    BY <1>6, <1>b DEF Interrupt
  <2>2. jobs \in [Key -> Job \cup {NULL}]
    BY DEF RInv, JobsOK
  <2> QED BY <2>1, <2>2, MoveSome
<1>7. ASSUME \/ OfferRefused(k) \/ RenewRefused(k) \/ Send(k)
             \/ AttemptRefused(k) \/ AttemptThrows(k)
      PROVE  JobsOK' /\ QueuesOK'
  BY <1>2, <1>7
     DEF OfferRefused, Submittable, RenewRefused, Send, AttemptRefused, AttemptThrows,
         Executing
<1>8. ASSUME Publish(k) PROVE JobsOK' /\ QueuesOK'
  BY <1>3, <1>8 DEF Publish
<1>9. ASSUME StatementFails(k) PROVE JobsOK' /\ QueuesOK'
  <2>1. CASE Dies(k)
    BY <1>b, <2>1, DyingJob
  <2>2. CASE ~Dies(k)
    BY <1>2, <1>3, <1>9, <2>2 DEF StatementFails, Executing
  <2> QED BY <2>1, <2>2
<1>10. JobsOK' /\ QueuesOK'
  BY <1>1, <1>4, <1>5, <1>6, <1>7, <1>8, <1>9
<1> QED BY <1>10, <1>a, <1>b DEF RInv

\* A renewal, heard or not, is one of a claim the job was handed.
LEMMA RenewalStep ==
  ASSUME RInv, NEW k \in Key, Alive(k),
         FirstRenew(k) \/ KeepAlive(k) \/ UnheardRenewal(k)
  PROVE  RInv' /\ Next
<1> USE DEF Is
<1> DEFINE c == jobs[k].claim
<1>1. c \in held /\ jobs[k] \in Job
  BY DEF RInv, JobsOK, Sound
<1>2. Renew(c) /\ UNCHANGED <<up, queue, chunk>>
  BY DEF FirstRenew, KeepAlive, UnheardRenewal
<1>3. Next
  BY <1>1, <1>2 DEF Next
<1>4. IInv' /\ held' = held
  BY <1>2, <1>3, NextFence DEF RInv, Renew
<1>5. now + RenewInterval \in Nat
  BY RelayAssumption, TableAssumption DEF RInv, IInv, TypeOK
<1>6. ASSUME NEW phase \in Dispatched, jobs' = RenewedJob(k, phase), jobs[k].phase # "queued",
             phase = "observed" => jobs[k].phase = "observed"
      PROVE  JobsOK' /\ QueuesOK'
  <2> DEFINE job == [jobs[k] EXCEPT !.phase = phase, !.renewAt = now + RenewInterval]
  <2>1. job \in Job /\ job.claim = c /\ job.phase = phase /\ job.outcome = jobs[k].outcome
    BY <1>1, <1>5 DEF Job, Phases
  <2>2. jobs' = [jobs EXCEPT ![k] = job]
    BY <1>6 DEF RenewedJob, RInv, JobsOK
  <2>3. job.phase = "observed" => job.outcome \in Outcomes
    BY <1>6, <2>1 DEF RInv, JobsOK, Sound
  <2> HIDE DEF job
  <2> QED BY <1>2, <1>4, <1>6, <2>1, <2>2, <2>3, MoveOn
<1>7. ASSUME FirstRenew(k) PROVE JobsOK' /\ QueuesOK'
  <2>1. PICK phase \in {"releasing", "waiting"} : jobs' = RenewedJob(k, phase)
    BY <1>7 DEF FirstRenew
  <2>2. phase \in Dispatched
    BY DEF Dispatched, Executing, Ending
  <2> QED BY <1>6, <1>7, <2>1, <2>2 DEF FirstRenew
<1>8. ASSUME KeepAlive(k) PROVE JobsOK' /\ QueuesOK'
  BY <1>6, <1>8 DEF KeepAlive, Dispatched, Executing
<1>9. ASSUME UnheardRenewal(k) PROVE JobsOK' /\ QueuesOK'
  <2>1. "releasing" \in Phases \ {"observed"}
    BY DEF Phases, Dispatched, Ending
  <2>2. jobs[k].phase # "queued" /\ Goto(k, "releasing")
    BY <1>9 DEF UnheardRenewal, Executing
  <2> QED BY <1>2, <1>4, <2>1, <2>2, MoveTo
<1> QED BY <1>3, <1>4, <1>7, <1>8, <1>9 DEF RInv

\* A job that ends gives back the claim it was handed, or nothing.
LEMMA GiveBackStep ==
  ASSUME RInv, NEW k \in Key, Alive(k), GiveBack(k) \/ Die(k)
  PROVE  RInv' /\ [Next]_vars
<1>1. jobs[k].claim \in held
  BY DEF RInv, JobsOK, Sound
<1>2. Release(jobs[k].claim) \/ UNCHANGED vars
  BY DEF GiveBack, Die, GivesUp
<1>3. [Next]_vars
  BY <1>1, <1>2 DEF Next
<1>4. IInv' /\ held' = held
  BY <1>1, <1>2, <1>3, NextFence DEF RInv, Release, vars
<1>5. JobsOK' /\ QueuesOK'
  BY <1>4, MoveOut, DyingJob DEF GiveBack, Die, Is
<1> QED BY <1>3, <1>4, <1>5 DEF RInv

\* When the request for a pass is interrupted its jobs are abandoned.
LEMMA InterruptPassStep ==
  ASSUME RInv, NEW w \in Worker, InterruptPass(w)
  PROVE  RInv' /\ UNCHANGED vars
<1>1. UNCHANGED vars /\ UNCHANGED <<up, queue, chunk>>
  BY DEF InterruptPass
<1>2. IInv' /\ held' = held
  BY <1>1, StutterFence DEF RInv, vars
<1>3. jobs' = [k \in Key |-> IF k \in PassJobs(w) THEN Abandoned(jobs[k]) ELSE jobs[k]]
  BY DEF InterruptPass
<1>4. \A k \in PassJobs(w) : Alive(k)
  BY DEF PassJobs, JobsOf
<1>5. JobsOK' /\ QueuesOK'
  BY <1>1, <1>2, <1>3, <1>4, MoveSome
<1> QED BY <1>1, <1>2, <1>5 DEF RInv

\* The job that stored an attempt, heard or not, goes on with its next ordinal.
LEMMA AttemptedJob ==
  ASSUME RInv, NEW k \in Key, Alive(k), NEW decision \in Decisions(k),
         NEW t \in WorkerClock, NEW delay \in RetryDelays,
         StoreAttempt(k, decision, t, delay) \/ UnheardAttempt(k, decision, t, delay),
         [jobs[k].claim EXCEPT !.ordinal = @ + 1] \in Claim
  PROVE  \E job \in Job : /\ jobs' = [jobs EXCEPT ![k] = job]
                          /\ job.claim = [jobs[k].claim EXCEPT !.ordinal = @ + 1]
                          /\ job.phase # "observed"
<1> DEFINE c == jobs[k].claim
           after == [c EXCEPT !.ordinal = @ + 1]
<1>1. jobs[k] \in Job /\ jobs[k].phase = "observed"
  BY DEF RInv, JobsOK, StoreAttempt, UnheardAttempt, Is, Alive
<1>2. after \in Claim /\ c \in Claim
  BY <1>1 DEF Job
<1> DEFINE phase == PhaseAfter(decision)
           wakeAt == WakeAfter(decision, delay)
           kept == [jobs[k] EXCEPT !.phase = phase, !.claim = after,
                                   !.spent = @ + 1, !.wakeAt = wakeAt]
           lost == [kept EXCEPT !.phase = "releasing"]
<1>3. wakeAt \in Nat \cup {NULL}
  BY TableAssumption DEF RInv, IInv, TypeOK, WakeAfter
<1>4. phase \in Phases \ {"observed"} /\ "releasing" \in Phases \ {"observed"}
  BY DEF Phases, Dispatched, Executing, Ending, PhaseAfter
<1>5. Attempted(k, decision, delay) = [jobs EXCEPT ![k] = kept]
  BY <1>1, <1>2 DEF Attempted, Job, Claim, RInv, JobsOK
<1> HIDE DEF wakeAt, phase, after
<1>6. kept \in Job /\ kept.claim = after /\ kept.phase = phase
  <2>1. jobs[k].spent + 1 \in Nat
    BY <1>1 DEF Job
  <2> QED BY <1>1, <1>2, <1>3, <1>4, <2>1 DEF Job
<1>7. lost \in Job /\ lost.claim = after /\ lost.phase = "releasing"
  BY <1>4, <1>6 DEF Job
<1> HIDE DEF kept
<1>8. CASE StoreAttempt(k, decision, t, delay)
  BY <1>4, <1>5, <1>6, <1>8 DEF StoreAttempt, after
<1>9. CASE UnheardAttempt(k, decision, t, delay)
  <2>1. jobs' = [[jobs EXCEPT ![k] = kept] EXCEPT ![k].phase = "releasing"]
    BY <1>5, <1>9 DEF UnheardAttempt
  <2>2. jobs' = [jobs EXCEPT ![k] = lost]
    BY <2>1 DEF RInv, JobsOK
  <2> HIDE DEF lost
  <2> QED BY <1>7, <2>2 DEF after
<1> QED BY <1>8, <1>9

\* An attempt, heard or not, is recorded under the claim of the job, with the outcome
\* it observed; the claim the job goes on with is the one that replaces it.
LEMMA RecordStep ==
  ASSUME RInv, NEW k \in Key, Alive(k), NEW decision \in Decisions(k),
         NEW t \in WorkerClock, NEW delay \in RetryDelays,
         StoreAttempt(k, decision, t, delay) \/ UnheardAttempt(k, decision, t, delay)
  PROVE  RInv' /\ Next
<1> DEFINE c == jobs[k].claim
           after == [c EXCEPT !.ordinal = @ + 1]
<1>1. /\ c \in held /\ jobs[k] \in Job /\ k = <<c.delivery, c.generation>>
      /\ jobs[k].phase = "observed" /\ jobs[k].outcome \in Outcomes
  BY DEF RInv, JobsOK, Sound, StoreAttempt, UnheardAttempt, Is
<1>2. /\ Record(c, jobs[k].outcome, decision, t + delay)
      /\ UNCHANGED <<up, queue, chunk>>
  BY DEF StoreAttempt, UnheardAttempt
<1>3. decision \in AttemptDecisions
  BY DEF Decisions, Decision, AttemptDecisions
<1>4. t + delay \in DueTimes
  BY DEF DueTimes
<1>5. Next
  BY <1>1, <1>2, <1>3, <1>4 DEF Next
<1>6. IInv'
  BY <1>5, NextFence DEF RInv
<1>7. held' = (held \ {c}) \cup {after}
  BY <1>2 DEF Record
<1>8. after \in Claim /\ c \in Claim
  BY <1>1, <1>6, <1>7 DEF RInv, IInv, TypeOK
<1>9. after.delivery = c.delivery /\ after.generation = c.generation
  BY <1>8 DEF Claim
<1>10. PICK job \in Job :
         /\ jobs' = [jobs EXCEPT ![k] = job]
         /\ job.claim = after /\ job.phase # "observed"
  BY <1>8, AttemptedJob
<1> HIDE DEF after
<1>11. \A e \in held : e \in held' \/ k = <<e.delivery, e.generation>>
  BY <1>1, <1>7
<1>12. Sound(k, job, held')
  BY <1>1, <1>7, <1>9, <1>10 DEF Sound
<1>13. JobsOK'
  BY <1>2, <1>10, <1>11, <1>12, OneJobMoves DEF RInv
<1>14. ~Is(k, {"queued"})
  BY <1>1 DEF Is
<1>15. QueuesOK'
  BY <1>2, <1>10, <1>14, QueuesStayForOne DEF RInv
<1> QED BY <1>5, <1>6, <1>13, <1>15 DEF RInv

\* Pulling and dispatching move jobs between queue, chunk and dispatcher only.
LEMMA StreamStep ==
  ASSUME RInv, NEW w \in Worker, Pull(w) \/ Dispatch(w)
  PROVE  RInv' /\ UNCHANGED vars
<1>1. UNCHANGED vars
  BY DEF Pull, Dispatch
<1>2. IInv' /\ held' = held
  BY <1>1, StutterFence DEF RInv, vars
<1>3. ASSUME Pull(w) PROVE JobsOK' /\ QueuesOK'
  <2>1. JobsOK'
    BY <1>2, <1>3 DEF Pull, RInv, JobsOK, Alive, Sound
  <2> QED BY <1>3, <2>1, PullQueues DEF RInv
<1>4. ASSUME Dispatch(w) PROVE JobsOK' /\ QueuesOK'
  <2>1. Head(chunk[w]) \in Key /\ Alive(Head(chunk[w])) /\ QueuesOK'
    BY <1>4, DispatchQueues DEF RInv
  <2>2. "starting" \in Phases \ {"observed"}
    BY DEF Phases, Dispatched
  <2>3. JobsOK'
    BY <1>2, <1>4, <2>1, <2>2, GotoJobsOK DEF Dispatch, RInv
  <2> QED BY <2>1, <2>3
<1> QED BY <1>1, <1>2, <1>3, <1>4 DEF RInv

\* Steps of the tables alone keep the memory of the processes as it is.
LEMMA OutsideStep ==
  ASSUME RInv, RelayTick \/ (\E d \in Delivery : Recover(d)) \/ UNCHANGED relayVars
  PROVE  RInv' /\ [Next]_vars
<1>1. [Next]_vars
  BY DEF RelayTick, Recover, Next, relayVars, vars
<1>2. IInv'
  BY <1>1, NextFence DEF RInv
<1>3. UNCHANGED <<up, queue, chunk, jobs, held>>
  BY DEF RelayTick, Advance, Recover, Operate, relayVars
<1>4. JobsOK' /\ QueuesOK'
  BY <1>3 DEF RInv, JobsOK, QueuesOK, Alive, Sound, In, JobsOf, Process
<1> QED BY <1>1, <1>2, <1>4 DEF RInv

\* What one job does.
LEMMA JobStepRInv ==
  ASSUME RInv, NEW k \in Key, Alive(k), JobStep(k)
  PROVE  RInv' /\ [Next]_vars
BY SilentStep, RenewalStep, GiveBackStep, RecordStep DEF JobStep

\* Every step of the relay keeps the invariant and is one of the repository, or none.
LEMMA RelayStep ==
  ASSUME RInv, [RelayNext]_relayVars
  PROVE  RInv' /\ [Next]_vars
<1>1. ASSUME NEW w \in Worker, NEW d \in Delivery, NEW from \in {"accept", "deliver"},
             TakeIn(w, d, from)
      PROVE  RInv' /\ [Next]_vars
  BY <1>1, TakeInStep
<1>2. ASSUME NEW w \in Worker, NEW from \in {"poll", "manual"}, Poll(w, from)
      PROVE  RInv' /\ [Next]_vars
  BY <1>2, PollStep
<1>3. ASSUME NEW w \in Worker, Pull(w) \/ Dispatch(w) PROVE RInv' /\ [Next]_vars
  BY <1>3, StreamStep
<1>4. ASSUME NEW w \in Worker, Crash(w) PROVE RInv' /\ [Next]_vars
  <2>1. UNCHANGED vars
    BY <1>4 DEF Crash
  <2> QED BY <1>4, <2>1, StutterFence, CrashKeepsQueuesAndJobs DEF RInv
<1>7. ASSUME NEW w \in Worker, InterruptPass(w) PROVE RInv' /\ [Next]_vars
  BY <1>7, InterruptPassStep
<1>5. ASSUME NEW k \in Key, Alive(k), JobStep(k) PROVE RInv' /\ [Next]_vars
  BY <1>5, JobStepRInv
<1>6. ASSUME \/ \E d \in Delivery : Recover(d)
             \/ RelayTick
             \/ UNCHANGED relayVars
      PROVE  RInv' /\ [Next]_vars
  BY <1>6, OutsideStep
<1> QED BY <1>1, <1>2, <1>3, <1>4, <1>5, <1>6, <1>7 DEF RelayNext, Work

\* The memory of every process stays sound.
THEOREM RelayInductive == RelaySpec => []RInv
<1>1. RInv /\ [RelayNext]_relayVars => RInv'
  BY RelayStep
<1> QED BY <1>1, InitRInv, PTL DEF RelaySpec

\* The relay uses the store only as its repository allows: every behaviour of the
\* processes is, seen from the tables and claims, a behaviour of DeliveryRepository.
THEOREM RelayKeeps == RelaySpec => KeepsToRepository
<1>1. RelayInit => Init
  BY DEF RelayInit
<1>2. RInv /\ [RelayNext]_relayVars => [Next]_vars
  BY RelayStep
<1> QED BY <1>1, <1>2, RelayInductive, PTL DEF RelaySpec, Spec, KeepsToRepository

\* Whatever processes, queues and crashes do, one claim of a delivery passes the fence.
THEOREM RelayOneLiveClaim == RelaySpec => []OneLiveClaim
<1>1. KeepsToRepository <=> Spec
  BY DEF KeepsToRepository
<1> QED BY <1>1, RelayKeeps, AtMostOneLiveClaim, PTL

\* Processes that share nothing but the tables keep the promise of the storage services
\* together: one holder at a time, new terms, histories that only grow, final states.
THEOREM RelayStore == RelaySpec => ImplementsStore
<1>1. KeepsToRepository <=> Spec
  BY DEF KeepsToRepository
<1> QED BY <1>1, RelayKeeps, Implements, PTL

\* No process takes a delivery over before its retry is due or under a running lease,
\* whichever jobs are delayed, cancelled or lost.
THEOREM RelayTakeoversInTime == Completions = {} /\ RelaySpec => TakeoverInTime
<1>1. KeepsToRepository <=> Spec
  BY DEF KeepsToRepository
<1> QED BY <1>1, RelayKeeps, TakeoversInTime, PTL

\* What the relay delivered, rejected or terminated it never changes again.
THEOREM RelayFinal == RelaySpec => FinalIsFinal
<1>1. KeepsToRepository <=> Spec
  BY DEF KeepsToRepository
<1> QED BY <1>1, RelayKeeps, FinalStays, PTL

\* Whatever processes do to each other's jobs, a history is written claim after claim, an
\* answer that delivers or rejects ends it, and every closed row has its reason there.
THEOREM RelayHistories ==
  Completions = {} /\ RelaySpec => [](AttemptsInOrder /\ StatesTold)
<1>1. KeepsToRepository <=> Spec
  BY DEF KeepsToRepository
<1> QED BY <1>1, RelayKeeps, HistoryInOrder, StatesAreTold, PTL

-------------------------------------------------------------------------------
(* Published results are stored.                                           *)

\* No statement deletes or changes an attempt.
LEMMA AttemptsOnlyGrow ==
  ASSUME [Next]_vars
  PROVE  attempts \subseteq attempts'
BY DEF Next, vars, Intake, InsertClaimed, SaveUnclaimed, Save, Reconcile, TakeBatch,
       ClaimPending, Renew, RenewClaim, Release, ReleaseClaim, Complete, CompleteClaim,
       Record, RecordAttempt, Operate, RetryDeadLetter, RepairDeadLetter,
       TerminateDeadLetter, Advance, Tick

\* A job is about to publish because it was before, or because it just stored the last
\* attempt of its claim.
LEMMA ReachesPublishing ==
  ASSUME RInv, [RelayNext]_relayVars, NEW k \in Key, Is(k, {"publishing"})'
  PROVE  \/ /\ Is(k, {"publishing"})
            /\ jobs'[k].claim = jobs[k].claim /\ jobs'[k].outcome = jobs[k].outcome
         \/ \E decision \in Decisions(k) \ {"RetryScheduled"},
               t \in WorkerClock, delay \in RetryDelays :
              StoreAttempt(k, decision, t, delay)
<1> DEFINE Same == jobs'[k] = jobs[k]
           Kept == /\ Is(k, {"publishing"})
                   /\ jobs'[k].claim = jobs[k].claim /\ jobs'[k].outcome = jobs[k].outcome
           Stores == \E decision \in Decisions(k) \ {"RetryScheduled"},
                        t \in WorkerClock, delay \in RetryDelays :
                       StoreAttempt(k, decision, t, delay)
<1>1. Same => Kept
  BY DEF Is, Alive
<1>2. jobs \in [Key -> Job \cup {NULL}] /\ jobs'[k] # NULL /\ jobs'[k].phase = "publishing"
  BY DEF RInv, JobsOK, Is, Alive
<1>3. ASSUME NEW w \in Worker, NEW d \in Delivery, NEW from \in {"accept", "deliver"},
             TakeIn(w, d, from)
      PROVE  Same
  BY <1>2, <1>3 DEF TakeIn, NewJob
<1>4. ASSUME NEW w \in Worker, NEW from \in {"poll", "manual"}, Poll(w, from)
      PROVE  Same
  BY <1>2, <1>4, PollParts DEF Polled, NewJob
<1>5. ASSUME NEW w \in Worker, Pull(w) \/ Crash(w) PROVE Same
  BY <1>2, <1>5 DEF Pull, Crash
<1>a. Alive(k) => jobs'[k] # Abandoned(jobs[k])
  BY <1>2, AbandonedJob, "publishing" \notin {"queued", "starting"} \cup Ending
     DEF Alive, Ending
<1>b. ASSUME NEW w \in Worker, InterruptPass(w) PROVE Same
  BY <1>a, <1>b DEF InterruptPass, PassJobs, JobsOf
<1>6. ASSUME NEW w \in Worker, Dispatch(w) PROVE Same
  <2>1. Head(chunk[w]) \in Key /\ Alive(Head(chunk[w]))
    BY <1>6, DispatchQueues DEF RInv
  <2>2. jobs' = [jobs EXCEPT ![Head(chunk[w])] =
                   [jobs[Head(chunk[w])] EXCEPT !.phase = "starting"]]
    BY <1>6 DEF Dispatch, Goto
  <2>3. [jobs[Head(chunk[w])] EXCEPT !.phase = "starting"].phase = "starting"
    BY <1>2, <2>1 DEF Alive, Job
  <2> QED BY <1>2, <2>1, <2>2, <2>3
<1>c. ASSUME NEW j \in Key, Dies(j) PROVE Same
  BY <1>2, <1>a, <1>c DEF Dies, PassJobs, JobsOf
<1>7. ASSUME NEW j \in Key, Alive(j), JobStep(j), j # k PROVE Same
  <2>1. CASE Die(j) \/ StatementFails(j)
    BY <1>2, <1>7, <1>c, <2>1 DEF Die, StatementFails, Goto, End
  <2>2. CASE ~(Die(j) \/ StatementFails(j))
    BY <1>2, <1>7, <2>2
       DEF JobStep, Offer, OfferRefused, FirstRenew, KeepAlive, RenewRefused, GiveBack,
           Send, Answer, StoreAttempt, AttemptRefused, AttemptThrows, Wake, Publish,
           Interrupt, UnheardRenewal, UnheardAttempt, Goto, End, RenewedJob, Attempted
  <2> QED BY <2>1, <2>2
<1>8. ASSUME Alive(k), JobStep(k) PROVE Kept \/ Stores
  <2>1. jobs[k] \in Job
    BY <1>2, <1>8 DEF Alive
  <2>2. ASSUME NEW phase \in Phases, Goto(k, phase) PROVE phase = "publishing"
    <3>1. jobs'[k] = [jobs[k] EXCEPT !.phase = phase]
      BY <1>2, <2>2 DEF Goto
    <3> QED BY <1>2, <2>1, <3>1 DEF Job
  <2>3. ~End(k)
    BY <1>2 DEF End
  <2>4. {"queued", "rejected", "releasing", "dying", "sending"} \subseteq Phases
    BY DEF Phases, Dispatched, Executing, Ending
  <2>a. ~Dies(k)
    BY <1>2 DEF Dies
  <2>5. ~(\/ Offer(k) \/ OfferRefused(k) \/ RenewRefused(k) \/ GiveBack(k) \/ Die(k)
          \/ Send(k) \/ AttemptRefused(k) \/ AttemptThrows(k) \/ Publish(k)
          \/ StatementFails(k) \/ UnheardRenewal(k))
    BY <2>2, <2>3, <2>4, <2>a
       DEF Offer, OfferRefused, RenewRefused, GiveBack, Die, Send, AttemptRefused,
           AttemptThrows, Publish, StatementFails, UnheardRenewal
  <2>6. ASSUME NEW outcome \in Outcomes, Answer(k, outcome) PROVE FALSE
    BY <1>2, <2>1, <2>6 DEF Answer, Job
  <2>7. ASSUME Wake(k) PROVE FALSE
    BY <1>2, <2>1, <2>7 DEF Wake, Job
  <2>8. ASSUME FirstRenew(k) PROVE FALSE
    BY <1>2, <2>1, <2>8 DEF FirstRenew, RenewedJob, Job
  <2>9. ASSUME KeepAlive(k) PROVE Kept
    <3>1. jobs'[k] = [jobs[k] EXCEPT !.phase = jobs[k].phase,
                                     !.renewAt = now + RenewInterval]
      BY <1>2, <2>9 DEF KeepAlive, RenewedJob
    <3> QED BY <1>2, <1>8, <2>1, <3>1 DEF Job, Is
  <2>10. ASSUME Interrupt(k) PROVE FALSE
    BY <1>2, <1>8, <1>a, <2>10 DEF Interrupt
  <2>11. ASSUME NEW decision \in Decisions(k), NEW t \in WorkerClock,
                NEW delay \in RetryDelays, StoreAttempt(k, decision, t, delay)
         PROVE  Stores
    <3>1. decision # "RetryScheduled"
      BY <1>2, <2>1, <2>11 DEF StoreAttempt, Attempted, Job
    <3> QED BY <2>11, <3>1
  <2>12. ASSUME NEW decision \in Decisions(k), NEW t \in WorkerClock,
                NEW delay \in RetryDelays, UnheardAttempt(k, decision, t, delay)
         PROVE  FALSE
    BY <1>2, <2>1, <2>12 DEF UnheardAttempt, Attempted, Job
  <2> HIDE DEF Kept, Stores
  <2> QED BY <1>8, <2>5, <2>6, <2>7, <2>8, <2>9, <2>10, <2>11, <2>12 DEF JobStep
<1>9. ASSUME \/ \E d \in Delivery : Recover(d)
             \/ RelayTick
             \/ UNCHANGED relayVars
      PROVE  Same
  BY <1>9 DEF Recover, RelayTick, relayVars
<1> HIDE DEF Same, Kept, Stores
<1>10. Kept \/ Stores
  BY <1>1, <1>3, <1>4, <1>5, <1>6, <1>7, <1>8, <1>9, <1>b DEF RelayNext, Work
<1> QED BY <1>10 DEF Kept, Stores

\* The stored truth behind a result: the attempt that ends the claim, and the state a
\* final answer gave the delivery.
StoredResult(k) ==
  /\ \E a \in attempts : /\ a.delivery = k[1] /\ a.generation = k[2]
                         /\ a.ordinal = jobs[k].claim.ordinal - 1
                         /\ a.outcome = jobs[k].outcome
                         /\ a.decision # "RetryScheduled"
  /\ jobs[k].outcome \in {"Delivered", "Rejected"} => State(k[1]) = jobs[k].outcome

\* Storing the last attempt of a claim puts that truth in place.
LEMMA StoringStores ==
  ASSUME RInv, NEW k \in Key, NEW decision \in Decisions(k) \ {"RetryScheduled"},
         NEW t \in WorkerClock, NEW delay \in RetryDelays, StoreAttempt(k, decision, t, delay)
  PROVE  StoredResult(k)'
<1> DEFINE c == jobs[k].claim
           outcome == jobs[k].outcome
           row == AttemptRow(c, outcome, decision, t + delay)
           job == [jobs[k] EXCEPT !.phase = "publishing", !.claim.ordinal = @ + 1,
                                  !.spent = @ + 1, !.wakeAt = NULL]
<1>1. /\ Alive(k) /\ jobs[k] \in Job /\ jobs \in [Key -> Job \cup {NULL}]
      /\ outcome \in Outcomes /\ c \in held /\ k = <<c.delivery, c.generation>>
  BY DEF RInv, JobsOK, Sound, StoreAttempt, Is
<1>2. RecordAttempt(c, outcome, decision, t + delay)
  BY DEF StoreAttempt, Record
<1>3. jobs'[k] = job
  BY <1>1 DEF StoreAttempt, Attempted, PhaseAfter, WakeAfter
<1>4. c \in Claim /\ c.ordinal \in Nat
  BY <1>1, TableAssumption DEF RInv, IInv, TypeOK, Claim
<1>5. job.claim.ordinal = c.ordinal + 1 /\ job.outcome = outcome
  BY <1>1, <1>4 DEF Job, Claim
<1>6. /\ row \in attempts' /\ row.delivery = k[1] /\ row.generation = k[2]
      /\ row.ordinal = c.ordinal /\ row.outcome = outcome /\ row.decision = decision
  BY <1>1, <1>2 DEF RecordAttempt, AttemptRow
<1>7. ASSUME outcome \in {"Delivered", "Rejected"}
      PROVE  deliveries'[k[1]].standing.state = outcome
  <2>1. decision = "Terminal"
    BY <1>7 DEF Decisions, Decision, IsRetryable
  <2>2. deliveries[c.delivery] \in Row /\ c.delivery \in Delivery
    BY <1>1, <1>2, <1>4, OwnedRow DEF RecordAttempt, Fenced, RInv, IInv, Claim
  <2>3. deliveries'[c.delivery] = AfterAttempt(deliveries[c.delivery], outcome, decision, t + delay)
    BY <1>2, <2>2 DEF RecordAttempt, RInv, IInv, TypeOK
  <2>4. deliveries'[c.delivery].standing =
          SqlState(AttemptRecord(outcome, Status, decision, 0, 0, 0),
                   deliveries[c.delivery].standing)
    BY <2>2, <2>3 DEF AfterAttempt, Row
  <2>5. deliveries'[c.delivery].standing.state = outcome
    BY <1>7, <2>1, <2>4 DEF SqlState, AttemptRecord
  <2> QED BY <1>1, <2>5
<1> HIDE DEF row, job
<1>8. row.ordinal = jobs'[k].claim.ordinal - 1
  BY <1>3, <1>4, <1>5, <1>6
<1> QED BY <1>3, <1>5, <1>6, <1>7, <1>8 DEF StoredResult, State

\* Nobody is told a result the tables do not hold.
THEOREM PublishedIsStored == RelaySpec => []ResultsAreStored
<1>1. RelayInit => ResultsAreStored
  BY DEF RelayInit, ResultsAreStored, Is, Alive
<1>2. ASSUME RInv, ResultsAreStored, [RelayNext]_relayVars, NEW k \in Key,
             Is(k, {"publishing"})'
      PROVE  StoredResult(k)'
  <2>1. [Next]_vars
    BY <1>2, RelayStep
  <2>2. ASSUME NEW decision \in Decisions(k) \ {"RetryScheduled"}, NEW t \in WorkerClock,
               NEW delay \in RetryDelays, StoreAttempt(k, decision, t, delay)
        PROVE  StoredResult(k)'
    BY <1>2, <2>2, StoringStores
  <2>3. CASE /\ Is(k, {"publishing"})
             /\ jobs'[k].claim = jobs[k].claim /\ jobs'[k].outcome = jobs[k].outcome
    <3>1. StoredResult(k)
      BY <1>2, <2>3 DEF ResultsAreStored, StoredResult
    <3>2. attempts \subseteq attempts'
      BY <2>1, AttemptsOnlyGrow
    <3>3. ASSUME jobs[k].outcome \in {"Delivered", "Rejected"}
          PROVE  State(k[1])' = jobs[k].outcome
      <4>1. k[1] \in Delivery
        BY DEF Key
      <4>2. Exists(k[1])
        BY <1>2, <2>3, NoJobAhead DEF Is
      <4>3. Final(k[1])
        BY <3>1, <3>3, <4>2 DEF StoredResult, Final
      <4>4. deliveries'[k[1]] = deliveries[k[1]]
        BY <1>2, <2>1, <4>1, <4>3, StepKeepsFinal DEF RInv, IInv
      <4> QED BY <3>1, <3>3, <4>4 DEF StoredResult, State
    <3> QED BY <2>3, <3>1, <3>2, <3>3 DEF StoredResult
  <2> QED BY <1>2, <2>2, <2>3, ReachesPublishing
<1>3. RInv /\ ResultsAreStored /\ [RelayNext]_relayVars => ResultsAreStored'
  BY <1>2 DEF ResultsAreStored, StoredResult
<1> QED BY <1>1, <1>3, RelayInductive, PTL DEF RelaySpec

===============================================================================
