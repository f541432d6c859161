-------------------------- MODULE JobService_proofs --------------------------
(***************************************************************************)
(* Proofs about JobService, for every number of streams, clients, workers, *)
(* candidates and jobs, every verdict function and every limit.            *)
(***************************************************************************)
EXTENDS JobService, TLAPS

-----------------------------------------------------------------------------
(* What the row operators return. *)

(* Clearing the lease touches nothing but state, owner and deadline. *)
LEMMA ReleasedRow ==
  ASSUME NEW r \in Job, NEW st \in Pending \cup Terminal
  PROVE  LET q == Released(r, st) IN
         /\ q \in Job
         /\ q.state = st /\ q.owner = None /\ q.lease = "none"
         /\ q.fence = r.fence /\ q.attempt = r.attempt
         /\ q.stream = r.stream /\ q.rev = r.rev /\ q.cand = r.cand
         /\ q.trust = r.trust /\ q.pred = r.pred /\ q.round = r.round
BY DEF Released, Job, Pending, Terminal

(* Fencing a row is clearing its lease and burning its token. *)
LEMMA FencedRow ==
  ASSUME NEW r \in Job, NEW st \in Pending \cup Terminal
  PROVE  LET q == Fenced(r, st) IN
         /\ q \in Job
         /\ q.state = st /\ q.owner = None /\ q.lease = "none"
         /\ q.fence = r.fence + 1 /\ q.attempt = r.attempt
         /\ q.stream = r.stream /\ q.rev = r.rev /\ q.cand = r.cand
         /\ q.trust = r.trust /\ q.pred = r.pred /\ q.round = r.round
<1> DEFINE p == Released(r, st)
<1>1. /\ p \in Job /\ p.state = st /\ p.owner = None /\ p.lease = "none"
      /\ p.fence = r.fence /\ p.attempt = r.attempt
      /\ p.stream = r.stream /\ p.rev = r.rev /\ p.cand = r.cand
      /\ p.trust = r.trust /\ p.pred = r.pred /\ p.round = r.round
  BY ReleasedRow
<1>2. Fenced(r, st) = [p EXCEPT !.fence = @ + 1]
  BY DEF Fenced
<1> HIDE DEF p
<1> QED BY <1>1, <1>2 DEF Job

LEMMA BlankRow == Blank \in Job
<1>1. PICK s \in Streams, c \in Candidates : TRUE
  BY ConstantsAssumption
<1>2. Blank.stream \in Streams /\ Blank.cand \in Candidates
  BY <1>1 DEF Blank
<1> QED BY <1>2, ConstantsAssumption DEF Blank, Job

LEMMA NewJobRow ==
  ASSUME NEW q \in Request
  PROVE  /\ NewJob(q) \in Job
         /\ NewJob(q).state = "QUEUED" /\ NewJob(q).owner = None
         /\ NewJob(q).lease = "none" /\ NewJob(q).fence = 0
         /\ NewJob(q).attempt = 0
         /\ NewJob(q).stream = q.stream /\ NewJob(q).rev = q.rev
         /\ NewJob(q).cand = q.cand /\ NewJob(q).trust = q.trust
         /\ NewJob(q).pred = q.pred /\ NewJob(q).round = q.round
BY BlankRow, ZenonT(40) DEF NewJob, Job, Request, Pending, Blank

LEMMA RecoveredRow ==
  ASSUME NEW r \in Job
  PROVE  Recovered(r) \in Job
BY ReleasedRow, FencedRow DEF Recovered, Pending, Terminal

(* Marking a set of jobs stale keeps the shape of the table. *)
LEMMA MarkStaleRows ==
  ASSUME NEW f \in [Jobs -> Job], NEW S
  PROVE  /\ MarkStale(f, S) \in [Jobs -> Job]
         /\ \A j \in Jobs : MarkStale(f, S)[j] = IF j \in S THEN Fenced(f[j], "STALE") ELSE f[j]
<1>1. \A j \in Jobs : Fenced(f[j], "STALE") \in Job
  BY FencedRow DEF Terminal
<1> QED BY <1>1 DEF MarkStale

-----------------------------------------------------------------------------
(* The shape of a step: what it can do to one job row and to one worker.   *)

Inserted(j) ==
  /\ j = created + 1 /\ created' = j
  /\ \E c \in Clients :
       /\ client[c].pc = "checked"
       /\ EdgeFree(client[c].pred)
       /\ job'[j] = NewJob(client[c])

LeasedOut(j) ==
  /\ job[j].state = "QUEUED"
  /\ \E w \in Workers : job'[j] = Granted(job[j], w)

Scoring(j) ==
  /\ job[j].state = "FILTERING"
  /\ job'[j] = [job[j] EXCEPT !.state = "SCORING"]
  /\ \E w \in Workers : Advance(w) /\ wk[w].job = j

Renewed(j) ==
  /\ job[j].owner # None
  /\ job'[j] = [job[j] EXCEPT !.lease = "live"]

RanOut(j) ==
  /\ job[j].lease = "live"
  /\ job'[j] = [job[j] EXCEPT !.lease = "expired"]

Stopped(j) ==
  /\ IsPending(j)
  /\ \E st \in {"STALE", "CANCELLED"} : job'[j] = Fenced(job[j], st)

Decided(j) ==
  /\ job[j].state \notin Terminal /\ job[j].owner # None
  /\ \E st \in {"ACCEPTED", "REJECTED", "FAILED"} :
       /\ job'[j] = Released(job[j], st)
       /\ st = "ACCEPTED" => \E w \in Workers : FinishAccept(w) /\ wk[w].job = j

Requeued(j) ==
  /\ job[j].state \in Leased
  /\ job'[j] = Recovered(job[j])

RowStep(j) ==
  \/ job'[j] = job[j]
  \/ Inserted(j) \/ LeasedOut(j) \/ Scoring(j) \/ Renewed(j) \/ RanOut(j)
  \/ Stopped(j) \/ Decided(j) \/ Requeued(j)

(* A worker past Lease is there with the token it had, or has just been    *)
(* handed the token that is in the row.                                    *)
WorkStep(w) ==
  \/ wk'[w].pc \notin LeasePcs
  \/ /\ wk[w].pc \in LeasePcs
     /\ wk'[w].job = wk[w].job /\ wk'[w].fence = wk[w].fence
  \/ LET r == job'[wk'[w].job] IN
     r.state = "FILTERING" /\ r.owner = w /\ r.fence = wk'[w].fence

Shape ==
  /\ TypeOK'
  /\ created <= created'
  /\ \A j \in Jobs : RowStep(j)
  /\ \A w \in Workers : WorkStep(w)

LEMMA InitType == Init => TypeOK
<1> SUFFICES ASSUME Init PROVE TypeOK
  OBVIOUS
<1>1. Blank \in Job /\ Blank.state = "NONE" /\ Blank.stream \in Streams /\ Blank.cand \in Candidates
  BY BlankRow DEF Blank, Job
<1>2. stream \in [Streams -> StreamRow]
  BY DEF Init, StreamRow
<1>3. releases \in SUBSET Release
  BY ConstantsAssumption DEF Init, GenesisRow, Release
<1>4. job \in [Jobs -> Job] /\ \A j \in Jobs : job[j].state = "NONE" /\ j > created
  BY <1>1 DEF Init, Jobs
<1>5. client \in [Clients -> Request]
  BY <1>1, ConstantsAssumption DEF Init, NoRequest, Request
<1>6. wk \in [Workers -> Work] /\ \A w \in Workers : wk[w].pc = "idle"
  BY ConstantsAssumption DEF Init, NoWork, Work
<1> QED BY <1>2, <1>3, <1>4, <1>5, <1>6, ConstantsAssumption DEF Init, TypeOK, LeasePcs

(* Steps that leave jobs and workers alone. *)
LEMMA QuietShape ==
  ASSUME TypeOK, TypeOK', created' = created, job' = job, wk' = wk
  PROVE  Shape
<1>1. created <= created'
  BY ConstantsAssumption DEF TypeOK
<1>2. \A w \in Workers : WorkStep(w)
  BY DEF WorkStep
<1> QED BY <1>1, <1>2 DEF Shape, RowStep

(* Steps that write one existing row. *)
LEMMA OneRowType ==
  ASSUME TypeOK, NEW j \in Jobs, NEW q \in Job, q.state # "NONE", job[j].state # "NONE",
         job' = [job EXCEPT ![j] = q]
  PROVE  /\ job' \in [Jobs -> Job]
         /\ job'[j] = q
         /\ \A i \in Jobs : i # j => job'[i] = job[i]
         /\ \A i \in Jobs : job'[i].state = "NONE" <=> i > created
BY DEF TypeOK

LEMMA SubmitCheckShape ==
  ASSUME TypeOK, NEW c \in Clients, SubmitCheck(c)
  PROVE  Shape
<1>1. PICK s \in Streams, cand \in Candidates, p \in 0..MaxJobs :
        client' = [client EXCEPT ![c] = RequestOf(s, cand, p)]
  BY DEF SubmitCheck
<1>2. (IF p = 0 THEN 1 ELSE job[p].round + 1) \in Nat
  <2>1. CASE p = 0
    BY <2>1
  <2>2. CASE p # 0
    <3>1. job[p] \in Job
      BY <2>2, ConstantsAssumption DEF TypeOK, Jobs
    <3>2. job[p].round \in Nat
      BY <3>1 DEF Job
    <3> QED BY <2>2, <3>2
  <2> QED BY <2>1, <2>2
<1>3. stream[s].revision \in Nat /\ trust \in Nat
  BY DEF TypeOK, StreamRow
<1>4. client' \in [Clients -> Request]
  BY <1>1, <1>2, <1>3 DEF TypeOK, Request, RequestOf
<1> QED BY <1>4, QuietShape DEF SubmitCheck, TypeOK

LEMMA SubmitCommitShape ==
  ASSUME TypeOK, NEW c \in Clients, SubmitCommit(c)
  PROVE  Shape
<1> DEFINE n == created + 1
<1>1. n \in Jobs /\ created \in Nat /\ created' = n
  BY ConstantsAssumption DEF TypeOK, Jobs, SubmitCommit
<1>2. NewJob(client[c]) \in Job /\ NewJob(client[c]).state = "QUEUED"
  BY NewJobRow DEF TypeOK
<1>3. /\ job' \in [Jobs -> Job]
      /\ job'[n] = NewJob(client[c])
      /\ \A i \in Jobs : i # n => job'[i] = job[i]
  BY <1>1, <1>2 DEF TypeOK, SubmitCommit
<1>4. \A i \in Jobs : job'[i].state = "NONE" <=> i > created'
  BY <1>1, <1>2, <1>3 DEF TypeOK, Jobs
<1>5. client' \in [Clients -> Request]
  BY BlankRow, ConstantsAssumption DEF TypeOK, SubmitCommit, Request, NoRequest, Blank, Job
<1>6. TypeOK'
  BY <1>1, <1>3, <1>4, <1>5, ConstantsAssumption DEF TypeOK, SubmitCommit, Jobs
<1>7. \A j \in Jobs : RowStep(j)
  BY <1>1, <1>3 DEF RowStep, Inserted, SubmitCommit
<1> QED BY <1>1, <1>6, <1>7 DEF Shape, WorkStep, SubmitCommit

LEMMA SubmitAbortShape ==
  ASSUME TypeOK, NEW c \in Clients, SubmitAbort(c)
  PROVE  Shape
<1>1. client' \in [Clients -> Request]
  BY BlankRow, ConstantsAssumption DEF TypeOK, SubmitAbort, Request, NoRequest, Blank, Job
<1> QED BY <1>1, QuietShape DEF SubmitAbort, TypeOK

(* A step that leaves every worker alone and moves each row by RowStep.    *)
LEMMA RowsShape ==
  ASSUME TypeOK, TypeOK', created' = created, wk' = wk, \A j \in Jobs : RowStep(j)
  PROVE  Shape
<1>1. created <= created'
  BY ConstantsAssumption DEF TypeOK
<1>2. \A w \in Workers : WorkStep(w)
  BY DEF WorkStep
<1> QED BY <1>1, <1>2 DEF Shape

(* A step that drops the work of one worker and moves rows by RowStep.     *)
LEMMA DropShape ==
  ASSUME TypeOK, TypeOK', created' = created, NEW w \in Workers, Drop(w),
         \A j \in Jobs : RowStep(j)
  PROVE  Shape
<1>1. created <= created'
  BY ConstantsAssumption DEF TypeOK
<1>2. wk'[w].pc = "idle" /\ \A v \in Workers : v # w => wk'[v] = wk[v]
  BY DEF Drop, NoWork, TypeOK
<1>3. \A v \in Workers : WorkStep(v)
  BY <1>2 DEF WorkStep, LeasePcs
<1> QED BY <1>1, <1>3 DEF Shape

(* Dropping work keeps the workers well formed. *)
LEMMA DropType ==
  ASSUME TypeOK, NEW w \in Workers, Drop(w)
  PROVE  /\ wk' \in [Workers -> Work]
         /\ \A v \in Workers : wk'[v].pc \in LeasePcs \cup {"leasing"} => wk'[v].job \in 1..created
<1>1. NoWork \in Work /\ NoWork.pc = "idle"
  BY ConstantsAssumption DEF NoWork, Work
<1>2. wk'[w] = NoWork /\ \A v \in Workers : v # w => wk'[v] = wk[v]
  BY DEF Drop, TypeOK
<1>3. wk' \in [Workers -> Work]
  BY <1>1 DEF Drop, TypeOK
<1> QED BY <1>1, <1>2, <1>3 DEF TypeOK, LeasePcs

LEMMA CancelJobShape ==
  ASSUME TypeOK, NEW j \in Jobs, CancelJob(j)
  PROVE  Shape
<1>1. job[j] \in Job /\ job[j].state # "NONE"
  BY DEF TypeOK, CancelJob, IsPending, Pending
<1>2. Fenced(job[j], "CANCELLED") \in Job /\ Fenced(job[j], "CANCELLED").state = "CANCELLED"
  BY <1>1, FencedRow DEF Terminal
<1>3. /\ job' \in [Jobs -> Job]
      /\ job'[j] = Fenced(job[j], "CANCELLED")
      /\ \A i \in Jobs : i # j => job'[i] = job[i]
      /\ \A i \in Jobs : job'[i].state = "NONE" <=> i > created
  BY <1>1, <1>2, OneRowType DEF CancelJob
<1>4. TypeOK'
  BY <1>3 DEF TypeOK, CancelJob
<1>5. \A i \in Jobs : RowStep(i)
  BY <1>3 DEF RowStep, Stopped, CancelJob
<1> QED BY <1>4, <1>5, RowsShape DEF CancelJob

LEMMA LeaseExpiresShape ==
  ASSUME TypeOK, NEW j \in Jobs, LeaseExpires(j)
  PROVE  Shape
<1> DEFINE q == [job[j] EXCEPT !.lease = "expired"]
<1>1. job[j] \in Job
  BY DEF TypeOK
<1>2. q \in Job /\ q.state = job[j].state /\ job'[j] = q
  BY <1>1 DEF Job, LeaseExpires, TypeOK
<1>3. job' \in [Jobs -> Job] /\ \A i \in Jobs : i # j => job'[i] = job[i]
  BY <1>2 DEF LeaseExpires, TypeOK
<1>4. \A i \in Jobs : job'[i].state = job[i].state
  BY <1>2, <1>3
<1>5. TypeOK'
  BY <1>3, <1>4 DEF TypeOK, LeaseExpires
<1>6. \A i \in Jobs : RowStep(i)
  BY <1>2, <1>3 DEF RowStep, RanOut, LeaseExpires
<1> QED BY <1>5, <1>6, RowsShape DEF LeaseExpires

(* Marking pending jobs stale. *)
LEMMA StaleRows ==
  ASSUME TypeOK, NEW S, \A j \in S : j \in Jobs => IsPending(j)
  PROVE  /\ MarkStale(job, S) \in [Jobs -> Job]
         /\ \A j \in Jobs : MarkStale(job, S)[j].state = "NONE" <=> j > created
         /\ \A j \in Jobs :
              \/ MarkStale(job, S)[j] = job[j]
              \/ IsPending(j) /\ MarkStale(job, S)[j] = Fenced(job[j], "STALE")
         /\ \A j \in Jobs : j \notin S => MarkStale(job, S)[j] = job[j]
<1>1. /\ MarkStale(job, S) \in [Jobs -> Job]
      /\ \A j \in Jobs : MarkStale(job, S)[j] = IF j \in S THEN Fenced(job[j], "STALE") ELSE job[j]
  BY MarkStaleRows DEF TypeOK
<1>2. \A j \in S : j \in Jobs => job[j].state # "NONE"
  BY DEF IsPending, Pending
<1>3. \A j \in Jobs : Fenced(job[j], "STALE").state = "STALE"
  BY FencedRow DEF TypeOK, Terminal
<1> QED BY <1>1, <1>2, <1>3 DEF TypeOK

(* Pausing, resuming and accepting keep the stream rows well formed. *)
LEMMA StreamRows ==
  ASSUME NEW r \in StreamRow, NEW st \in {"ACTIVE", "PAUSED"}
  PROVE  Switched(r, st) \in StreamRow /\ HeadMoved(r) \in StreamRow
BY DEF Switched, HeadMoved, StreamRow

LEMMA PauseShape ==
  ASSUME TypeOK, NEW s \in Streams, PauseStream(s)
  PROVE  Shape
<1>1. stream' \in [Streams -> StreamRow]
  BY StreamRows DEF PauseStream, TypeOK
<1>2. \A j \in PendingOn(s) : j \in Jobs => IsPending(j)
  BY DEF PendingOn
<1>3. /\ job' \in [Jobs -> Job]
      /\ \A j \in Jobs : job'[j].state = "NONE" <=> j > created
      /\ \A j \in Jobs : \/ job'[j] = job[j]
                         \/ IsPending(j) /\ job'[j] = Fenced(job[j], "STALE")
  BY <1>2, StaleRows DEF PauseStream
<1>4. TypeOK'
  BY <1>1, <1>3 DEF PauseStream, TypeOK
<1>5. \A j \in Jobs : RowStep(j)
  BY <1>3 DEF RowStep, Stopped
<1> QED BY <1>4, <1>5, RowsShape DEF PauseStream

LEMMA ResumeShape ==
  ASSUME TypeOK, NEW s \in Streams, ResumeStream(s)
  PROVE  Shape
<1>1. stream' \in [Streams -> StreamRow]
  BY StreamRows DEF ResumeStream, TypeOK
<1>2. TypeOK'
  BY <1>1 DEF ResumeStream, TypeOK
<1> QED BY <1>2, QuietShape DEF ResumeStream

LEMMA RotateShape == ASSUME TypeOK, RotateTrust PROVE Shape
<1>1. TypeOK'
  BY DEF RotateTrust, TypeOK
<1> QED BY <1>1, QuietShape DEF RotateTrust

LEMMA GrantedRow ==
  ASSUME NEW r \in Job, NEW w \in Workers
  PROVE  LET q == Granted(r, w) IN
         /\ q \in Job
         /\ q.state = "FILTERING" /\ q.owner = w /\ q.lease = "live"
         /\ q.fence = r.fence + 1 /\ q.attempt = r.attempt + 1
         /\ q.stream = r.stream /\ q.rev = r.rev /\ q.cand = r.cand
         /\ q.trust = r.trust /\ q.pred = r.pred /\ q.round = r.round
<1> DEFINE a == r.attempt + 1
           f == r.fence + 1
<1>1. a \in Nat /\ f \in Nat
  BY DEF Job
<1>2. Granted(r, w) = [r EXCEPT !.state = "FILTERING", !.attempt = a, !.fence = f,
                                !.owner = w, !.lease = "live"]
  BY DEF Granted
<1> HIDE DEF a, f
<1>3. Granted(r, w) \in Job
  BY <1>1, <1>2, ZenonT(60) DEF Job, Pending
<1>4. /\ Granted(r, w).state = "FILTERING" /\ Granted(r, w).owner = w
      /\ Granted(r, w).lease = "live"
      /\ Granted(r, w).fence = f /\ Granted(r, w).attempt = a
      /\ Granted(r, w).stream = r.stream /\ Granted(r, w).rev = r.rev
      /\ Granted(r, w).cand = r.cand /\ Granted(r, w).trust = r.trust
      /\ Granted(r, w).pred = r.pred /\ Granted(r, w).round = r.round
  BY <1>2 DEF Job
<1> QED BY <1>3, <1>4 DEF a, f

(* A worker that only moves on keeps its job and its token. *)
LEMMA GotoType ==
  ASSUME TypeOK, NEW w \in Workers, NEW pc \in {"idle", "ticking"} \cup LeasePcs,
         Goto(w, pc), pc \in LeasePcs => wk[w].pc \in LeasePcs
  PROVE  /\ wk' \in [Workers -> Work]
         /\ \A v \in Workers : wk'[v].pc \in LeasePcs \cup {"leasing"} => wk'[v].job \in 1..created
         /\ \A v \in Workers : WorkStep(v)
<1>1. wk[w] \in Work
  BY DEF TypeOK
<1>2. [wk[w] EXCEPT !.pc = pc] \in Work
  BY <1>1 DEF Work, LeasePcs
<1>3. wk' = [wk EXCEPT ![w] = [wk[w] EXCEPT !.pc = pc]]
  BY DEF Goto
<1>4. wk' \in [Workers -> Work]
  BY <1>2, <1>3 DEF TypeOK
<1>5. wk'[w].pc = pc /\ wk'[w].job = wk[w].job /\ wk'[w].fence = wk[w].fence
  BY <1>1, <1>3 DEF TypeOK, Work
<1>6. \A v \in Workers : v # w => wk'[v] = wk[v]
  BY <1>3 DEF TypeOK
<1>7. pc # "leasing"
  BY DEF LeasePcs
<1> QED BY <1>4, <1>5, <1>6, <1>7 DEF TypeOK, WorkStep

LEMMA PickOldestShape ==
  ASSUME TypeOK, NEW w \in Workers, PickOldest(w)
  PROVE  Shape
<1>1. created <= created'
  BY ConstantsAssumption DEF TypeOK, PickOldest
<1>2. CASE Queued = {}
  <2>1. Goto(w, "ticking")
    BY <1>2 DEF PickOldest
  <2>2. /\ wk' \in [Workers -> Work]
        /\ \A v \in Workers : wk'[v].pc \in LeasePcs \cup {"leasing"} => wk'[v].job \in 1..created
        /\ \A v \in Workers : WorkStep(v)
    BY <2>1, GotoType DEF LeasePcs
  <2>3. TypeOK'
    BY <2>2 DEF TypeOK, PickOldest
  <2> QED BY <1>1, <2>2, <2>3 DEF Shape, RowStep, PickOldest
<1>3. CASE Queued # {}
  <2>1. PICK j \in Queued : wk' = [wk EXCEPT ![w] = [pc |-> "leasing", job |-> j, fence |-> 0]]
    BY <1>3 DEF PickOldest
  <2>2. j \in Jobs /\ job[j].state # "NONE"
    BY DEF Queued
  <2>3. j \in 1..created /\ j \in 0..MaxJobs
    BY <2>2, ConstantsAssumption DEF TypeOK, Jobs
  <2>4. wk' \in [Workers -> Work]
    BY <2>1, <2>3 DEF TypeOK, Work
  <2>5. /\ wk'[w].pc = "leasing" /\ wk'[w].job = j
        /\ \A v \in Workers : v # w => wk'[v] = wk[v]
    BY <2>1 DEF TypeOK
  <2>6. TypeOK'
    BY <2>3, <2>4, <2>5 DEF TypeOK, PickOldest
  <2>7. \A v \in Workers : WorkStep(v)
    BY <2>5 DEF WorkStep, LeasePcs
  <2> QED BY <1>1, <2>6, <2>7 DEF Shape, RowStep, PickOldest
<1> QED BY <1>2, <1>3

LEMMA LeaseShape ==
  ASSUME TypeOK, NEW w \in Workers, Lease(w)
  PROVE  Shape
<1> DEFINE j == wk[w].job
           q == Granted(job[j], w)
<1>1. j \in Jobs /\ j \in 1..created /\ j \in 0..MaxJobs /\ job[j] \in Job /\ job[j].state = "QUEUED"
  BY ConstantsAssumption, SMTT(30) DEF TypeOK, Lease, Jobs
<1>2. q \in Job /\ q.state = "FILTERING" /\ q.owner = w /\ q.fence = job[j].fence + 1
  BY <1>1, GrantedRow
<1>3. job' = [job EXCEPT ![j] = q]
  BY DEF Lease
<1>4. /\ job' \in [Jobs -> Job] /\ job'[j] = q
      /\ \A i \in Jobs : i # j => job'[i] = job[i]
      /\ \A i \in Jobs : job'[i].state = "NONE" <=> i > created
  BY <1>1, <1>2, <1>3, OneRowType
<1>5. job[j].fence + 1 \in Nat
  BY <1>1 DEF Job
<1>6. /\ wk'[w] = [pc |-> "evaluating", job |-> j, fence |-> q.fence]
      /\ wk' \in [Workers -> Work]
      /\ \A v \in Workers : v # w => wk'[v] = wk[v]
  BY <1>1, <1>2, <1>5 DEF Lease, TypeOK, Work, LeasePcs
<1>7. TypeOK'
  BY <1>1, <1>4, <1>6 DEF TypeOK, Lease
<1>8. \A i \in Jobs : RowStep(i)
  BY <1>1, <1>4 DEF RowStep, LeasedOut
<1>9. \A v \in Workers : WorkStep(v)
  BY <1>2, <1>4, <1>6 DEF WorkStep
<1>10. created <= created'
  BY ConstantsAssumption DEF TypeOK, Lease
<1> QED BY <1>7, <1>8, <1>9, <1>10 DEF Shape

LEMMA LeaseRaceLostShape ==
  ASSUME TypeOK, NEW w \in Workers, LeaseRaceLost(w)
  PROVE  Shape
<1> DEFINE q == [NoWork EXCEPT !.pc = "ticking"]
<1>1. q \in Work /\ q.pc = "ticking"
  BY ConstantsAssumption DEF NoWork, Work
<1>2. wk' = [wk EXCEPT ![w] = q]
  BY DEF LeaseRaceLost
<1> HIDE DEF q
<1>3. /\ wk' \in [Workers -> Work] /\ wk'[w].pc = "ticking"
      /\ \A v \in Workers : v # w => wk'[v] = wk[v]
  BY <1>1, <1>2 DEF TypeOK
<1>4. TypeOK'
  BY <1>3 DEF TypeOK, LeaseRaceLost, LeasePcs
<1>5. \A v \in Workers : WorkStep(v)
  BY <1>3 DEF WorkStep, LeasePcs
<1>6. created <= created'
  BY ConstantsAssumption DEF TypeOK, LeaseRaceLost
<1> QED BY <1>4, <1>5, <1>6 DEF Shape, RowStep, LeaseRaceLost

LEMMA EvaluateShape ==
  ASSUME TypeOK, NEW w \in Workers, Evaluate(w)
  PROVE  Shape
<1>1. PICK pc \in LeasePcs : Goto(w, pc)
  BY DEF Evaluate, LeasePcs
<1>2. wk[w].pc \in LeasePcs
  BY DEF Evaluate, LeasePcs
<1>3. /\ wk' \in [Workers -> Work]
      /\ \A v \in Workers : wk'[v].pc \in LeasePcs \cup {"leasing"} => wk'[v].job \in 1..created
      /\ \A v \in Workers : WorkStep(v)
  BY <1>1, <1>2, GotoType
<1>4. TypeOK'
  BY <1>3 DEF TypeOK, Evaluate
<1>5. created <= created'
  BY ConstantsAssumption DEF TypeOK, Evaluate
<1> QED BY <1>3, <1>4, <1>5 DEF Shape, RowStep, Evaluate

(* A worker between transactions has a job, and one whose lease passes     *)
(* _lease_check has a row that is owned and not terminal.                  *)
LEMMA HeldJob ==
  ASSUME TypeOK, NEW w \in Workers, wk[w].pc \in LeasePcs
  PROVE  LET j == wk[w].job IN
         /\ j \in Jobs /\ job[j] \in Job /\ job[j].state # "NONE"
         /\ HoldsLease(w) => job[j].state \notin Terminal /\ job[j].owner # None
<1>1. wk[w].job \in 1..created /\ wk[w].job \in Jobs
  BY ConstantsAssumption DEF TypeOK, Jobs
<1> QED BY <1>1, ConstantsAssumption DEF TypeOK, HoldsLease

(* A worker that writes its job's row and drops it. *)
LEMMA SettleShape ==
  ASSUME TypeOK, NEW w \in Workers, NEW j \in Jobs, NEW q \in Job,
         q.state # "NONE", job[j].state # "NONE",
         job' = [job EXCEPT ![j] = q], Drop(w), job'[j] = q => RowStep(j),
         UNCHANGED <<stream, releases, trust, created, client>>
  PROVE  Shape
<1>1. /\ job' \in [Jobs -> Job] /\ job'[j] = q
      /\ \A i \in Jobs : i # j => job'[i] = job[i]
      /\ \A i \in Jobs : job'[i].state = "NONE" <=> i > created
  BY OneRowType
<1>2. TypeOK'
  BY <1>1, DropType DEF TypeOK
<1>3. \A i \in Jobs : RowStep(i)
  BY <1>1 DEF RowStep
<1> QED BY <1>2, <1>3, DropShape

LEMMA DecideShape ==
  ASSUME TypeOK, NEW w \in Workers, wk[w].pc \in LeasePcs, HoldsLease(w),
         NEW st \in {"REJECTED", "FAILED"},
         job' = [job EXCEPT ![wk[w].job] = Released(@, st)], Drop(w),
         UNCHANGED <<stream, releases, trust, created, client>>
  PROVE  Shape
<1> DEFINE j == wk[w].job
           q == Released(job[j], st)
<1>1. /\ j \in Jobs /\ job[j] \in Job /\ job[j].state # "NONE"
      /\ job[j].state \notin Terminal /\ job[j].owner # None
  BY HeldJob
<1>2. q \in Job /\ q.state # "NONE"
  BY <1>1, ReleasedRow DEF Terminal
<1>3. job'[j] = q => RowStep(j)
  BY <1>1 DEF RowStep, Decided
<1>4. job' = [job EXCEPT ![j] = q]
  OBVIOUS
<1> HIDE DEF j, q
<1> QED BY <1>1, <1>2, <1>3, <1>4, SettleShape

LEMMA RecordFailureShape ==
  ASSUME TypeOK, NEW w \in Workers, RecordFailure(w) PROVE Shape
BY DecideShape DEF RecordFailure, LeasePcs

LEMMA FinishFailedShape ==
  ASSUME TypeOK, NEW w \in Workers, FinishFailed(w) PROVE Shape
BY DecideShape DEF FinishFailed, LeasePcs

LEMMA FinishRejectShape ==
  ASSUME TypeOK, NEW w \in Workers, FinishReject(w) PROVE Shape
BY DecideShape DEF FinishReject, LeasePcs

LEMMA FinishStaleShape ==
  ASSUME TypeOK, NEW w \in Workers, FinishStale(w)
  PROVE  Shape
<1> DEFINE j == wk[w].job
           q == Fenced(job[j], "STALE")
<1>1. /\ j \in Jobs /\ job[j] \in Job /\ job[j].state # "NONE"
      /\ job[j].state \notin Terminal
  BY HeldJob DEF FinishStale, LeasePcs
<1>2. IsPending(j)
  BY <1>1 DEF IsPending, Job
<1>3. q \in Job /\ q.state # "NONE"
  BY <1>1, FencedRow DEF Terminal
<1>4. job'[j] = q => RowStep(j)
  BY <1>2 DEF RowStep, Stopped
<1>5. job' = [job EXCEPT ![j] = q]
  BY DEF FinishStale
<1> HIDE DEF j, q
<1> QED BY <1>1, <1>3, <1>4, <1>5, SettleShape DEF FinishStale

LEMMA LoseLeaseShape ==
  ASSUME TypeOK, NEW w \in Workers, LoseLease(w)
  PROVE  Shape
<1>1. TypeOK'
  BY DropType DEF TypeOK, LoseLease
<1> QED BY <1>1, DropShape DEF LoseLease, RowStep

LEMMA CrashShape ==
  ASSUME TypeOK, NEW w \in Workers, Crash(w)
  PROVE  Shape
<1>1. TypeOK'
  BY DropType DEF TypeOK, Crash
<1> QED BY <1>1, DropShape DEF Crash, RowStep

LEMMA AdvanceShape ==
  ASSUME TypeOK, NEW w \in Workers, Advance(w)
  PROVE  Shape
<1> DEFINE j == wk[w].job
           q == [job[j] EXCEPT !.state = "SCORING"]
<1>1. j \in Jobs /\ job[j] \in Job /\ job[j].state # "NONE" /\ wk[w].pc \in LeasePcs
  BY HeldJob DEF Advance, LeasePcs
<1>2. q \in Job /\ q.state = "SCORING"
  BY <1>1 DEF Job, Pending
<1>3. job' = [job EXCEPT ![j] = q]
  BY SMTT(30) DEF Advance
<1>4. /\ job' \in [Jobs -> Job] /\ job'[j] = q
      /\ \A i \in Jobs : i # j => job'[i] = job[i]
      /\ \A i \in Jobs : job'[i].state = "NONE" <=> i > created
  BY <1>1, <1>2, <1>3, OneRowType
<1>5. Goto(w, "finishing") /\ "finishing" \in LeasePcs
  BY DEF Advance, LeasePcs
<1>6. /\ wk' \in [Workers -> Work]
      /\ \A v \in Workers : wk'[v].pc \in LeasePcs \cup {"leasing"} => wk'[v].job \in 1..created
      /\ \A v \in Workers : WorkStep(v)
  BY <1>1, <1>5, GotoType
<1>7. TypeOK'
  BY <1>4, <1>6 DEF TypeOK, Advance
<1>8. \A i \in Jobs : RowStep(i)
  <2>1. job[j].state = "FILTERING"
    BY DEF Advance
  <2>2. Scoring(j)
    BY <1>4, <2>1 DEF Scoring
  <2> QED BY <1>4, <2>2 DEF RowStep
<1>9. created <= created'
  BY ConstantsAssumption DEF TypeOK, Advance
<1> QED BY <1>6, <1>7, <1>8, <1>9 DEF Shape

LEMMA HeartbeatShape ==
  ASSUME TypeOK, NEW w \in Workers, Heartbeat(w)
  PROVE  Shape
<1> DEFINE j == wk[w].job
           q == [job[j] EXCEPT !.lease = "live"]
<1>1. j \in Jobs /\ job[j] \in Job /\ job[j].state # "NONE"
  BY HeldJob DEF Heartbeat
<1>2. q \in Job /\ q.state # "NONE"
  BY <1>1 DEF Job
<1>3. job' = [job EXCEPT ![j] = q]
  BY SMTT(30) DEF Heartbeat
<1>4. /\ job' \in [Jobs -> Job] /\ job'[j] = q
      /\ \A i \in Jobs : i # j => job'[i] = job[i]
      /\ \A i \in Jobs : job'[i].state = "NONE" <=> i > created
  BY <1>1, <1>2, <1>3, OneRowType
<1>5. TypeOK'
  BY <1>4 DEF TypeOK, Heartbeat
<1>6. job[j].owner # None
  BY ConstantsAssumption DEF Heartbeat
<1>7. \A i \in Jobs : RowStep(i)
  BY <1>1, <1>4, <1>6 DEF RowStep, Renewed, Heartbeat
<1> QED BY <1>5, <1>7, RowsShape DEF Heartbeat

LEMMA TickShape ==
  ASSUME TypeOK, NEW w \in Workers, Tick(w)
  PROVE  Shape
<1>1. \A j \in Expired : job[j].state \in Leased
  BY DEF Expired
<1>2. \A j \in Jobs : Recovered(job[j]) \in Job /\ Recovered(job[j]).state \in {"QUEUED", "FAILED"}
  BY ReleasedRow, FencedRow DEF Recovered, Pending, Terminal, TypeOK
<1>3. \A j \in Jobs : job'[j] = IF j \in Expired THEN Recovered(job[j]) ELSE job[j]
  BY DEF Tick
<1>4. job' \in [Jobs -> Job]
  BY <1>2 DEF Tick, TypeOK
<1>5. \A j \in Jobs : job'[j].state = "NONE" <=> j > created
  BY <1>1, <1>2, <1>3 DEF TypeOK, Leased
<1>6. \A j \in Jobs : RowStep(j)
  BY <1>1, <1>3 DEF RowStep, Requeued
<1>7. Goto(w, "idle") /\ "idle" \notin LeasePcs
  BY DEF Tick, LeasePcs
<1>8. /\ wk' \in [Workers -> Work]
      /\ \A v \in Workers : wk'[v].pc \in LeasePcs \cup {"leasing"} => wk'[v].job \in 1..created
      /\ \A v \in Workers : WorkStep(v)
  BY <1>7, GotoType
<1>9. TypeOK'
  BY <1>4, <1>5, <1>8 DEF TypeOK, Tick
<1>10. created <= created'
  BY SMTT(40), ConstantsAssumption DEF TypeOK, Tick
<1> QED BY <1>6, <1>8, <1>9, <1>10 DEF Shape

(* What FinishAccept says, unfolded once. *)
LEMMA Accepts ==
  ASSUME TypeOK, NEW w \in Workers, FinishAccept(w)
  PROVE  LET j == wk[w].job
             s == job[j].stream IN
         /\ j \in Jobs /\ j # 0 /\ j \in 0..MaxJobs
         /\ job[j] \in Job /\ job[j].state # "NONE"
         /\ job[j].state \notin Terminal /\ job[j].owner # None
         /\ s \in Streams /\ stream[s] \in StreamRow
         /\ stream[s].state = "ACTIVE" /\ stream[s].revision = job[j].rev
         /\ HasRelease(s, job[j].rev)
         /\ VerdictOf(job[j]) = "accept"
         /\ releases' = releases \cup {ReleaseOf(j)}
         /\ stream' = [stream EXCEPT ![s] = HeadMoved(@)]
<1> DEFINE j == wk[w].job
           s == job[j].stream
<1>1. wk[w].pc = "finishing" /\ HoldsLease(w) /\ ~StaleAtFinish(job[j])
  BY SMTT(40) DEF FinishAccept
<1>2. /\ releases' = releases \cup {ReleaseOf(j)}
      /\ stream' = [stream EXCEPT ![s] = HeadMoved(@)]
      /\ HasRelease(s, job[j].rev) /\ VerdictOf(job[j]) = "accept"
  BY DEF FinishAccept
<1>3. wk[w].pc \in LeasePcs
  BY <1>1 DEF LeasePcs
<1>4. /\ j \in Jobs /\ job[j] \in Job /\ job[j].state # "NONE"
      /\ job[j].state \notin Terminal /\ job[j].owner # None
  BY <1>1, <1>3, HeldJob
<1> HIDE DEF j
<1>5. j # 0 /\ j \in 0..MaxJobs
  BY <1>4 DEF Jobs
<1>6. s \in Streams
  BY <1>4 DEF Job
<1>7. stream[s] \in StreamRow
  BY <1>6 DEF TypeOK
<1>8. stream[s].state = "ACTIVE" /\ stream[s].revision = job[j].rev
  BY SMTT(40), <1>1 DEF StaleAtFinish
<1> QED BY SMTT(40), <1>2, <1>4, <1>5, <1>6, <1>7, <1>8 DEF j

(* The rows FinishAccept leaves: the job accepted, its rivals stale. *)
LEMMA AcceptRows ==
  ASSUME TypeOK, NEW w \in Workers, FinishAccept(w)
  PROVE  LET j == wk[w].job
             S == PendingOn(job[j].stream) \ {j} IN
         /\ j \in Jobs /\ job[j] \in Job /\ IsPending(j) /\ job[j].owner # None
         /\ job' \in [Jobs -> Job]
         /\ job'[j] = Released(job[j], "ACCEPTED")
         /\ \A i \in Jobs : i # j => job'[i] = MarkStale(job, S)[i]
         /\ \A i \in Jobs : i # j =>
              \/ job'[i] = job[i]
              \/ IsPending(i) /\ job'[i] = Fenced(job[i], "STALE")
         /\ \A i \in Jobs : job'[i].state = "NONE" <=> i > created
<1> DEFINE j == wk[w].job
           S == PendingOn(job[j].stream) \ {j}
           f == MarkStale(job, S)
           q == Released(job[j], "ACCEPTED")
<1>1. /\ j \in Jobs /\ job[j] \in Job /\ job[j].state # "NONE"
      /\ job[j].state \notin Terminal /\ job[j].owner # None
  BY Accepts
<1>2. IsPending(j)
  BY <1>1 DEF IsPending, Job
<1>3. \A i \in S : i \in Jobs => IsPending(i)
  BY DEF PendingOn
<1>4. /\ f \in [Jobs -> Job]
      /\ \A i \in Jobs : f[i].state = "NONE" <=> i > created
      /\ \A i \in Jobs : \/ f[i] = job[i]
                         \/ IsPending(i) /\ f[i] = Fenced(job[i], "STALE")
      /\ \A i \in Jobs : i \notin S => f[i] = job[i]
  <2> HIDE DEF S
  <2> QED BY SMTT(40), <1>3, StaleRows
<1>5. f[j] = job[j]
  BY <1>1, <1>4
<1>6. job' = [f EXCEPT ![j] = q]
  BY <1>5 DEF FinishAccept
<1>7. q \in Job /\ q.state = "ACCEPTED"
  BY <1>1, ReleasedRow DEF Terminal
<1>8. created \in Nat /\ (job[j].state = "NONE" <=> j > created)
  BY <1>1, ConstantsAssumption DEF TypeOK
<1> HIDE DEF j, S, f, q
<1>9. /\ job' \in [Jobs -> Job] /\ job'[j] = q
      /\ \A i \in Jobs : i # j => job'[i] = f[i]
  BY <1>1, <1>4, <1>6, <1>7
<1>10. \A i \in Jobs : job'[i].state = "NONE" <=> i > created
  BY SMTT(30), <1>1, <1>4, <1>7, <1>8, <1>9
<1> QED BY <1>1, <1>2, <1>4, <1>9, <1>10 DEF j, f, q, S

(* The release FinishAccept adds, and the stream row it leaves. *)
LEMMA AcceptLine ==
  ASSUME TypeOK, NEW w \in Workers, FinishAccept(w)
  PROVE  LET j == wk[w].job
             s == job[j].stream IN
         /\ s \in Streams
         /\ ReleaseOf(j) \in Release
         /\ releases' = releases \cup {ReleaseOf(j)}
         /\ stream' = [stream EXCEPT ![s] = HeadMoved(@)]
         /\ stream' \in [Streams -> StreamRow]
<1> DEFINE j == wk[w].job
           s == job[j].stream
<1>1. j \in Jobs /\ s \in Streams /\ job[j] \in Job /\ j \in 0..MaxJobs
  BY Accepts
<1>2. stream[s] \in StreamRow
  BY Accepts
<1>3. ReleaseOf(j) \in Release
  <2> HIDE DEF j
  <2>1. stream[s].revision + 1 \in Nat /\ stream[s].head \in Int /\ job[j].rev \in Int
    BY <1>1, <1>2 DEF StreamRow, Job
  <2> QED BY <1>1, <2>1 DEF ReleaseOf, Release
<1>4. HeadMoved(stream[s]) \in StreamRow
  BY <1>2, StreamRows
<1>5. stream' = [stream EXCEPT ![s] = HeadMoved(@)] /\ releases' = releases \cup {ReleaseOf(j)}
  BY Accepts
<1>6. stream' \in [Streams -> StreamRow]
  BY <1>1, <1>4, <1>5 DEF TypeOK
<1> QED BY <1>1, <1>3, <1>5, <1>6

LEMMA FinishAcceptShape ==
  ASSUME TypeOK, NEW w \in Workers, FinishAccept(w)
  PROVE  Shape
<1>1. Drop(w) /\ created' = created /\ trust' = trust /\ client' = client
  BY DEF FinishAccept
<1>2. releases' \in SUBSET Release /\ stream' \in [Streams -> StreamRow]
  BY AcceptLine DEF TypeOK
<1>3. /\ job' \in [Jobs -> Job]
      /\ \A i \in Jobs : job'[i].state = "NONE" <=> i > created
  BY AcceptRows
<1>4. TypeOK'
  BY <1>1, <1>2, <1>3, DropType DEF TypeOK
<1>5. \A i \in Jobs : RowStep(i)
  <2>1. /\ IsPending(wk[w].job) /\ job[wk[w].job].owner # None
        /\ job'[wk[w].job] = Released(job[wk[w].job], "ACCEPTED")
    BY AcceptRows
  <2>2. job[wk[w].job].state \notin Terminal
    BY <2>1 DEF IsPending, Pending, Terminal
  <2>3. \A i \in Jobs : i # wk[w].job =>
          \/ job'[i] = job[i]
          \/ IsPending(i) /\ job'[i] = Fenced(job[i], "STALE")
    BY AcceptRows
  <2> QED BY <2>1, <2>2, <2>3 DEF RowStep, Decided, Stopped
<1> QED BY SMTT(40), <1>1, <1>4, <1>5, DropShape

(* Every step has the shape: the case analysis over Next, done once. *)
LEMMA StepShape ==
  ASSUME TypeOK, [Next]_vars
  PROVE  Shape
<1>1. CASE UNCHANGED vars
  <2>1. TypeOK'
    BY <1>1 DEF TypeOK, vars
  <2> QED BY <1>1, <2>1, QuietShape DEF vars
<1>2. ASSUME NEW c \in Clients, SubmitCheck(c) \/ SubmitCommit(c) \/ SubmitAbort(c)
      PROVE  Shape
  BY <1>2, SubmitCheckShape, SubmitCommitShape, SubmitAbortShape
<1>3. ASSUME NEW j \in Jobs, CancelJob(j) \/ LeaseExpires(j)
      PROVE  Shape
  BY <1>3, CancelJobShape, LeaseExpiresShape
<1>4. ASSUME NEW s \in Streams, PauseStream(s) \/ ResumeStream(s)
      PROVE  Shape
  BY <1>4, PauseShape, ResumeShape
<1>5. CASE RotateTrust
  BY <1>5, RotateShape
<1>6. ASSUME NEW w \in Workers, WorkerStep(w) \/ Heartbeat(w) \/ Crash(w)
      PROVE  Shape
  <2>1. CASE PickOldest(w) \/ Lease(w) \/ LeaseRaceLost(w) \/ Evaluate(w)
    BY <2>1, PickOldestShape, LeaseShape, LeaseRaceLostShape, EvaluateShape
  <2>2. CASE RecordFailure(w) \/ Advance(w) \/ LoseLease(w) \/ Tick(w)
    BY <2>2, RecordFailureShape, AdvanceShape, LoseLeaseShape, TickShape
  <2>3. CASE FinishStale(w) \/ FinishFailed(w) \/ FinishReject(w) \/ FinishAccept(w)
    BY <2>3, FinishStaleShape, FinishFailedShape, FinishRejectShape, FinishAcceptShape
  <2>4. CASE Heartbeat(w) \/ Crash(w)
    BY <2>4, HeartbeatShape, CrashShape
  <2> QED BY <1>6, <2>1, <2>2, <2>3, <2>4 DEF WorkerStep
<1> QED BY <1>1, <1>2, <1>3, <1>4, <1>5, <1>6 DEF Next

-----------------------------------------------------------------------------
(* Every row and every local copy stays well formed, and job numbers are   *)
(* handed out without gaps.                                                *)
THEOREM TypeCorrect == Spec => []TypeOK
<1>1. TypeOK /\ [Next]_vars => TypeOK'
  BY StepShape DEF Shape
<1> QED BY InitType, <1>1, PTL DEF Spec

-----------------------------------------------------------------------------
(* What a row step does to the two facts about a single row. *)

RowInv(r) ==
  /\ r.state \in Leased <=> r.owner # None
  /\ r.state \in Leased <=> r.lease # "none"
  /\ r.attempt <= MaxAttempts
  /\ r.state = "QUEUED" => r.attempt < MaxAttempts

LEMMA RowInvStep ==
  ASSUME TypeOK, NEW j \in Jobs, RowStep(j), RowInv(job[j])
  PROVE  RowInv(job'[j])
<1>1. job[j] \in Job /\ MaxAttempts \in Nat \ {0} /\ job[j].attempt \in Nat
  BY ConstantsAssumption DEF TypeOK, Job
<1>2. CASE Inserted(j)
  <2>1. PICK c \in Clients : job'[j] = NewJob(client[c])
    BY <1>2 DEF Inserted
  <2>2. client[c] \in Request
    BY DEF TypeOK
  <2> QED BY <1>1, <2>1, <2>2, NewJobRow DEF RowInv, Leased
<1>3. CASE LeasedOut(j)
  <2>1. PICK w \in Workers : job'[j] = Granted(job[j], w)
    BY <1>3 DEF LeasedOut
  <2>2. job[j].attempt < MaxAttempts
    BY <1>3 DEF LeasedOut, RowInv
  <2>3. w # None
    BY ConstantsAssumption
  <2>4. /\ job'[j].state = "FILTERING" /\ job'[j].owner = w /\ job'[j].lease = "live"
        /\ job'[j].attempt = job[j].attempt + 1
    BY <1>1, <2>1, GrantedRow
  <2> QED BY <1>1, <2>2, <2>3, <2>4 DEF RowInv, Leased
<1>4. CASE Scoring(j)
  <2>1. /\ job'[j].state = "SCORING" /\ job'[j].owner = job[j].owner
        /\ job'[j].lease = job[j].lease /\ job'[j].attempt = job[j].attempt
    BY <1>1, <1>4 DEF Scoring, Job
  <2> QED BY <1>4, <2>1 DEF Scoring, RowInv, Leased
<1>5. CASE Renewed(j) \/ RanOut(j)
  <2>1. /\ job'[j].state = job[j].state /\ job'[j].owner = job[j].owner
        /\ job'[j].lease # "none" /\ job'[j].attempt = job[j].attempt
    BY <1>1, <1>5 DEF Renewed, RanOut, Job
  <2>2. job[j].state \in Leased
    BY <1>5 DEF Renewed, RanOut, RowInv
  <2> QED BY <2>1, <2>2 DEF RowInv
<1>6. CASE Stopped(j)
  <2>1. PICK st \in {"STALE", "CANCELLED"} : job'[j] = Fenced(job[j], st)
    BY <1>6 DEF Stopped
  <2>2. /\ job'[j].state = st /\ job'[j].owner = None /\ job'[j].lease = "none"
        /\ job'[j].attempt = job[j].attempt
    BY <1>1, <2>1, FencedRow DEF Terminal
  <2> QED BY <2>2 DEF RowInv, Leased
<1>7. CASE Decided(j)
  <2>1. PICK st \in {"ACCEPTED", "REJECTED", "FAILED"} : job'[j] = Released(job[j], st)
    BY <1>7 DEF Decided
  <2>2. /\ job'[j].state = st /\ job'[j].owner = None /\ job'[j].lease = "none"
        /\ job'[j].attempt = job[j].attempt
    BY <1>1, <2>1, ReleasedRow DEF Terminal
  <2> QED BY <2>2 DEF RowInv, Leased
<1>8. CASE Requeued(j)
  <2>1. /\ job'[j].owner = None /\ job'[j].lease = "none" /\ job'[j].attempt = job[j].attempt
        /\ job'[j].state = IF job[j].attempt < MaxAttempts THEN "QUEUED" ELSE "FAILED"
    BY <1>1, <1>8, FencedRow, ReleasedRow DEF Requeued, Recovered, Pending, Terminal
  <2> QED BY <1>1, <2>1 DEF RowInv, Leased
<1> QED BY <1>2, <1>3, <1>4, <1>5, <1>6, <1>7, <1>8 DEF RowStep

RowsInv == \A j \in Jobs : RowInv(job[j])

LEMMA RowsInvInit == Init => RowsInv
<1> SUFFICES ASSUME Init, NEW j \in Jobs PROVE RowInv(job[j])
  BY DEF RowsInv
<1>1. job[j] = Blank
  BY DEF Init
<1>2. Blank.state = "NONE" /\ Blank.owner = None /\ Blank.lease = "none" /\ Blank.attempt = 0
  BY DEF Blank
<1> QED BY <1>1, <1>2, ConstantsAssumption DEF RowInv, Leased

LEMMA RowsInvCorrect == Spec => []RowsInv
<1>1. TypeOK /\ RowsInv /\ [Next]_vars => RowsInv'
  <2> SUFFICES ASSUME TypeOK, RowsInv, [Next]_vars, NEW j \in Jobs PROVE RowInv(job'[j])
    BY DEF RowsInv, Jobs
  <2>1. RowStep(j)
    BY StepShape DEF Shape
  <2> QED BY <2>1, RowInvStep DEF RowsInv
<1> QED BY <1>1, RowsInvInit, TypeCorrect, PTL DEF Spec

(* A job has an owner and a deadline exactly while it is leased. *)
THEOREM LeaseRowCorrect == Spec => []LeaseRow
<1>1. RowsInv => LeaseRow
  BY DEF RowsInv, RowInv, LeaseRow
<1> QED BY <1>1, RowsInvCorrect, PTL

(* No job is started more often than MAX_ATTEMPTS, although rpc_lease does *)
(* not check the count.                                                    *)
THEOREM AttemptLimitCorrect == Spec => []AttemptLimit
<1>1. RowsInv => AttemptLimit
  BY DEF RowsInv, RowInv, AttemptLimit
<1> QED BY <1>1, RowsInvCorrect, PTL

(* A terminal row takes only the identity step. *)
LEMMA TerminalStep ==
  ASSUME TypeOK, RowsInv, NEW j \in Jobs, RowStep(j), job[j].state \in Terminal
  PROVE  job'[j] = job[j]
<1>1. /\ job[j].state \notin Pending /\ job[j].state \notin Leased /\ job[j].state # "NONE"
      /\ job[j].state # "QUEUED" /\ job[j].state # "FILTERING"
  BY DEF Terminal, Pending, Leased
<1>2. job[j].owner = None /\ job[j].lease = "none"
  BY <1>1 DEF RowsInv, RowInv
<1>3. ~Inserted(j)
  BY <1>1, ConstantsAssumption DEF Inserted, TypeOK
<1> QED BY <1>1, <1>2, <1>3
        DEF RowStep, LeasedOut, Scoring, Renewed, RanOut, Stopped, Decided, Requeued, IsPending

(* A terminal job never changes again. *)
THEOREM TerminalForeverCorrect == Spec => TerminalForever
<1>1. TypeOK /\ RowsInv /\ [Next]_vars =>
        [\A j \in Jobs : job[j].state \in Terminal => job'[j] = job[j]]_vars
  BY StepShape, TerminalStep DEF Shape
<1> QED BY <1>1, TypeCorrect, RowsInvCorrect, PTL DEF Spec, TerminalForever

-----------------------------------------------------------------------------
(* A row that is not only renewed or run out has one step less to go. *)
LEMMA StepsLeftFalls ==
  ASSUME TypeOK, RowsInv, NEW j \in Jobs, RowStep(j)
  PROVE  \/ StepsLeft(job'[j]) \in 0..(StepsLeft(job[j]) - 1)
         \/ job'[j] = [job[j] EXCEPT !.lease = job'[j].lease]
<1> DEFINE r == job[j]
           q == job'[j]
<1>1. /\ r \in Job /\ r.attempt \in Nat /\ MaxAttempts \in Nat \ {0}
      /\ r.attempt <= MaxAttempts
      /\ r.state = "QUEUED" => r.attempt < MaxAttempts
  BY ConstantsAssumption DEF TypeOK, Job, RowsInv, RowInv
<1>2. CASE q = r
  <2>1. q = [r EXCEPT !.lease = q.lease]
    BY <1>1, <1>2 DEF Job
  <2> QED BY <2>1
<1>3. CASE Inserted(j)
  <2>1. PICK c \in Clients : q = NewJob(client[c])
    BY <1>3 DEF Inserted
  <2>2. q.state = "QUEUED" /\ q.attempt = 0
    BY <2>1, NewJobRow DEF TypeOK
  <2>3. r.state = "NONE"
    BY <1>3, ConstantsAssumption DEF Inserted, TypeOK
  <2>4. StepsLeft(q) = 3 * MaxAttempts + 1
    BY <1>1, <2>2 DEF StepsLeft
  <2>5. StepsLeft(r) = 3 * MaxAttempts + 2
    BY <2>3 DEF StepsLeft
  <2> QED BY <1>1, <2>4, <2>5
<1>4. CASE LeasedOut(j)
  <2>1. q.state = "FILTERING" /\ q.attempt = r.attempt + 1 /\ r.state = "QUEUED"
    BY <1>1, <1>4, GrantedRow DEF LeasedOut
  <2>2. StepsLeft(q) = 3 * (MaxAttempts - (r.attempt + 1)) + 3
    BY <2>1 DEF StepsLeft
  <2>3. StepsLeft(r) = 3 * (MaxAttempts - r.attempt) + 1
    BY <2>1 DEF StepsLeft
  <2> QED BY <1>1, <2>1, <2>2, <2>3
<1>5. CASE Scoring(j)
  <2>1. r.state = "FILTERING" /\ q.state = "SCORING" /\ q.attempt = r.attempt
    BY <1>1, <1>5 DEF Scoring, Job
  <2>2. StepsLeft(q) = 3 * (MaxAttempts - r.attempt) + 2
    BY <2>1 DEF StepsLeft
  <2>3. StepsLeft(r) = 3 * (MaxAttempts - r.attempt) + 3
    BY <2>1 DEF StepsLeft
  <2> QED BY <1>1, <2>2, <2>3
<1>6. CASE Renewed(j) \/ RanOut(j)
  <2>1. q = [r EXCEPT !.lease = q.lease]
    BY <1>1, <1>6 DEF Renewed, RanOut, Job
  <2> QED BY <2>1
<1>7. CASE Stopped(j) \/ Decided(j) \/ Requeued(j)
  <2>1. CASE q.state \in Terminal
    <3>1. StepsLeft(q) = 0
      BY <2>1 DEF StepsLeft, Terminal
    <3>2. r.state \in Pending
      BY <1>1, <1>7, <1>2 DEF Stopped, Decided, Requeued, IsPending, Pending, Leased, Job,
                              RowsInv, RowInv
    <3>3. StepsLeft(r) \in Nat \ {0}
      BY <1>1, <3>2 DEF StepsLeft, Pending
    <3> QED BY <3>1, <3>3
  <2>2. CASE q.state \notin Terminal
    <3>1. Requeued(j)
      BY <1>1, <1>7, <2>2, FencedRow, ReleasedRow DEF Stopped, Decided, Terminal
    <3>2. q.state = "QUEUED" /\ q.attempt = r.attempt /\ r.state \in Leased
      BY <1>1, <2>2, <3>1, FencedRow, ReleasedRow DEF Requeued, Recovered, Pending, Terminal
    <3>3. StepsLeft(q) = 3 * (MaxAttempts - r.attempt) + 1
      BY <3>2 DEF StepsLeft
    <3>4. StepsLeft(r) \in {3 * (MaxAttempts - r.attempt) + 2, 3 * (MaxAttempts - r.attempt) + 3}
      BY <3>2 DEF StepsLeft, Leased
    <3> QED BY <1>1, <3>3, <3>4
  <2> QED BY <2>1, <2>2
<1> QED BY <1>2, <1>3, <1>4, <1>5, <1>6, <1>7 DEF RowStep

(* No job goes round in a circle: each change of its row that is not about *)
(* the deadline uses up one of 3 * MaxAttempts + 2 steps.                  *)
THEOREM JobNeverLoopsCorrect == Spec => JobNeverLoops
<1>1. TypeOK /\ RowsInv /\ [Next]_vars =>
        [\A j \in Jobs :
           \/ StepsLeft(job'[j]) \in 0..(StepsLeft(job[j]) - 1)
           \/ job'[j] = [job[j] EXCEPT !.lease = job'[j].lease]]_vars
  BY StepShape, StepsLeftFalls DEF Shape
<1> QED BY <1>1, TypeCorrect, RowsInvCorrect, PTL DEF Spec, JobNeverLoops

-----------------------------------------------------------------------------
(* The token of a job never goes down, and a step that keeps it keeps the  *)
(* job with its worker or finishes it.                                     *)
LEMMA FenceMonotone ==
  ASSUME TypeOK, RowsInv, NEW j \in Jobs, RowStep(j), j <= created
  PROVE  /\ job[j].fence <= job'[j].fence
         /\ job'[j].fence = job[j].fence =>
              \/ job'[j] = job[j]
              \/ /\ job[j].state \in Leased /\ job'[j].state \in Leased
                 /\ job'[j].owner = job[j].owner
              \/ job'[j].state \in {"ACCEPTED", "REJECTED", "FAILED"}
<1>1. job[j] \in Job /\ job[j].fence \in Nat /\ RowInv(job[j])
  BY DEF TypeOK, Job, RowsInv
<1>2. CASE job'[j] = job[j]
  BY <1>1, <1>2
<1>3. ~Inserted(j)
  BY ConstantsAssumption DEF Inserted, TypeOK
<1>4. CASE LeasedOut(j)
  BY <1>1, <1>4, GrantedRow DEF LeasedOut
<1>5. CASE Scoring(j) \/ Renewed(j) \/ RanOut(j)
  <2>1. /\ job'[j].fence = job[j].fence /\ job'[j].owner = job[j].owner
        /\ job'[j].state \in {job[j].state, "SCORING"}
    BY <1>1, <1>5 DEF Scoring, Renewed, RanOut, Job
  <2>2. job[j].state \in Leased
    BY <1>1, <1>5 DEF Scoring, Renewed, RanOut, RowInv, Leased
  <2> QED BY <1>1, <2>1, <2>2 DEF Leased
<1>6. CASE Stopped(j)
  BY <1>1, <1>6, FencedRow DEF Stopped, Terminal
<1>7. CASE Decided(j)
  BY <1>1, <1>7, ReleasedRow DEF Decided, Terminal
<1>8. CASE Requeued(j)
  BY <1>1, <1>8, FencedRow, ReleasedRow DEF Requeued, Recovered, Pending, Terminal
<1> QED BY <1>2, <1>3, <1>4, <1>5, <1>6, <1>7, <1>8 DEF RowStep

LEMMA FenceStep ==
  ASSUME TypeOK, RowsInv, FenceCurrent, Shape
  PROVE  FenceCurrent'
<1> SUFFICES ASSUME NEW w \in Workers, wk'[w].pc \in LeasePcs
             PROVE  LET r == job'[wk'[w].job] IN
                    /\ wk'[w].fence <= r.fence
                    /\ wk'[w].fence = r.fence =>
                         \/ r.state \in Leased /\ r.owner = w
                         \/ r.state \in {"ACCEPTED", "REJECTED", "FAILED"}
  BY DEF FenceCurrent
<1> DEFINE j == wk'[w].job
<1>1. TypeOK' /\ created' \in Nat /\ created \in Nat
  BY ConstantsAssumption DEF Shape, TypeOK
<1>2. j \in Jobs /\ job'[j] \in Job /\ wk'[w].fence \in Nat
  BY <1>1, ConstantsAssumption DEF TypeOK, Jobs, Work
<1>3. CASE job'[j].state = "FILTERING" /\ job'[j].owner = w /\ job'[j].fence = wk'[w].fence
  BY <1>2, <1>3 DEF Leased
<1>4. CASE wk[w].pc \in LeasePcs /\ wk[w].job = j /\ wk[w].fence = wk'[w].fence
  <2>1. j <= created /\ job[j] \in Job /\ RowStep(j)
    BY <1>2, <1>4 DEF TypeOK, Shape
  <2>2. /\ wk[w].fence <= job[j].fence
        /\ wk[w].fence = job[j].fence =>
             \/ job[j].state \in Leased /\ job[j].owner = w
             \/ job[j].state \in {"ACCEPTED", "REJECTED", "FAILED"}
    BY <1>4 DEF FenceCurrent
  <2>3. /\ job[j].fence <= job'[j].fence
        /\ job'[j].fence = job[j].fence =>
              \/ job'[j] = job[j]
              \/ /\ job[j].state \in Leased /\ job'[j].state \in Leased
                 /\ job'[j].owner = job[j].owner
              \/ job'[j].state \in {"ACCEPTED", "REJECTED", "FAILED"}
    BY <1>2, <2>1, FenceMonotone
  <2>4. job[j].fence \in Nat /\ job'[j].fence \in Nat
    BY <1>2, <2>1 DEF Job
  <2>5. wk'[w].fence <= job'[j].fence
    BY <1>2, <1>4, <2>2, <2>3, <2>4
  <2>6. ASSUME wk'[w].fence = job'[j].fence
        PROVE  \/ job'[j].state \in Leased /\ job'[j].owner = w
               \/ job'[j].state \in {"ACCEPTED", "REJECTED", "FAILED"}
    <3>1. wk[w].fence = job[j].fence /\ job'[j].fence = job[j].fence
      BY <1>2, <1>4, <2>2, <2>3, <2>4, <2>6
    <3>2. \/ job[j].state \in Leased /\ job[j].owner = w
          \/ job[j].state \in {"ACCEPTED", "REJECTED", "FAILED"}
      BY <2>2, <3>1
    <3>3. job[j].state \in {"ACCEPTED", "REJECTED", "FAILED"} => job'[j] = job[j]
      BY <1>2, <2>1, TerminalStep DEF Terminal
    <3> HIDE DEF j
    <3> QED BY <2>3, <3>1, <3>2, <3>3
  <2> QED BY <2>5, <2>6
<1>5. WorkStep(w)
  BY DEF Shape
<1> QED BY <1>3, <1>4, <1>5 DEF WorkStep

(* A token that still matches its job belongs to the worker holding the    *)
(* lease, so an overtaken worker can write nothing.                        *)
THEOREM FenceCurrentCorrect == Spec => []FenceCurrent
<1>1. Init => FenceCurrent
  BY DEF Init, NoWork, FenceCurrent, LeasePcs
<1>2. TypeOK /\ RowsInv /\ FenceCurrent /\ [Next]_vars => FenceCurrent'
  BY StepShape, FenceStep
<1> QED BY <1>1, <1>2, TypeCorrect, RowsInvCorrect, PTL DEF Spec

-----------------------------------------------------------------------------
(* What a step can do to a stream and to its releases. *)

Unmoved == stream' = stream /\ releases' = releases

Moved(s) ==
  /\ \E st \in {"ACTIVE", "PAUSED"} :
       /\ st # stream[s].state
       /\ stream' = [stream EXCEPT ![s] = Switched(@, st)]
  /\ releases' = releases

LEMMA LineStep ==
  ASSUME [Next]_vars
  PROVE  \/ Unmoved
         \/ \E s \in Streams : Moved(s)
         \/ \E w \in Workers : FinishAccept(w)
<1>1. CASE UNCHANGED vars
  BY <1>1 DEF vars, Unmoved
<1>2. ASSUME NEW c \in Clients, SubmitCheck(c) \/ SubmitCommit(c) \/ SubmitAbort(c)
      PROVE  Unmoved
  BY <1>2 DEF SubmitCheck, SubmitCommit, SubmitAbort, Unmoved
<1>3. ASSUME NEW j \in Jobs, CancelJob(j) \/ LeaseExpires(j)
      PROVE  Unmoved
  BY <1>3 DEF CancelJob, LeaseExpires, Unmoved
<1>4. ASSUME NEW s \in Streams, PauseStream(s) \/ ResumeStream(s)
      PROVE  Moved(s)
  <2>1. CASE PauseStream(s)
    BY <2>1 DEF PauseStream, Moved
  <2>2. CASE ResumeStream(s)
    BY <2>2 DEF ResumeStream, Moved
  <2> QED BY <1>4, <2>1, <2>2
<1>5. CASE RotateTrust
  BY SMTT(30), <1>5 DEF RotateTrust, Unmoved
<1>6. ASSUME NEW w \in Workers, WorkerStep(w) \/ Heartbeat(w) \/ Crash(w)
      PROVE  Unmoved \/ FinishAccept(w)
  BY <1>6 DEF WorkerStep, PickOldest, Lease, LeaseRaceLost, Evaluate, RecordFailure, Advance,
        LoseLease, FinishStale, FinishFailed, FinishReject, Tick, Heartbeat, Crash, Unmoved
<1> QED BY <1>1, <1>2, <1>3, <1>4, <1>5, <1>6 DEF Next

(* The one place where the three revisions meet: a job that is not stale,  *)
(* whose pinned release exists, was decided against the head.              *)
LEMMA PinnedIsHead ==
  ASSUME TypeOK, LineLinear, NEW w \in Workers, FinishAccept(w)
  PROVE  LET j == wk[w].job
             s == job[j].stream IN
         /\ stream[s].head = stream[s].revision
         /\ job[j].rev = stream[s].head
         /\ stream[s].state = "ACTIVE"
<1> DEFINE j == wk[w].job
           s == job[j].stream
<1>1. j \in Jobs /\ s \in Streams /\ stream[s] \in StreamRow
  BY Accepts
<1>2. stream[s].revision \in Nat /\ stream[s].head \in Nat
  BY <1>1 DEF StreamRow
<1>3. stream[s].state = "ACTIVE" /\ stream[s].revision = job[j].rev
  BY Accepts
<1>4. PICK r \in releases : r.stream = s /\ r.revision = job[j].rev
  <2>1. HasRelease(s, job[j].rev)
    BY Accepts
  <2> QED BY <2>1 DEF HasRelease
<1> HIDE DEF j, s
<1>5. r.revision <= stream[s].head /\ stream[s].head <= stream[s].revision
  BY <1>1, <1>4 DEF LineLinear
<1>6. /\ stream[s].head = stream[s].revision /\ job[j].rev = stream[s].head
      /\ stream[s].state = "ACTIVE"
  BY <1>2, <1>3, <1>4, <1>5
<1> QED BY <1>6 DEF j, s

LEMMA MovedLine ==
  ASSUME TypeOK, LineLinear, NEW s \in Streams, Moved(s)
  PROVE  LineLinear'
<1>1. \A t \in Streams : /\ stream'[t].head = stream[t].head
                         /\ stream[t].revision <= stream'[t].revision
                         /\ stream[t].revision \in Nat /\ stream'[t].revision \in Nat
                         /\ stream[t].head \in Nat
  BY DEF Moved, Switched, TypeOK, StreamRow
<1>2. \A t \in Streams : stream'[t].head <= stream'[t].revision
  BY <1>1 DEF LineLinear
<1>3. \A r \in releases : r.stream \in Streams
  BY DEF TypeOK, Release
<1> QED BY <1>1, <1>2, <1>3 DEF LineLinear, HasRelease, Moved

LEMMA AcceptedLine ==
  ASSUME TypeOK, LineLinear, NEW w \in Workers, FinishAccept(w)
  PROVE  LineLinear'
<1> DEFINE j == wk[w].job
           s == job[j].stream
           n == stream[s].revision
           x == ReleaseOf(j)
<1>1. /\ s \in Streams /\ x \in Release /\ releases' = releases \cup {x}
      /\ stream' = [stream EXCEPT ![s] = HeadMoved(@)]
  BY AcceptLine
<1>2. stream[s].head = n /\ n \in Nat
  <2>1. stream[s] \in StreamRow
    BY Accepts
  <2> QED BY <2>1, PinnedIsHead DEF StreamRow
<1>3. j \in Jobs /\ j # 0
  BY Accepts
<1>4. x.stream = s /\ x.revision = n + 1 /\ x.parent = n /\ x.job = j
  BY SMTT(40), <1>2 DEF ReleaseOf
<1>5. /\ stream'[s].head = n + 1 /\ stream'[s].revision = n + 1
      /\ \A t \in Streams : t # s => stream'[t] = stream[t]
  BY <1>1 DEF HeadMoved, TypeOK
<1>6. \A r \in releases : r.stream \in Streams /\ r.revision \in Nat /\ r.parent \in Int
  BY DEF TypeOK, Release
<1>7. \A r \in releases : r.stream = s => r.revision <= n
  BY <1>2 DEF LineLinear
<1> HIDE DEF j, s, n, x
<1>8. \A t \in Streams : /\ \E r \in releases' : r.stream = t /\ r.revision = stream'[t].head
                         /\ stream'[t].head <= stream'[t].revision
  <2> SUFFICES ASSUME NEW t \in Streams
               PROVE  (\E r \in releases' : r.stream = t /\ r.revision = stream'[t].head)
                      /\ stream'[t].head <= stream'[t].revision
    OBVIOUS
  <2>1. CASE t = s
    BY <2>1, <1>1, <1>2, <1>4, <1>5
  <2>2. CASE t # s
    BY <2>2, <1>1, <1>5 DEF LineLinear, HasRelease
  <2> QED BY <2>1, <2>2
<1>9. \A r \in releases' : r.revision <= stream'[r.stream].head
  <2> SUFFICES ASSUME NEW r \in releases' PROVE r.revision <= stream'[r.stream].head
    OBVIOUS
  <2>1. CASE r = x
    BY <2>1, <1>2, <1>4, <1>5
  <2>2. CASE r \in releases /\ r.stream = s
    BY <2>2, <1>2, <1>5, <1>6, <1>7
  <2>3. CASE r \in releases /\ r.stream # s
    BY <2>3, <1>5, <1>6 DEF LineLinear
  <2> QED BY <1>1, <2>1, <2>2, <2>3
<1>10. \A r, q \in releases' : r.stream = q.stream =>
         /\ r.revision = q.revision => r = q
         /\ q.revision < r.revision => q.revision <= r.parent
  <2> SUFFICES ASSUME NEW r \in releases', NEW q \in releases', r.stream = q.stream
               PROVE  /\ r.revision = q.revision => r = q
                      /\ q.revision < r.revision => q.revision <= r.parent
    OBVIOUS
  <2>1. CASE r \in releases /\ q \in releases
    BY <2>1 DEF LineLinear
  <2>2. CASE r = x /\ q \in releases
    BY <2>2, <1>2, <1>4, <1>6, <1>7
  <2>3. CASE r \in releases /\ q = x
    BY <2>3, <1>2, <1>4, <1>6, <1>7
  <2>4. CASE r = x /\ q = x
    BY <2>4, <1>2, <1>4
  <2> QED BY <1>1, <2>1, <2>2, <2>3, <2>4
<1>11. \A r \in releases' :
         \/ r.revision = 0 /\ r.job = 0
         \/ /\ r.parent < r.revision /\ r.job # 0
            /\ \E q \in releases' : q.stream = r.stream /\ q.revision = r.parent
  <2> SUFFICES ASSUME NEW r \in releases'
               PROVE  \/ r.revision = 0 /\ r.job = 0
                      \/ /\ r.parent < r.revision /\ r.job # 0
                         /\ \E q \in releases' : q.stream = r.stream /\ q.revision = r.parent
    OBVIOUS
  <2>1. CASE r \in releases
    BY <2>1, <1>1 DEF LineLinear, HasRelease
  <2>2. CASE r = x
    <3>1. \E q \in releases : q.stream = s /\ q.revision = n
      BY <1>1, <1>2 DEF LineLinear, HasRelease
    <3> QED BY <2>2, <3>1, <1>1, <1>2, <1>3, <1>4
  <2> QED BY <1>1, <2>1, <2>2
<1> QED BY <1>8, <1>9, <1>10, <1>11 DEF LineLinear, HasRelease

(* The releases of a stream form one line and the head is its newest.      *)
THEOREM LineLinearCorrect == Spec => []LineLinear
<1>1. Init => LineLinear
  <2> SUFFICES ASSUME Init PROVE LineLinear
    OBVIOUS
  <2>1. \A s \in Streams : stream[s].head = 0 /\ stream[s].revision = 0
    BY DEF Init
  <2>2. \A s \in Streams : GenesisRow(s) \in releases
    BY DEF Init
  <2>3. \A r \in releases : /\ r = GenesisRow(r.stream) /\ r.stream \in Streams
                            /\ r.revision = 0 /\ r.job = 0
    BY DEF Init, GenesisRow
  <2>4. \A s \in Streams : GenesisRow(s).stream = s /\ GenesisRow(s).revision = 0
    BY DEF GenesisRow
  <2>5. \A s \in Streams : HasRelease(s, stream[s].head) /\ stream[s].head <= stream[s].revision
    BY <2>1, <2>2, <2>4 DEF HasRelease
  <2> QED BY <2>1, <2>3, <2>5 DEF LineLinear
<1>2. TypeOK /\ LineLinear /\ [Next]_vars => LineLinear'
  <2> SUFFICES ASSUME TypeOK, LineLinear, [Next]_vars PROVE LineLinear'
    OBVIOUS
  <2>1. CASE Unmoved
    BY <2>1 DEF Unmoved, LineLinear, HasRelease
  <2> QED BY <2>1, LineStep, MovedLine, AcceptedLine
<1> QED BY <1>1, <1>2, TypeCorrect, PTL DEF Spec

(* No lost update: every release was decided against the one it extends.   *)
THEOREM NoLostUpdateCorrect == Spec => []NoLostUpdate
<1>1. Init => NoLostUpdate
  BY DEF Init, NoLostUpdate, GenesisRow
<1>2. TypeOK /\ LineLinear /\ NoLostUpdate /\ [Next]_vars => NoLostUpdate'
  <2> SUFFICES ASSUME TypeOK, LineLinear, NoLostUpdate, [Next]_vars PROVE NoLostUpdate'
    OBVIOUS
  <2>1. CASE releases' = releases
    BY <2>1 DEF NoLostUpdate
  <2>2. ASSUME NEW w \in Workers, FinishAccept(w) PROVE NoLostUpdate'
    <3>1. ReleaseOf(wk[w].job).pinned = ReleaseOf(wk[w].job).parent
      BY <2>2, PinnedIsHead DEF ReleaseOf
    <3>2. releases' = releases \cup {ReleaseOf(wk[w].job)}
      BY <2>2, AcceptLine
    <3> QED BY <3>1, <3>2 DEF NoLostUpdate
  <2> QED BY <2>1, <2>2, LineStep DEF Unmoved, Moved
<1> QED BY <1>1, <1>2, TypeCorrect, LineLinearCorrect, PTL DEF Spec

-----------------------------------------------------------------------------
(* The refinement mapping, named so that steps can be compared. *)

lineRevision  == [s \in Streams |-> stream[s].revision]
lineOpen      == [s \in Streams |-> stream[s].state = "ACTIVE"]
lineHead      == [s \in Streams |-> stream[s].head]
LineRelease(r) == [stream |-> r.stream, revision |-> r.revision,
                   parent |-> r.parent, decidedOn |-> r.pinned]
linePublished == {LineRelease(r) : r \in releases}

LEMMA InitLine == Init => Line!Init
<1> SUFFICES ASSUME Init PROVE Line!Init
  OBVIOUS
<1>1. \A s \in Streams : stream[s] = [state |-> "ACTIVE", revision |-> 0, head |-> 0]
  BY DEF Init
<1>2. \A s \in Streams : LineRelease(GenesisRow(s)) = Line!Genesis(s)
  BY DEF LineRelease, GenesisRow, Line!Genesis
<1>3. linePublished = {Line!Genesis(s) : s \in Streams}
  BY <1>2 DEF linePublished, Init
<1>4. lineRevision = [s \in Streams |-> 0] /\ lineHead = [s \in Streams |-> 0]
  BY <1>1 DEF lineRevision, lineHead
<1>5. \A s \in Streams : stream[s].state = "ACTIVE"
  BY <1>1
<1>6. lineOpen = [s \in Streams |-> TRUE]
  BY <1>5, Zenon DEF lineOpen
<1> QED BY <1>3, <1>4, <1>6
        DEF Line!Init, lineRevision, lineOpen, lineHead, linePublished, LineRelease

(* A pause or a resume is the Control of the line. *)
LEMMA MovedIsControl ==
  ASSUME TypeOK, NEW s \in Streams, Moved(s)
  PROVE  Line!Control(s)
<1>1. stream[s] \in StreamRow
  BY DEF TypeOK
<1>2. PICK st \in {"ACTIVE", "PAUSED"} :
        st # stream[s].state /\ stream' = [stream EXCEPT ![s] = Switched(@, st)]
  BY DEF Moved
<1>3. /\ stream'[s].state = st /\ stream'[s].head = stream[s].head
      /\ stream'[s].revision = stream[s].revision + 1
      /\ \A t \in Streams : t # s => stream'[t] = stream[t]
  BY <1>2 DEF Switched, TypeOK
<1>4. (st = "ACTIVE") <=> ~(stream[s].state = "ACTIVE")
  BY <1>1, <1>2 DEF StreamRow
<1>5. lineRevision' = [lineRevision EXCEPT ![s] = @ + 1]
  BY <1>3 DEF lineRevision
<1>6. lineOpen' = [lineOpen EXCEPT ![s] = ~@]
  BY <1>3, <1>4, Zenon DEF lineOpen
<1>7. lineHead' = lineHead
  BY <1>3 DEF lineHead
<1>8. linePublished' = linePublished
  BY DEF linePublished, Moved
<1> QED BY <1>5, <1>6, <1>7, <1>8
        DEF Line!Control, lineRevision, lineOpen, lineHead, linePublished, LineRelease

(* An acceptance is the Publish of the line. *)
LEMMA AcceptIsPublish ==
  ASSUME TypeOK, LineLinear, NEW w \in Workers, FinishAccept(w)
  PROVE  \E t \in Streams : Line!Publish(t)
<1> DEFINE j == wk[w].job
           x == ReleaseOf(j)
<1> PICK s \in Streams : s = job[j].stream
  BY AcceptLine
<1>1. /\ s \in Streams /\ releases' = releases \cup {x}
      /\ stream' = [stream EXCEPT ![s] = HeadMoved(@)]
  BY AcceptLine
<1>2. stream[s].head = job[j].rev /\ stream[s].state = "ACTIVE"
  BY PinnedIsHead
<1>3. LineRelease(x) = [stream |-> s, revision |-> stream[s].revision + 1,
                        parent |-> stream[s].head, decidedOn |-> stream[s].head]
  BY <1>2 DEF LineRelease, ReleaseOf
<1> HIDE DEF j, x
<1>4. /\ stream'[s].state = stream[s].state /\ stream'[s].head = stream[s].revision + 1
      /\ stream'[s].revision = stream[s].revision + 1
      /\ \A t \in Streams : t # s => stream'[t] = stream[t]
  BY <1>1 DEF HeadMoved, TypeOK
<1>5. lineOpen[s]
  BY <1>1, <1>2 DEF lineOpen
<1>6. lineRevision' = [lineRevision EXCEPT ![s] = @ + 1]
  BY <1>4 DEF lineRevision
<1>7. lineHead' = [lineHead EXCEPT ![s] = stream[s].revision + 1]
  BY <1>4 DEF lineHead
<1>8. lineOpen' = lineOpen
  BY ZenonT(40), <1>4 DEF lineOpen
<1>9. lineRevision[s] = stream[s].revision /\ lineHead[s] = stream[s].head
  BY <1>1 DEF lineRevision, lineHead
<1>10. linePublished' = linePublished \cup {LineRelease(x)}
  BY <1>1 DEF linePublished
<1>11. linePublished' = linePublished \cup
         {[stream |-> s, revision |-> lineRevision[s] + 1,
           parent |-> lineHead[s], decidedOn |-> lineHead[s]]}
  BY <1>3, <1>9, <1>10
<1>12. Line!Publish(s)
  BY <1>5, <1>6, <1>7, <1>8, <1>11
  DEF Line!Publish, lineRevision, lineOpen, lineHead, linePublished, LineRelease
<1> QED BY <1>12

(* The pipeline implements the release line: every step of it publishes on *)
(* top of the head, pauses or resumes a stream, or is invisible.           *)
THEOREM LineImplemented == Spec => ImplementsLine
<1>1. TypeOK /\ LineLinear /\ [Next]_vars => [Line!Next]_Line!lineVars
  <2> SUFFICES ASSUME TypeOK, LineLinear, [Next]_vars PROVE [Line!Next]_Line!lineVars
    OBVIOUS
  <2>1. CASE Unmoved
    BY <2>1 DEF Unmoved, Line!lineVars
  <2>2. ASSUME NEW s \in Streams, Moved(s) PROVE Line!Next
    BY <2>2, MovedIsControl DEF Line!Next
  <2>3. ASSUME NEW w \in Workers, FinishAccept(w) PROVE Line!Next
    BY <2>3, AcceptIsPublish DEF Line!Next
  <2> QED BY <2>1, <2>2, <2>3, LineStep
<1> QED BY <1>1, InitLine, TypeCorrect, LineLinearCorrect, PTL DEF Spec, ImplementsLine, Line!Spec

-----------------------------------------------------------------------------
(* What a submission wrote into a row stays there. *)
LEMMA RequestKept ==
  ASSUME TypeOK, NEW j \in Jobs, RowStep(j), job[j].state # "NONE"
  PROVE  /\ job'[j].state # "NONE"
         /\ job'[j].stream = job[j].stream /\ job'[j].rev = job[j].rev
         /\ job'[j].cand = job[j].cand /\ job'[j].trust = job[j].trust
         /\ job'[j].pred = job[j].pred /\ job'[j].round = job[j].round
<1>1. job[j] \in Job
  BY DEF TypeOK
<1>2. ~Inserted(j)
  BY ConstantsAssumption DEF Inserted, TypeOK
<1>3. CASE LeasedOut(j)
  BY <1>1, <1>3, GrantedRow DEF LeasedOut
<1>4. CASE Scoring(j) \/ Renewed(j) \/ RanOut(j)
  BY <1>1, <1>4 DEF Scoring, Renewed, RanOut, Job
<1>5. CASE Stopped(j)
  BY <1>1, <1>5, FencedRow DEF Stopped, Terminal
<1>6. CASE Decided(j)
  BY <1>1, <1>6, ReleasedRow DEF Decided, Terminal
<1>7. CASE Requeued(j)
  BY <1>1, <1>7, FencedRow, ReleasedRow DEF Requeued, Recovered, Pending, Terminal
<1> QED BY <1>2, <1>3, <1>4, <1>5, <1>6, <1>7 DEF RowStep

-----------------------------------------------------------------------------
(* What a step can do to the place of a worker in its loop. *)
LEMMA PlaceStep ==
  ASSUME TypeOK, [Next]_vars, NEW w \in Workers
  PROVE  \/ wk'[w] = wk[w]
         \/ wk'[w].pc \notin LeasePcs
         \/ Lease(w) \/ Evaluate(w) \/ Advance(w)
<1> DEFINE Kept == wk'[w] = wk[w] \/ wk'[w].pc \notin LeasePcs
<1>1. CASE UNCHANGED vars
  BY <1>1 DEF vars
<1>2. ASSUME NEW c \in Clients, SubmitCheck(c) \/ SubmitCommit(c) \/ SubmitAbort(c)
      PROVE  Kept
  BY <1>2 DEF SubmitCheck, SubmitCommit, SubmitAbort
<1>3. ASSUME NEW j \in Jobs, CancelJob(j) \/ LeaseExpires(j)
      PROVE  Kept
  BY <1>3 DEF CancelJob, LeaseExpires
<1>4. ASSUME NEW s \in Streams, PauseStream(s) \/ ResumeStream(s)
      PROVE  Kept
  BY <1>4 DEF PauseStream, ResumeStream
<1>5. CASE RotateTrust
  BY <1>5 DEF RotateTrust
<1>6. ASSUME NEW v \in Workers, Drop(v)
      PROVE  Kept
  BY <1>6 DEF Drop, NoWork, TypeOK, LeasePcs
<1>7. ASSUME NEW v \in Workers, NEW pc \in {"idle", "ticking"}, Goto(v, pc)
      PROVE  Kept
  BY <1>7 DEF Goto, TypeOK, Work, LeasePcs
<1>8. ASSUME NEW v \in Workers, v # w, Evaluate(v) \/ Advance(v) \/ Lease(v)
      PROVE  Kept
  <2>1. CASE Evaluate(v)
    <3>1. PICK pc \in LeasePcs : Goto(v, pc)
      BY <2>1 DEF Evaluate, LeasePcs
    <3> QED BY <3>1, <1>8 DEF Goto, TypeOK
  <2>2. CASE Advance(v)
    <3>1. Goto(v, "finishing")
      BY <2>2 DEF Advance
    <3> QED BY <3>1, <1>8 DEF Goto, TypeOK
  <2>3. CASE Lease(v)
    <3>1. PICK q : wk' = [wk EXCEPT ![v] = q]
      BY <2>3 DEF Lease
    <3> QED BY <3>1, <1>8 DEF TypeOK
  <2> QED BY <1>8, <2>1, <2>2, <2>3
<1>9. ASSUME NEW v \in Workers, PickOldest(v) \/ LeaseRaceLost(v)
      PROVE  Kept
  <2> DEFINE lost == [NoWork EXCEPT !.pc = "ticking"]
  <2>1. CASE LeaseRaceLost(v)
    <3>1. wk' = [wk EXCEPT ![v] = lost] /\ lost.pc = "ticking"
      BY <2>1 DEF LeaseRaceLost, NoWork
    <3> HIDE DEF lost
    <3> QED BY <3>1 DEF TypeOK, LeasePcs
  <2>2. CASE PickOldest(v) /\ Queued = {}
    <3>1. Goto(v, "ticking")
      BY <2>2 DEF PickOldest
    <3> QED BY <3>1, <1>7
  <2>3. CASE PickOldest(v) /\ Queued # {}
    <3>1. PICK j \in Queued : wk' = [wk EXCEPT ![v] = [pc |-> "leasing", job |-> j, fence |-> 0]]
      BY <2>3 DEF PickOldest
    <3>2. wk'[v].pc = "leasing" /\ (v # w => wk'[w] = wk[w])
      BY <3>1 DEF TypeOK
    <3> QED BY <3>2 DEF LeasePcs
  <2> QED BY <1>9, <2>1, <2>2, <2>3
<1>10. ASSUME NEW v \in Workers, WorkerStep(v) \/ Heartbeat(v) \/ Crash(v)
       PROVE  Kept \/ Lease(w) \/ Evaluate(w) \/ Advance(w)
  <2>1. CASE PickOldest(v) \/ LeaseRaceLost(v)
    BY <1>9, <2>1
  <2>2. CASE Lease(v) \/ Evaluate(v) \/ Advance(v)
    BY <1>8, <2>2
  <2>3. CASE RecordFailure(v) \/ LoseLease(v) \/ FinishStale(v) \/ FinishFailed(v)
             \/ FinishReject(v) \/ FinishAccept(v) \/ Crash(v)
    <3>1. Drop(v)
      BY <2>3 DEF RecordFailure, LoseLease, FinishStale, FinishFailed, FinishReject,
                  FinishAccept, Crash
    <3> QED BY <3>1, <1>6
  <2>4. CASE Tick(v)
    BY <2>4, <1>7 DEF Tick
  <2>5. CASE Heartbeat(v)
    BY <2>5 DEF Heartbeat
  <2> QED BY <1>10, <2>1, <2>2, <2>3, <2>4, <2>5 DEF WorkerStep
<1> QED BY <1>1, <1>2, <1>3, <1>4, <1>5, <1>10 DEF Next

(* A worker that goes on to rpc_advance has seen no leak. *)
StageInv ==
  /\ StageMatchesLoop
  /\ \A w \in Workers : wk[w].pc = "advancing" => VerdictOf(job[wk[w].job]) # "leak"

(* A request never changes, and what is evaluated is the request. *)
LEMMA VerdictKept ==
  ASSUME TypeOK, NEW j \in Jobs, RowStep(j), job[j].state # "NONE"
  PROVE  VerdictOf(job'[j]) = VerdictOf(job[j])
BY RequestKept DEF VerdictOf

(* Only the holder of a job can have advanced it. *)
LEMMA AdvancedBy ==
  ASSUME TypeOK, NEW j \in Jobs, Scoring(j)
  PROVE  \E v \in Workers : /\ Advance(v) /\ wk[v].job = j /\ wk[v].pc = "advancing"
                            /\ job[j].owner = v /\ wk'[v].pc = "finishing"
<1>1. PICK v \in Workers : Advance(v) /\ wk[v].job = j
  BY DEF Scoring
<1>2. wk[v].pc = "advancing" /\ HoldsLease(v) /\ Goto(v, "finishing")
  BY <1>1 DEF Advance
<1>3. job[j].owner = v
  BY <1>1, <1>2 DEF HoldsLease
<1>4. wk'[v].pc = "finishing"
  BY <1>2 DEF Goto, TypeOK, Work
<1> QED BY <1>1, <1>2, <1>3, <1>4

(* A worker that holds its lease after a step in which its place did not   *)
(* change held it before, and its job is in the stage it was in.           *)
LEMMA HolderKept ==
  ASSUME TypeOK, RowsInv, FenceCurrent, Shape, NEW w \in Workers,
         wk'[w] = wk[w], wk[w].pc \in LeasePcs, HoldsLease(w)'
  PROVE  HoldsLease(w) /\ job'[wk[w].job].state = job[wk[w].job].state
<1> DEFINE j == wk[w].job
           r == job[j]
           q == job'[j]
<1>0. j \in Jobs /\ r \in Job /\ r.state # "NONE"
  BY HeldJob
<1>1. j \in Jobs /\ r \in Job /\ r.state # "NONE" /\ r.fence \in Nat
  BY <1>0 DEF Job
<1>2. q \in Job /\ q.fence \in Nat /\ wk[w].fence \in Nat
  BY <1>1 DEF Shape, TypeOK, Job, Work
<1>3. q.state \notin Terminal /\ q.owner = w /\ q.fence = wk[w].fence
  BY DEF HoldsLease
<1>4. RowStep(j)
  BY <1>1 DEF Shape
<1>5. /\ wk[w].fence <= r.fence /\ r.fence <= q.fence
      /\ q.fence = r.fence =>
           q = r \/ q.state \in Leased \/ q.state \in {"ACCEPTED", "REJECTED", "FAILED"}
  <2>1. j <= created
    BY ConstantsAssumption DEF TypeOK
  <2>2. wk[w].fence <= r.fence
    BY DEF FenceCurrent
  <2>3. /\ r.fence <= q.fence
        /\ q.fence = r.fence =>
             q = r \/ q.state \in Leased \/ q.state \in {"ACCEPTED", "REJECTED", "FAILED"}
    BY <1>1, <1>4, <2>1, FenceMonotone
  <2> QED BY <2>2, <2>3
<1>6. r.fence = q.fence /\ wk[w].fence = r.fence
  BY <1>1, <1>2, <1>3, <1>5
<1>7. \/ r.state \in Leased /\ r.owner = w
      \/ r.state \in {"ACCEPTED", "REJECTED", "FAILED"}
  BY <1>6 DEF FenceCurrent
<1>8. r.state \notin Terminal
  <2>1. r.state \in Terminal => q = r
    BY <1>1, <1>4, TerminalStep
  <2> QED BY <1>3, <2>1
<1>9. r.state \in Leased /\ r.owner = w
  BY <1>7, <1>8 DEF Terminal
<1>10. HoldsLease(w)
  BY <1>6, <1>8, <1>9 DEF HoldsLease
<1>11. q = r \/ q.state \in Leased
  BY <1>3, <1>5, <1>6 DEF Terminal
<1>12. ~Scoring(j)
  <2>1. ASSUME Scoring(j) PROVE FALSE
    <3>1. PICK v \in Workers : /\ wk[v].pc = "advancing" /\ r.owner = v
                               /\ wk'[v].pc = "finishing"
      BY <1>1, <2>1, AdvancedBy
    <3> QED BY <1>9, <3>1
  <2> QED BY <2>1
<1>13. ~Inserted(j) /\ ~LeasedOut(j)
  BY <1>1, <1>9, ConstantsAssumption DEF Inserted, LeasedOut, TypeOK, Leased
<1>14. ~Stopped(j) /\ ~Decided(j)
  BY <1>1, <1>3, FencedRow, ReleasedRow DEF Stopped, Decided, Terminal
<1>15. ~Requeued(j)
  <2>1. Recovered(r).state \in {"QUEUED", "FAILED"}
    BY <1>1, FencedRow, ReleasedRow DEF Recovered, Pending, Terminal
  <2>2. ASSUME Requeued(j) PROVE FALSE
    <3>1. q.state \in {"QUEUED", "FAILED"}
      BY <2>1, <2>2 DEF Requeued
    <3>2. q = r \/ q.state \notin Leased
      BY <3>1 DEF Leased
    <3> QED BY <1>9, <1>11, <3>1, <3>2 DEF Leased
  <2> QED BY <2>2
<1>16. Renewed(j) \/ RanOut(j) => q.state = r.state
  BY <1>1 DEF Renewed, RanOut, Job
<1>17. q.state = r.state
  BY <1>4, <1>12, <1>13, <1>14, <1>15, <1>16 DEF RowStep
<1> QED BY <1>10, <1>17

LEMMA StageStep ==
  ASSUME TypeOK, RowsInv, FenceCurrent, StageInv, [Next]_vars
  PROVE  StageInv'
<1>1. Shape /\ TypeOK'
  BY StepShape DEF Shape
<1>2. ASSUME NEW w \in Workers, wk'[w].pc \in LeasePcs
      PROVE  /\ HoldsLease(w)' =>
                  job'[wk'[w].job].state =
                    IF wk'[w].pc = "finishing" /\ VerdictOf(job'[wk'[w].job]) # "leak"
                      THEN "SCORING" ELSE "FILTERING"
             /\ wk'[w].pc = "advancing" => VerdictOf(job'[wk'[w].job]) # "leak"
  <2> DEFINE j == wk[w].job
  <2>1. CASE wk'[w] = wk[w]
    <3>1. j \in Jobs /\ job[j].state # "NONE" /\ RowStep(j)
      BY <1>1, <1>2, <2>1, HeldJob DEF Shape
    <3>2. VerdictOf(job'[j]) = VerdictOf(job[j])
      BY <3>1, VerdictKept
    <3>3. HoldsLease(w)' => HoldsLease(w) /\ job'[j].state = job[j].state
      BY <1>1, <1>2, <2>1, HolderKept
    <3>4. HoldsLease(w) => job[j].state = IF wk[w].pc = "finishing" /\ VerdictOf(job[j]) # "leak"
                                            THEN "SCORING" ELSE "FILTERING"
      BY <1>2, <2>1 DEF StageInv, StageMatchesLoop
    <3>5. wk[w].pc = "advancing" => VerdictOf(job[j]) # "leak"
      BY DEF StageInv
    <3> QED BY <2>1, <3>2, <3>3, <3>4, <3>5
  <2>2. CASE Lease(w)
    <3>1. j \in Jobs /\ job[j] \in Job
      BY <2>2, ConstantsAssumption DEF TypeOK, Lease, Jobs
    <3>2. job'[j] = Granted(job[j], w) /\ wk'[w].job = j /\ wk'[w].pc = "evaluating"
      BY <2>2, <3>1 DEF TypeOK, Lease
    <3>3. job'[j].state = "FILTERING"
      BY <3>1, <3>2, GrantedRow
    <3> QED BY <3>2, <3>3
  <2>3. CASE Evaluate(w)
    <3>1. job' = job /\ wk[w].pc = "evaluating"
      BY <2>3 DEF Evaluate
    <3>2. PICK pc \in {"failing", "advancing", "finishing"} :
            /\ Goto(w, pc)
            /\ pc = "finishing" => VerdictOf(job[j]) = "leak"
            /\ pc = "advancing" => VerdictOf(job[j]) # "leak"
      BY <2>3 DEF Evaluate
    <3>3. wk'[w].pc = pc /\ wk'[w].job = j /\ wk'[w].fence = wk[w].fence
      BY <3>2 DEF Goto, TypeOK, Work
    <3>4. HoldsLease(w)' => HoldsLease(w)
      BY <3>1, <3>3 DEF HoldsLease
    <3>5. HoldsLease(w) => job[j].state = "FILTERING"
      BY <3>1 DEF StageInv, StageMatchesLoop, LeasePcs
    <3> QED BY <3>1, <3>2, <3>3, <3>4, <3>5
  <2>4. CASE Advance(w)
    <3>1. /\ wk[w].pc = "advancing" /\ Goto(w, "finishing") /\ job[j].state = "FILTERING"
          /\ job' = [job EXCEPT ![j].state = "SCORING"]
      BY <2>4 DEF Advance
    <3>2. j \in Jobs /\ job[j] \in Job /\ job[j].state # "NONE"
      BY <3>1, HeldJob DEF LeasePcs
    <3>3. wk'[w].pc = "finishing" /\ wk'[w].job = j
      BY <3>1 DEF Goto, TypeOK, Work
    <3>4. job'[j].state = "SCORING"
      BY <3>1, <3>2 DEF TypeOK, Job
    <3>5. VerdictOf(job'[j]) # "leak"
      BY <1>1, <3>1, <3>2, VerdictKept DEF StageInv, Shape
    <3> QED BY <3>3, <3>4, <3>5
  <2> QED BY <1>2, <2>1, <2>2, <2>3, <2>4, PlaceStep
<1>3. ASSUME NEW j \in Jobs, job'[j].state = "SCORING"
      PROVE  VerdictOf(job'[j]) # "leak"
  <2>1. RowStep(j) /\ job[j] \in Job
    BY <1>1 DEF Shape, TypeOK
  <2>2. CASE job[j].state = "SCORING"
    BY <2>1, <2>2, VerdictKept DEF StageInv, StageMatchesLoop
  <2>3. CASE Scoring(j)
    <3>1. PICK v \in Workers : wk[v].pc = "advancing" /\ wk[v].job = j
      BY <2>3, AdvancedBy
    <3>2. VerdictOf(job[j]) # "leak" /\ job[j].state # "NONE"
      BY <2>3, <3>1 DEF StageInv, Scoring
    <3> QED BY <2>1, <3>2, VerdictKept
  <2>4. CASE Inserted(j)
    BY <1>3, <2>4, NewJobRow DEF Inserted, TypeOK
  <2>5. CASE LeasedOut(j)
    BY <1>3, <2>1, <2>5, GrantedRow DEF LeasedOut
  <2>6. CASE Renewed(j) \/ RanOut(j)
    <3>1. job'[j].state = job[j].state
      BY <2>1, <2>6 DEF Renewed, RanOut, Job
    <3> QED BY <1>3, <2>2, <3>1
  <2>7. CASE Stopped(j) \/ Decided(j)
    BY <1>3, <2>1, <2>7, FencedRow, ReleasedRow DEF Stopped, Decided, Terminal
  <2>8. CASE Requeued(j)
    <3>1. Recovered(job[j]).state \in {"QUEUED", "FAILED"}
      BY <2>1, FencedRow, ReleasedRow DEF Recovered, Pending, Terminal
    <3> QED BY <1>3, <2>8, <3>1 DEF Requeued
  <2>9. CASE job'[j] = job[j]
    BY <1>3, <2>2, <2>9
  <2> QED BY <2>1, <2>3, <2>4, <2>5, <2>6, <2>7, <2>8, <2>9 DEF RowStep
<1>4. \A w \in Workers : wk'[w].pc = "advancing" => wk'[w].pc \in LeasePcs
  BY DEF LeasePcs
<1> QED BY <1>2, <1>3, <1>4 DEF StageInv, StageMatchesLoop

(* The holder of a lease finds its job in the stage it left it in, and     *)
(* nothing that leaks is ever scored.                                      *)
THEOREM StageMatchesLoopCorrect == Spec => []StageMatchesLoop
<1>1. Init => StageInv
  <2>1. ASSUME Init, NEW j \in Jobs PROVE job[j].state = "NONE"
    BY <2>1 DEF Init, Blank
  <2>2. ASSUME Init, NEW w \in Workers PROVE wk[w].pc = "idle"
    BY <2>2 DEF Init, NoWork
  <2> QED BY <2>1, <2>2 DEF StageInv, StageMatchesLoop, LeasePcs
<1>2. TypeOK /\ RowsInv /\ FenceCurrent /\ StageInv /\ [Next]_vars => StageInv'
  BY StageStep
<1>3. StageInv => StageMatchesLoop
  BY DEF StageInv
<1> QED BY <1>1, <1>2, <1>3, TypeCorrect, RowsInvCorrect, FenceCurrentCorrect, PTL DEF Spec

-----------------------------------------------------------------------------
(* Only FinishAccept makes a job ACCEPTED. *)
LEMMA AcceptedBy ==
  ASSUME TypeOK, NEW j \in Jobs, RowStep(j), job'[j].state = "ACCEPTED"
  PROVE  \/ job[j].state = "ACCEPTED"
         \/ \E w \in Workers : FinishAccept(w) /\ wk[w].job = j
<1>1. job[j] \in Job
  BY DEF TypeOK
<1>2. ~Inserted(j)
  <2> SUFFICES ASSUME Inserted(j) PROVE FALSE
    OBVIOUS
  <2>1. PICK c \in Clients : job'[j] = NewJob(client[c])
    BY DEF Inserted
  <2>2. client[c] \in Request
    BY DEF TypeOK
  <2> QED BY <2>1, <2>2, NewJobRow
<1>3. ~LeasedOut(j)
  BY <1>1, GrantedRow DEF LeasedOut
<1>4. CASE Scoring(j) \/ Renewed(j) \/ RanOut(j)
  BY <1>1, <1>4 DEF Scoring, Renewed, RanOut, Job
<1>5. ~Stopped(j)
  BY <1>1, FencedRow DEF Stopped, Terminal
<1>6. CASE Decided(j)
  BY <1>1, <1>6, ReleasedRow DEF Decided, Terminal
<1>7. ~Requeued(j)
  BY <1>1, FencedRow, ReleasedRow DEF Requeued, Recovered, Pending, Terminal
<1> QED BY <1>2, <1>3, <1>4, <1>5, <1>6, <1>7 DEF RowStep

LEMMA AcceptedStep ==
  ASSUME TypeOK, RowsInv, AcceptedIffReleased, [Next]_vars
  PROVE  AcceptedIffReleased'
<1>1. \A j \in Jobs : RowStep(j)
  BY StepShape DEF Shape
<1>2. \A r \in releases : r.job # 0 => r.job \in Jobs /\ job[r.job].state = "ACCEPTED"
  BY ConstantsAssumption DEF TypeOK, Release, Jobs, AcceptedIffReleased
<1>3. \A r \in releases : r.job # 0 => job'[r.job] = job[r.job]
  BY <1>1, <1>2, TerminalStep DEF Terminal
<1>4. \A j \in Jobs : job[j].state = "ACCEPTED" => job'[j].state = "ACCEPTED"
  BY <1>1, TerminalStep DEF Terminal
<1>5. 0 \notin Jobs
  BY DEF Jobs
<1>6. CASE ~\E w \in Workers : FinishAccept(w)
  <2>1. releases' = releases
    BY <1>6, LineStep DEF Unmoved, Moved
  <2>2. \A j \in Jobs : job'[j].state = "ACCEPTED" <=> job[j].state = "ACCEPTED"
    BY <1>1, <1>4, <1>6, AcceptedBy
  <2> QED BY <1>3, <2>1, <2>2 DEF AcceptedIffReleased, Jobs
<1>7. ASSUME NEW w \in Workers, FinishAccept(w)
      PROVE  AcceptedIffReleased'
  <2> DEFINE j == wk[w].job
             x == ReleaseOf(j)
  <2>1. /\ j \in Jobs /\ job[j] \in Job /\ job[j].state \in Pending
        /\ job'[j] = Released(job[j], "ACCEPTED")
        /\ \A i \in Jobs : i # j => \/ job'[i] = job[i]
                                    \/ IsPending(i) /\ job'[i] = Fenced(job[i], "STALE")
    BY <1>7, AcceptRows DEF IsPending
  <2>2. job'[j].state = "ACCEPTED" /\ job'[j].stream = job[j].stream
    BY <2>1, ReleasedRow DEF Terminal
  <2>3. x.job = j /\ x.stream = job[j].stream /\ releases' = releases \cup {x}
    BY <1>7, AcceptLine DEF ReleaseOf
  <2>4. \A i \in Jobs : i # j /\ job'[i].state = "ACCEPTED" => job[i].state = "ACCEPTED"
    BY <2>1, FencedRow DEF TypeOK, Terminal
  <2>5. \A r \in releases : r.job # j
    BY <1>2, <1>5, <2>1 DEF Pending
  <2> HIDE DEF j, x
  <2>6. \A i \in Jobs : job'[i].state = "ACCEPTED" <=> \E r \in releases' : r.job = i
    <3> SUFFICES ASSUME NEW i \in Jobs
                 PROVE  job'[i].state = "ACCEPTED" <=> \E r \in releases' : r.job = i
      OBVIOUS
    <3>1. CASE i = j
      BY <3>1, <2>2, <2>3
    <3>2. CASE i # j
      BY <3>2, <1>4, <2>3, <2>4 DEF AcceptedIffReleased
    <3> QED BY <3>1, <3>2
  <2>7. \A r \in releases' : r.job # 0 =>
          /\ job'[r.job].stream = r.stream
          /\ \A q \in releases' : q.job = r.job => q = r
    <3> SUFFICES ASSUME NEW r \in releases', r.job # 0
                 PROVE  /\ job'[r.job].stream = r.stream
                        /\ \A q \in releases' : q.job = r.job => q = r
      OBVIOUS
    <3>1. CASE r = x
      BY <3>1, <2>2, <2>3, <2>5
    <3>2. CASE r \in releases
      BY <3>2, <1>3, <2>3, <2>5 DEF AcceptedIffReleased
    <3> QED BY <2>3, <3>1, <3>2
  <2> QED BY <2>6, <2>7 DEF AcceptedIffReleased, Jobs
<1> QED BY <1>6, <1>7

(* Table jobs and table releases agree on what was accepted. *)
THEOREM AcceptedIffReleasedCorrect == Spec => []AcceptedIffReleased
<1>1. Init => AcceptedIffReleased
  <2> SUFFICES ASSUME Init PROVE AcceptedIffReleased
    OBVIOUS
  <2>1. \A j \in Jobs : job[j].state = "NONE" /\ j # 0
    BY DEF Init, Blank, Jobs
  <2>2. \A r \in releases : r.job = 0
    BY DEF Init, GenesisRow
  <2> QED BY <2>1, <2>2 DEF AcceptedIffReleased
<1> QED BY <1>1, AcceptedStep, TypeCorrect, RowsInvCorrect, PTL DEF Spec

-----------------------------------------------------------------------------
(* Retries.  What a submission read about its predecessor before its       *)
(* transaction still holds when it inserts, because a rejected job never   *)
(* changes: the reason the checks may stay outside the transaction.        *)

Continues(q, p) ==
  /\ p \in Jobs /\ job[p].state = "REJECTED"
  /\ job[p].stream = q.stream /\ job[p].rev = q.rev /\ job[p].trust = q.trust
  /\ job[p].cand # q.cand
  /\ q.round = job[p].round + 1

RequestInv(c) ==
  client[c].pc = "checked" =>
    /\ client[c].round <= MaxRounds
    /\ client[c].pred # 0 => Continues(client[c], client[c].pred)

LEMMA ClientStep ==
  ASSUME TypeOK, [Next]_vars, NEW c \in Clients
  PROVE  \/ client'[c] = client[c]
         \/ client'[c] = NoRequest
         \/ /\ job' = job
            /\ \E s \in Streams, cand \in Candidates, p \in 0..MaxJobs :
                 /\ p # 0 => CanRetry(p, s, cand)
                 /\ client'[c] = RequestOf(s, cand, p)
<1>1. CASE UNCHANGED vars
  BY <1>1 DEF vars
<1>2. ASSUME NEW d \in Clients, SubmitCheck(d)
      PROVE  \/ client'[c] = client[c]
             \/ /\ job' = job
                /\ \E s \in Streams, cand \in Candidates, p \in 0..MaxJobs :
                     /\ p # 0 => CanRetry(p, s, cand)
                     /\ client'[c] = RequestOf(s, cand, p)
  <2>1. PICK s \in Streams, cand \in Candidates, p \in 0..MaxJobs :
          /\ p # 0 => CanRetry(p, s, cand)
          /\ client' = [client EXCEPT ![d] = RequestOf(s, cand, p)]
    BY <1>2 DEF SubmitCheck
  <2>2. CASE c = d
    <3>1. client'[c] = RequestOf(s, cand, p)
      BY <2>1, <2>2 DEF TypeOK
    <3> QED BY <1>2, <2>1, <3>1 DEF SubmitCheck
  <2>3. CASE c # d
    BY <2>1, <2>3 DEF TypeOK
  <2> QED BY <2>2, <2>3
<1>3. ASSUME NEW d \in Clients, SubmitCommit(d) \/ SubmitAbort(d)
      PROVE  client'[c] = client[c] \/ client'[c] = NoRequest
  BY <1>3 DEF SubmitCommit, SubmitAbort, TypeOK
<1>4. ASSUME NEW j \in Jobs, CancelJob(j) \/ LeaseExpires(j)
      PROVE  client' = client
  BY <1>4 DEF CancelJob, LeaseExpires
<1>5. ASSUME NEW s \in Streams, PauseStream(s) \/ ResumeStream(s)
      PROVE  client' = client
  BY <1>5 DEF PauseStream, ResumeStream
<1>6. ASSUME RotateTrust
      PROVE  client' = client
  BY Zenon, <1>6 DEF RotateTrust
<1>7. ASSUME NEW w \in Workers, WorkerStep(w) \/ Heartbeat(w) \/ Crash(w)
      PROVE  client' = client
  BY Zenon, <1>7 DEF WorkerStep, PickOldest, Lease, LeaseRaceLost, Evaluate, RecordFailure, Advance,
        LoseLease, FinishStale, FinishFailed, FinishReject, FinishAccept, Tick, Heartbeat, Crash
<1> QED BY <1>1, <1>2, <1>3, <1>4, <1>5, <1>6, <1>7 DEF Next

LEMMA RequestStep ==
  ASSUME TypeOK, RowsInv, [Next]_vars, NEW c \in Clients, RequestInv(c)
  PROVE  RequestInv(c)'
<1>1. \A j \in Jobs : RowStep(j)
  BY StepShape DEF Shape
<1>2. CASE client'[c] = client[c]
  BY <1>1, <1>2, TerminalStep DEF RequestInv, Continues, Terminal, Jobs
<1>3. CASE client'[c] = NoRequest
  BY <1>3 DEF RequestInv, NoRequest
<1>4. CASE /\ job' = job
           /\ \E s \in Streams, cand \in Candidates, p \in 0..MaxJobs :
                /\ p # 0 => CanRetry(p, s, cand)
                /\ client'[c] = RequestOf(s, cand, p)
  <2>1. PICK s \in Streams, cand \in Candidates, p \in 0..MaxJobs :
          /\ p # 0 => CanRetry(p, s, cand)
          /\ client'[c] = RequestOf(s, cand, p)
    BY <1>4
  <2>2. p # 0 => p \in Jobs
    BY ConstantsAssumption DEF Jobs
  <2>3. CASE p = 0
    BY <2>1, <2>3, ConstantsAssumption DEF RequestInv, RequestOf
  <2>4. CASE p # 0
    BY <1>4, <2>1, <2>2, <2>4 DEF RequestInv, RequestOf, CanRetry, Continues, Jobs
  <2> QED BY <2>3, <2>4
<1> QED BY <1>2, <1>3, <1>4, ClientStep

LEMMA RetryStep ==
  ASSUME TypeOK, RowsInv, RetryChain, \A c \in Clients : RequestInv(c), [Next]_vars
  PROVE  RetryChain'
<1> DEFINE Exists(i) == job[i].state # "NONE"
<1>1. \A j \in Jobs : RowStep(j)
  BY StepShape DEF Shape
<1>2. \A i \in Jobs : Exists(i) =>
        /\ job'[i].stream = job[i].stream /\ job'[i].rev = job[i].rev
        /\ job'[i].cand = job[i].cand /\ job'[i].trust = job[i].trust
        /\ job'[i].pred = job[i].pred /\ job'[i].round = job[i].round
  BY <1>1, RequestKept
<1>3. \A p \in Jobs : job[p].state = "REJECTED" => job'[p] = job[p]
  BY <1>1, TerminalStep DEF Terminal
<1>4. \A i \in Jobs : job'[i].state # "NONE" => Exists(i) \/ Inserted(i)
  <2> SUFFICES ASSUME NEW i \in Jobs, job'[i].state # "NONE", ~Exists(i)
               PROVE  Inserted(i)
    OBVIOUS
  <2>1. job[i].state = "NONE" /\ job[i].owner = None /\ job[i].lease = "none"
    BY DEF RowsInv, RowInv, Leased
  <2>2. RowStep(i)
    BY <1>1
  <2> QED BY <2>1, <2>2 DEF RowStep, LeasedOut, Scoring, Renewed, RanOut, Stopped, Decided,
         Requeued, IsPending, Pending, Leased
<1>5. \A i \in Jobs : Exists(i) /\ job[i].pred # 0 =>
        job[i].pred \in Jobs /\ job[job[i].pred].state = "REJECTED"
  <2> SUFFICES ASSUME NEW i \in Jobs, Exists(i), job[i].pred # 0
               PROVE  job[i].pred \in Jobs /\ job[job[i].pred].state = "REJECTED"
    OBVIOUS
  <2>1. job[i].pred \in 0..MaxJobs
    BY DEF TypeOK, Job
  <2>2. job[i].pred \in Jobs
    BY <2>1, ConstantsAssumption DEF Jobs
  <2> QED BY <2>2 DEF RetryChain
(* the predecessor of a row being inserted has no other successor *)
<1>6. ASSUME NEW n \in Jobs, Inserted(n)
      PROVE  /\ ~Exists(n)
             /\ job'[n].round <= MaxRounds
             /\ job'[n].pred # 0 =>
                  /\ Continues(job'[n], job'[n].pred)
                  /\ job'[n].pred < n
                  /\ \A k \in Jobs : Exists(k) => job[k].pred # job'[n].pred
  <2>1. PICK c \in Clients : /\ client[c].pc = "checked" /\ EdgeFree(client[c].pred)
                             /\ job'[n] = NewJob(client[c])
    BY <1>6 DEF Inserted
  <2>2. client[c] \in Request /\ RequestInv(c)
    BY DEF TypeOK
  <2>3. /\ job'[n].stream = client[c].stream /\ job'[n].rev = client[c].rev
        /\ job'[n].cand = client[c].cand /\ job'[n].trust = client[c].trust
        /\ job'[n].pred = client[c].pred /\ job'[n].round = client[c].round
    BY <2>1, <2>2, NewJobRow
  <2>4. ~Exists(n) /\ n = created + 1
    BY <1>6, ConstantsAssumption DEF Inserted, TypeOK
  <2>5. client[c].pred # 0 => Continues(client[c], client[c].pred)
    BY <2>1, <2>2 DEF RequestInv
  <2>6. job'[n].pred # 0 => Continues(job'[n], job'[n].pred)
    BY <2>3, <2>5 DEF Continues
  <2>7. job'[n].pred # 0 => job'[n].pred \in Jobs /\ Exists(job'[n].pred)
    BY <2>6 DEF Continues
  <2>8. job'[n].pred # 0 => job'[n].pred < n
    BY <2>4, <2>7, ConstantsAssumption DEF TypeOK, Jobs
  <2>9. job'[n].pred # 0 => \A k \in Jobs : Exists(k) => job[k].pred # job'[n].pred
    BY <2>1, <2>3 DEF EdgeFree, HasSuccessor
  <2>10. job'[n].round <= MaxRounds
    BY <2>1, <2>2, <2>3 DEF RequestInv
  <2> QED BY <2>4, <2>6, <2>8, <2>9, <2>10
<1>7. \A i, n \in Jobs : Inserted(i) /\ Inserted(n) => i = n
  BY DEF Inserted
<1> SUFFICES ASSUME NEW i \in Jobs, job'[i].state # "NONE"
             PROVE  /\ job'[i].round <= MaxRounds
                    /\ job'[i].pred # 0 =>
                         LET p == job'[i].pred IN
                         /\ p < i
                         /\ job'[p].state = "REJECTED"
                         /\ job'[p].stream = job'[i].stream
                         /\ job'[p].rev = job'[i].rev
                         /\ job'[p].trust = job'[i].trust
                         /\ job'[p].cand # job'[i].cand
                         /\ job'[i].round = job'[p].round + 1
                         /\ \A k \in Jobs : job'[k].state # "NONE" /\ job'[k].pred = p => k = i
  BY DEF RetryChain, Jobs
<1>8. CASE Inserted(i)
  <2>1. job'[i].pred # 0 => job'[job'[i].pred] = job[job'[i].pred]
    BY <1>3, <1>6, <1>8 DEF Continues
  <2>2. job'[i].pred # 0 =>
          \A k \in Jobs : job'[k].state # "NONE" /\ job'[k].pred = job'[i].pred => k = i
    BY <1>2, <1>4, <1>6, <1>7, <1>8
  <2> QED BY <1>6, <1>8, <2>1, <2>2 DEF Continues
<1>9. CASE Exists(i)
  <2>1. job'[i].pred # 0 => job'[job'[i].pred] = job[job[i].pred]
    BY <1>2, <1>3, <1>5, <1>9
  <2>2. job'[i].pred # 0 =>
          \A k \in Jobs : job'[k].state # "NONE" /\ job'[k].pred = job'[i].pred => k = i
    <3> SUFFICES ASSUME job'[i].pred # 0, NEW k \in Jobs, job'[k].state # "NONE",
                        job'[k].pred = job'[i].pred
                 PROVE  k = i
      OBVIOUS
    <3>1. CASE Exists(k)
      BY <3>1, <1>2, <1>9 DEF RetryChain
    <3>2. CASE Inserted(k)
      BY <3>2, <1>2, <1>6, <1>9
    <3> QED BY <1>4, <3>1, <3>2
  <2>3. /\ job[i].round <= MaxRounds
        /\ job[i].pred # 0 =>
             LET p == job[i].pred IN
             /\ p < i
             /\ job[p].state = "REJECTED"
             /\ job[p].stream = job[i].stream
             /\ job[p].rev = job[i].rev
             /\ job[p].trust = job[i].trust
             /\ job[p].cand # job[i].cand
             /\ job[i].round = job[p].round + 1
    BY <1>9 DEF RetryChain
  <2> QED BY <1>2, <1>9, <2>1, <2>2, <2>3
<1> QED BY <1>4, <1>8, <1>9

(* Retries form chains that never fork, although two submissions naming    *)
(* the same predecessor may both pass the checks.                          *)
THEOREM RetryChainCorrect == Spec => []RetryChain
<1> DEFINE IInv == RetryChain /\ \A c \in Clients : RequestInv(c)
<1>1. Init => IInv
  <2> SUFFICES ASSUME Init PROVE IInv
    OBVIOUS
  <2>1. \A j \in Jobs : job[j].state = "NONE"
    BY DEF Init, Blank
  <2>2. \A c \in Clients : client[c].pc = "idle"
    BY DEF Init, NoRequest
  <2> QED BY <2>1, <2>2 DEF RetryChain, RequestInv
<1>2. TypeOK /\ RowsInv /\ IInv /\ [Next]_vars => IInv'
  BY RetryStep, RequestStep
<1>3. IInv => RetryChain
  OBVIOUS
<1> HIDE DEF IInv
<1> QED BY <1>1, <1>2, <1>3, TypeCorrect, RowsInvCorrect, PTL DEF Spec
=============================================================================
