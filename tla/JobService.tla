----------------------------- MODULE JobService -----------------------------
(***************************************************************************)
(* The job pipeline of service.py: submission in two phases (checks made   *)
(* outside the write transaction, the insert inside it), leases and        *)
(* fencing tokens, the worker loop of cli.py, the finish transaction that  *)
(* re-evaluates and commits or rejects, recovery of expired leases,        *)
(* cancellation, pause and resume, and trust rotation.                     *)
(*                                                                         *)
(* One action is one committed SQLite transaction (BEGIN IMMEDIATE ...     *)
(* COMMIT) or one step a process makes between transactions.  Workers and  *)
(* clients are processes with a connection of their own.                   *)
(***************************************************************************)
EXTENDS Integers, FiniteSets

CONSTANTS
  Streams,      \* training streams, each created with its genesis release
  Clients,      \* API requests being served
  Workers,      \* worker loops
  Candidates,   \* candidate artifacts
  Verdict(_, _, _), \* gate.evaluate of a candidate against the release of a
                    \* stream at a revision: "accept", "reject" or "leak"
  None,         \* SQL NULL in lease_owner
  MaxAttempts,  \* MAX_ATTEMPTS
  MaxRounds,    \* policy.max_rounds
  QueueLimit,   \* limits.queued_jobs
  MaxJobs,      \* bound: jobs ever inserted
  MaxRevision,  \* bound: pauses and resumes stop here
  MaxTrust      \* bound: trust rotations

ASSUME ConstantsAssumption ==
  /\ None \notin Workers
  /\ Streams # {} /\ Candidates # {}
  /\ MaxAttempts \in Nat \ {0}
  /\ MaxRounds \in Nat \ {0}
  /\ QueueLimit \in Nat
  /\ MaxJobs \in Nat
  /\ MaxRevision \in Nat
  /\ MaxTrust \in Nat

VARIABLES
  stream,    \* [Streams -> record]: a row of table streams
  releases,  \* the rows of table releases
  trust,     \* activation order of the current trust snapshot
  created,   \* jobs 1..created exist; a job's number is its jobs.seq
  job,       \* [Jobs -> record]: rows of table jobs, with retry_edges as pred
  client,    \* [Clients -> record]: what a submission read before its insert
  wk         \* [Workers -> record]: what a worker holds between transactions

vars == <<stream, releases, trust, created, job, client, wk>>

-----------------------------------------------------------------------------
(* Jobs *)

Jobs == 1..MaxJobs

Pending  == {"QUEUED", "FILTERING", "SCORING"}
Leased   == {"FILTERING", "SCORING"}
Terminal == {"ACCEPTED", "REJECTED", "FAILED", "STALE", "CANCELLED"}

Job == [state   : {"NONE"} \cup Pending \cup Terminal,
        stream  : Streams,
        rev     : Nat,               \* expected_revision of the request
        cand    : Candidates,        \* candidate_hash
        trust   : Nat,               \* trust_hash read at submission
        pred    : 0..MaxJobs,        \* previous_job_id, 0 for none
        round   : Nat,
        attempt : Nat,
        fence   : Nat,
        owner   : Workers \cup {None},
        lease   : {"none", "live", "expired"}]

(* A numbered row that has not been inserted; only its state is meaningful. *)
Blank == [state |-> "NONE", stream |-> CHOOSE s \in Streams : TRUE, rev |-> 0,
          cand |-> CHOOSE c \in Candidates : TRUE, trust |-> 0, pred |-> 0,
          round |-> 0, attempt |-> 0, fence |-> 0, owner |-> None,
          lease |-> "none"]

IsPending(j) == job[j].state \in Pending
Queued == {j \in Jobs : job[j].state = "QUEUED"}
(* Mutant: the WHERE clause forgets the state list. *)
PendingOnAnyState(s) == {j \in Jobs : job[j].state # "NONE" /\ job[j].stream = s}

PendingOn(s) == {j \in Jobs : IsPending(j) /\ job[j].stream = s}

(* Every way out of a lease clears the owner and the deadline; all but     *)
(* finish and failure also burn the fencing token.                         *)
Released(r, st) == [r EXCEPT !.state = st, !.owner = None, !.lease = "none"]
Fenced(r, st)   == [Released(r, st) EXCEPT !.fence = @ + 1]

(* _mark_stale for a set of jobs *)
MarkStale(f, S) == [j \in Jobs |-> IF j \in S THEN Fenced(f[j], "STALE") ELSE f[j]]

-----------------------------------------------------------------------------
(* Releases *)

Release == [stream : Streams, revision : Nat, parent : Int,
            pinned : Int,            \* revision of the release decided against
            job    : 0..MaxJobs]     \* 0: the genesis release of create_stream

GenesisRow(s) == [stream |-> s, revision |-> 0, parent |-> -1, pinned |-> -1, job |-> 0]

(* SELECT * FROM releases WHERE stream_id=? AND revision=? *)
HasRelease(s, n) == \E r \in releases : r.stream = s /\ r.revision = n

(* evaluate() over the inputs the request pins: the same each time it runs. *)
VerdictOf(r) == Verdict(r.cand, r.stream, r.rev)

-----------------------------------------------------------------------------
Idle(c) == client[c].pc = "idle"

NoRequest == [pc |-> "idle", stream |-> Blank.stream, rev |-> 0, cand |-> Blank.cand,
              trust |-> 0, pred |-> 0, round |-> 0]

NoWork == [pc |-> "idle", job |-> 0, fence |-> 0]

Init ==
  /\ stream   = [s \in Streams |-> [state |-> "ACTIVE", revision |-> 0, head |-> 0]]
  /\ releases = {GenesisRow(s) : s \in Streams}
  /\ trust    = 0
  /\ created  = 0
  /\ job      = [j \in Jobs |-> Blank]
  /\ client   = [c \in Clients |-> NoRequest]
  /\ wk       = [w \in Workers |-> NoWork]

-----------------------------------------------------------------------------
(* Submission *)

HasSuccessor(p) == \E i \in Jobs : job[i].state # "NONE" /\ job[i].pred = p

(* The predecessor of a retry: a rejected job of the same stream, revision *)
(* and trust snapshot, a different candidate, no retry edge yet.           *)
CanRetry(p, s, c) ==
  /\ job[p].state = "REJECTED"
  /\ job[p].stream = s
  /\ job[p].rev = stream[s].revision
  /\ job[p].trust = trust
  /\ job[p].cand # c
  /\ ~HasSuccessor(p)
  /\ job[p].round + 1 <= MaxRounds

(* What the insert will use of it. *)
RequestOf(s, cand, p) ==
  [pc |-> "checked", stream |-> s, rev |-> stream[s].revision,
   cand |-> cand, trust |-> trust, pred |-> p,
   round |-> IF p = 0 THEN 1 ELSE job[p].round + 1]

(* Everything submit_job reads before its write transaction.  A refusal    *)
(* changes nothing.                                                        *)
SubmitCheck(c) ==
  \E s \in Streams, cand \in Candidates, p \in 0..MaxJobs :
    /\ Idle(c)
    /\ stream[s].state = "ACTIVE"
    /\ p # 0 => CanRetry(p, s, cand)
    /\ Cardinality(Queued) < QueueLimit
    /\ client' = [client EXCEPT ![c] = RequestOf(s, cand, p)]
    /\ UNCHANGED <<stream, releases, trust, created, job, wk>>

(* Mutant: retry_edges without its primary key. *)
EdgeAlwaysFree(p) == p \in Nat

(* PRIMARY KEY of retry_edges: the insert fails when the edge exists. *)
EdgeFree(p) == p # 0 => ~HasSuccessor(p)

NewJob(q) ==
  [Blank EXCEPT !.state = "QUEUED", !.stream = q.stream, !.rev = q.rev,
                !.cand = q.cand, !.trust = q.trust, !.pred = q.pred,
                !.round = q.round]

(* Mutant: next_seq forgets to advance. *)
SubmitCommitSameSeq(c) ==
  /\ client[c].pc = "checked"
  /\ created < MaxJobs
  /\ EdgeFree(client[c].pred)
  /\ created' = created
  /\ job' = [job EXCEPT ![created + 1] = NewJob(client[c])]
  /\ client' = [client EXCEPT ![c] = NoRequest]
  /\ UNCHANGED <<stream, releases, trust, wk>>

(* The write transaction of submit_job, which rechecks nothing. *)
SubmitCommit(c) ==
  /\ client[c].pc = "checked"
  /\ created < MaxJobs
  /\ EdgeFree(client[c].pred)
  /\ created' = created + 1
  /\ job' = [job EXCEPT ![created + 1] = NewJob(client[c])]
  /\ client' = [client EXCEPT ![c] = NoRequest]
  /\ UNCHANGED <<stream, releases, trust, wk>>

(* The insert violates the retry edge's key and rolls back, or the request *)
(* dies with its process.                                                  *)
SubmitAbort(c) ==
  /\ client[c].pc = "checked"
  /\ client' = [client EXCEPT ![c] = NoRequest]
  /\ UNCHANGED <<stream, releases, trust, created, job, wk>>

-----------------------------------------------------------------------------
(* Control *)

(* Mutant: the list of terminal states in cancel_job lacks ACCEPTED. *)
CancelJobAccepted(j) ==
  /\ IsPending(j) \/ job[j].state = "ACCEPTED"
  /\ job' = [job EXCEPT ![j] = Fenced(@, "CANCELLED")]
  /\ UNCHANGED <<stream, releases, trust, created, client, wk>>

CancelJob(j) ==
  /\ IsPending(j)
  /\ job' = [job EXCEPT ![j] = Fenced(@, "CANCELLED")]
  /\ UNCHANGED <<stream, releases, trust, created, client, wk>>

Switched(r, st) == [state |-> st, revision |-> r.revision + 1, head |-> r.head]

(* Pausing takes a revision and fences every pending job of the stream. *)
PauseStream(s) ==
  /\ stream[s].state = "ACTIVE"
  /\ stream[s].revision < MaxRevision
  /\ stream' = [stream EXCEPT ![s] = Switched(@, "PAUSED")]
  /\ job' = MarkStale(job, PendingOn(s))
  /\ UNCHANGED <<releases, trust, created, client, wk>>

(* Mutant: resuming keeps the revision. *)
ResumeStreamSameRevision(s) ==
  /\ stream[s].state = "PAUSED"
  /\ stream[s].revision < MaxRevision
  /\ stream' = [stream EXCEPT ![s].state = "ACTIVE"]
  /\ UNCHANGED <<releases, trust, created, job, client, wk>>

(* Resuming takes another revision; no release carries either number. *)
ResumeStream(s) ==
  /\ stream[s].state = "PAUSED"
  /\ stream[s].revision < MaxRevision
  /\ stream' = [stream EXCEPT ![s] = Switched(@, "ACTIVE")]
  /\ UNCHANGED <<releases, trust, created, job, client, wk>>

(* rotate_trust hands _mark_stale rows without request_json: with a        *)
(* pending job it raises KeyError and the transaction rolls back.          *)
RotateTrust ==
  /\ trust < MaxTrust
  /\ \A j \in Jobs : ~IsPending(j)
  /\ trust' = trust + 1
  /\ UNCHANGED <<stream, releases, created, job, client, wk>>

-----------------------------------------------------------------------------
(* Workers.  A lease deadline is abstracted to a flag that flips once, at  *)
(* any time: handlers read the clock before BEGIN IMMEDIATE, so one that   *)
(* read it in time still passes the check after the deadline.              *)

LeasePcs == {"evaluating", "failing", "advancing", "finishing"}

Goto(w, pc) == wk' = [wk EXCEPT ![w].pc = pc]
Drop(w)     == wk' = [wk EXCEPT ![w] = NoWork]

(* Mutant: the row is not compared with the token. *)
HoldsAnyLease(w) == job[wk[w].job].state \notin Terminal

(* _lease_check for the job and the token worker w holds *)
HoldsLease(w) ==
  LET r == job[wk[w].job] IN
  /\ r.state \notin Terminal
  /\ r.owner = w
  /\ r.fence = wk[w].fence

LeaseLost(w) == ~HoldsLease(w) \/ job[wk[w].job].lease = "expired"

(* SELECT id FROM jobs WHERE state='QUEUED' ORDER BY seq LIMIT 1, outside  *)
(* any transaction; with no row the loop turns to worker_tick.             *)
PickOldest(w) ==
  /\ wk[w].pc = "idle"
  /\ IF Queued = {}
       THEN Goto(w, "ticking")
       ELSE \E j \in Queued :
              /\ \A i \in Queued : j <= i
              /\ wk' = [wk EXCEPT ![w] = [pc |-> "leasing", job |-> j, fence |-> 0]]
  /\ UNCHANGED <<stream, releases, trust, created, job, client>>

(* Mutant: attempts are counted where they end, in rpc_recover. *)
GrantedUncounted(r, w) ==
  [r EXCEPT !.state = "FILTERING", !.fence = r.fence + 1, !.owner = w, !.lease = "live"]

Granted(r, w) ==
  [r EXCEPT !.state = "FILTERING", !.attempt = r.attempt + 1, !.fence = r.fence + 1,
            !.owner = w, !.lease = "live"]

(* rpc_lease *)
Lease(w) ==
  LET j == wk[w].job IN
  /\ wk[w].pc = "leasing"
  /\ job[j].state = "QUEUED"
  /\ job' = [job EXCEPT ![j] = Granted(@, w)]
  /\ wk' = [wk EXCEPT ![w] = [pc |-> "evaluating", job |-> j, fence |-> job[j].fence + 1]]
  /\ UNCHANGED <<stream, releases, trust, created, client>>

(* Another worker, a cancellation or a pause got there first. *)
LeaseRaceLost(w) ==
  /\ wk[w].pc = "leasing"
  /\ job[wk[w].job].state # "QUEUED"
  /\ wk' = [wk EXCEPT ![w] = [NoWork EXCEPT !.pc = "ticking"]]
  /\ UNCHANGED <<stream, releases, trust, created, job, client>>

(* Mutant: a leak is scored like anything else. *)
EvaluateLeakAsWell(w) ==
  LET r == job[wk[w].job] IN
  /\ wk[w].pc = "evaluating"
  /\ HasRelease(r.stream, r.rev)
  /\ Goto(w, "advancing")
  /\ UNCHANGED <<stream, releases, trust, created, job, client>>

(* compute_job_decision, outside any transaction.  It fails when the       *)
(* release pinned by expected_revision is missing, and may fail because a  *)
(* blob is absent or malformed.  A leak skips SCORING.                     *)
Evaluate(w) ==
  LET r == job[wk[w].job] IN
  /\ wk[w].pc = "evaluating"
  /\ \/ Goto(w, "failing")
     \/ /\ HasRelease(r.stream, r.rev)
        /\ Goto(w, IF VerdictOf(r) = "leak" THEN "finishing" ELSE "advancing")
  /\ UNCHANGED <<stream, releases, trust, created, job, client>>

(* The failure transaction of run_worker_once, which reads the clock under *)
(* the write lock; it keeps the fence.                                     *)
RecordFailure(w) ==
  LET j == wk[w].job IN
  /\ wk[w].pc = "failing"
  /\ HoldsLease(w)
  /\ job[j].lease = "live"
  /\ job' = [job EXCEPT ![j] = Released(@, "FAILED")]
  /\ Drop(w)
  /\ UNCHANGED <<stream, releases, trust, created, client>>

(* rpc_advance *)
Advance(w) ==
  LET j == wk[w].job IN
  /\ wk[w].pc = "advancing"
  /\ HoldsLease(w)
  /\ job[j].state = "FILTERING"
  /\ job' = [job EXCEPT ![j].state = "SCORING"]
  /\ Goto(w, "finishing")
  /\ UNCHANGED <<stream, releases, trust, created, client>>

(* LEASE_LOST or TERMINAL_STATE from any of the three transactions: the    *)
(* loop reports it and goes back to polling.                               *)
LoseLease(w) ==
  /\ wk[w].pc \in LeasePcs \ {"evaluating"}
  /\ LeaseLost(w)
  /\ Drop(w)
  /\ UNCHANGED <<stream, releases, trust, created, job, client>>

(* Mutant: the revision is not compared. *)
StaleAtFinishNoRevision(r) ==
  \/ stream[r.stream].state # "ACTIVE"
  \/ r.trust # trust

(* rpc_finish: a moved head, a paused stream or a rotated trust aborts     *)
(* before COMMITTING.                                                      *)
StaleAtFinish(r) ==
  \/ stream[r.stream].state # "ACTIVE"
  \/ stream[r.stream].revision # r.rev
  \/ r.trust # trust

FinishStale(w) ==
  LET j == wk[w].job IN
  /\ wk[w].pc = "finishing"
  /\ HoldsLease(w)
  /\ StaleAtFinish(job[j])
  /\ job' = [job EXCEPT ![j] = Fenced(@, "STALE")]
  /\ Drop(w)
  /\ UNCHANGED <<stream, releases, trust, created, client>>

(* The re-execution inside the transaction fails on a blob that has gone. *)
FinishFailed(w) ==
  LET j == wk[w].job IN
  /\ wk[w].pc = "finishing"
  /\ HoldsLease(w)
  /\ ~StaleAtFinish(job[j])
  /\ job' = [job EXCEPT ![j] = Released(@, "FAILED")]
  /\ Drop(w)
  /\ UNCHANGED <<stream, releases, trust, created, client>>

(* _commit_reject; COMMITTING is only ever seen inside the transaction. *)
FinishReject(w) ==
  LET j == wk[w].job IN
  /\ wk[w].pc = "finishing"
  /\ HoldsLease(w)
  /\ ~StaleAtFinish(job[j])
  /\ HasRelease(job[j].stream, job[j].rev)
  /\ VerdictOf(job[j]) # "accept"
  /\ job' = [job EXCEPT ![j] = Released(@, "REJECTED")]
  /\ Drop(w)
  /\ UNCHANGED <<stream, releases, trust, created, client>>

(* Mutant: numbered by the head it was judged against. *)
ReleaseAtHead(j) ==
  LET s == job[j].stream IN
  [stream |-> s, revision |-> stream[s].revision, parent |-> stream[s].head,
   pinned |-> job[j].rev, job |-> j]

ReleaseOf(j) ==
  LET s == job[j].stream IN
  [stream |-> s, revision |-> stream[s].revision + 1, parent |-> stream[s].head,
   pinned |-> job[j].rev, job |-> j]

(* UPDATE streams SET revision=?, head_release_hash=? *)
HeadMoved(r) == [state |-> r.state, revision |-> r.revision + 1, head |-> r.revision + 1]

(* _commit_accept: the release, the head, the job and every other pending  *)
(* job of the stream in one transaction.                                   *)
FinishAccept(w) ==
  LET j == wk[w].job
      s == job[j].stream IN
  /\ wk[w].pc = "finishing"
  /\ HoldsLease(w)
  /\ ~StaleAtFinish(job[j])
  /\ HasRelease(s, job[j].rev)
  /\ VerdictOf(job[j]) = "accept"
  /\ ~HasRelease(s, stream[s].revision + 1)    \* UNIQUE(stream_id, revision)
  /\ releases' = releases \cup {ReleaseOf(j)}
  /\ stream' = [stream EXCEPT ![s] = HeadMoved(@)]
  /\ job' = [MarkStale(job, PendingOn(s) \ {j}) EXCEPT ![j] = Released(@, "ACCEPTED")]
  /\ Drop(w)
  /\ UNCHANGED <<trust, created, client>>

(* rpc_heartbeat, open to a worker that holds an unexpired lease *)
Heartbeat(w) ==
  LET j == wk[w].job IN
  /\ wk[w].pc \in LeasePcs
  /\ job[j].owner = w
  /\ job[j].fence = wk[w].fence
  /\ job' = [job EXCEPT ![j].lease = "live"]
  /\ UNCHANGED <<stream, releases, trust, created, client, wk>>

(* The worker process dies and a new one takes its place. *)
Crash(w) ==
  /\ wk[w].pc \in LeasePcs
  /\ Drop(w)
  /\ UNCHANGED <<stream, releases, trust, created, job, client>>

LeaseExpires(j) ==
  /\ job[j].lease = "live"
  /\ job' = [job EXCEPT ![j].lease = "expired"]
  /\ UNCHANGED <<stream, releases, trust, created, client, wk>>

(* Mutant: a job that reached SCORING is not looked for. *)
ExpiredFiltering == {j \in Jobs : job[j].state = "FILTERING" /\ job[j].lease = "expired"}

Expired == {j \in Jobs : job[j].state \in Leased /\ job[j].lease = "expired"}

(* Mutant: the token is not burnt. *)
RecoveredSameFence(r) ==
  IF r.attempt < MaxAttempts THEN Released(r, "QUEUED") ELSE Released(r, "FAILED")

(* rpc_recover: requeue, or fail the job on its last attempt *)
Recovered(r) ==
  IF r.attempt < MaxAttempts THEN Fenced(r, "QUEUED") ELSE Released(r, "FAILED")

(* worker_tick, which only a worker that found nothing to do runs *)
Tick(w) ==
  /\ wk[w].pc = "ticking"
  /\ job' = [j \in Jobs |-> IF j \in Expired THEN Recovered(job[j]) ELSE job[j]]
  /\ Goto(w, "idle")
  /\ UNCHANGED <<stream, releases, trust, created, client>>

-----------------------------------------------------------------------------
WorkerStep(w) ==
  \/ PickOldest(w) \/ Lease(w) \/ LeaseRaceLost(w) \/ Evaluate(w)
  \/ RecordFailure(w) \/ Advance(w) \/ LoseLease(w)
  \/ FinishStale(w) \/ FinishFailed(w) \/ FinishReject(w) \/ FinishAccept(w)
  \/ Tick(w)

Next ==
  \/ \E c \in Clients : SubmitCheck(c) \/ SubmitCommit(c) \/ SubmitAbort(c)
  \/ \E j \in Jobs : CancelJob(j) \/ LeaseExpires(j)
  \/ \E s \in Streams : PauseStream(s) \/ ResumeStream(s)
  \/ RotateTrust
  \/ \E w \in Workers : WorkerStep(w) \/ Heartbeat(w) \/ Crash(w)

Spec == Init /\ [][Next]_vars

(* Worker loops keep running (a crashed one is restarted) and deadlines    *)
(* pass.  Clients and operators owe the system nothing.                    *)
Fairness ==
  /\ \A w \in Workers : WF_vars(WorkerStep(w))
  /\ \A j \in Jobs : WF_vars(LeaseExpires(j))

FairSpec == Spec /\ Fairness
-----------------------------------------------------------------------------
(* Properties *)

StreamRow == [state : {"ACTIVE", "PAUSED"}, revision : Nat, head : Nat]

Request == [pc : {"idle", "checked"}, stream : Streams, rev : Nat, cand : Candidates,
            trust : Nat, pred : 0..MaxJobs, round : Nat]

Work == [pc : {"idle", "ticking", "leasing"} \cup LeasePcs, job : 0..MaxJobs, fence : Nat]

(* Every row and every local copy is well formed, job numbers are handed   *)
(* out without gaps (next_seq), and a worker past PickOldest has a job     *)
(* that exists.                                                            *)
TypeOK ==
  /\ stream \in [Streams -> StreamRow]
  /\ releases \in SUBSET Release
  /\ trust \in Nat
  /\ created \in 0..MaxJobs
  /\ job \in [Jobs -> Job]
  /\ client \in [Clients -> Request]
  /\ wk \in [Workers -> Work]
  /\ \A j \in Jobs : job[j].state = "NONE" <=> j > created
  /\ \A w \in Workers : wk[w].pc \in LeasePcs \cup {"leasing"} => wk[w].job \in 1..created

(* A fencing token that still matches its job belongs to the worker that   *)
(* holds the lease now, or to a worker whose job has already finished      *)
(* under it.  Requeueing, cancelling and marking stale invalidate every    *)
(* token handed out before, so no transaction of an overtaken worker can   *)
(* pass _lease_check.                                                      *)
FenceCurrent ==
  \A w \in Workers :
    LET r == job[wk[w].job] IN
    wk[w].pc \in LeasePcs =>
      /\ wk[w].fence <= r.fence
      /\ wk[w].fence = r.fence =>
           \/ r.state \in Leased /\ r.owner = w
           \/ r.state \in {"ACCEPTED", "REJECTED", "FAILED"}

(* A job has an owner and a deadline exactly while it is leased, so that   *)
(* rpc_recover (which looks for a deadline) misses no leased job.          *)
LeaseRow ==
  \A j \in Jobs :
    /\ job[j].state \in Leased <=> job[j].owner # None
    /\ job[j].state \in Leased <=> job[j].lease # "none"

(* No job is started more often than MAX_ATTEMPTS: rpc_lease does not      *)
(* check the count, it relies on rpc_recover not requeueing a spent job.   *)
AttemptLimit ==
  \A j \in Jobs :
    /\ job[j].attempt <= MaxAttempts
    /\ job[j].state = "QUEUED" => job[j].attempt < MaxAttempts

(* No lost update: every accepted release was decided against the release  *)
(* it extends, although the decision is computed outside the transaction   *)
(* and submissions are checked outside theirs (_job_inputs pins the        *)
(* parent by expected_revision, _commit_accept links to the current head). *)
NoLostUpdate == \A r \in releases : r.pinned = r.parent

(* The releases of a stream form one line: the head is its newest release, *)
(* no two releases share a revision, and each one's parent is the newest   *)
(* release before it.                                                      *)
LineLinear ==
  /\ \A s \in Streams :
       /\ HasRelease(s, stream[s].head)
       /\ stream[s].head <= stream[s].revision
  /\ \A r \in releases : r.revision <= stream[r.stream].head
  /\ \A r, q \in releases :
       r.stream = q.stream =>
         /\ r.revision = q.revision => r = q
         /\ q.revision < r.revision => q.revision <= r.parent
  /\ \A r \in releases :
       \/ r.revision = 0 /\ r.job = 0
       \/ r.parent < r.revision /\ r.job # 0 /\ HasRelease(r.stream, r.parent)

(* Table jobs and table releases agree: a job is ACCEPTED exactly when one *)
(* release, on its own stream, carries it, and no other job of any outcome *)
(* is behind a release.                                                    *)
AcceptedIffReleased ==
  /\ \A j \in Jobs :
       job[j].state = "ACCEPTED" <=> \E r \in releases : r.job = j
  /\ \A r \in releases :
       r.job # 0 => /\ job[r.job].stream = r.stream
                    /\ \A q \in releases : q.job = r.job => q = r

(* Retries form chains that never fork, stay on one stream, revision and   *)
(* trust snapshot, and stop at max_rounds, although two submissions naming *)
(* the same predecessor may both pass the checks.                          *)
RetryChain ==
  \A i \in Jobs : job[i].state # "NONE" =>
    /\ job[i].round <= MaxRounds
    /\ job[i].pred # 0 =>
         LET p == job[i].pred IN
         /\ p < i
         /\ job[p].state = "REJECTED"
         /\ job[p].stream = job[i].stream
         /\ job[p].rev = job[i].rev
         /\ job[p].trust = job[i].trust
         /\ job[p].cand # job[i].cand
         /\ job[i].round = job[p].round + 1
         /\ \A k \in Jobs : job[k].state # "NONE" /\ job[k].pred = p => k = i

(* A terminal job never changes again, whoever still holds a copy of it. *)
TerminalForever ==
  [][\A j \in Jobs : job[j].state \in Terminal => job'[j] = job[j]]_vars

(* How many more times a row can change, but for its deadline: it is       *)
(* inserted, leased, scored and, after each attempt but the last, requeued.*)
StepsLeft(r) ==
  LET spare == 3 * (MaxAttempts - r.attempt) IN
  CASE r.state = "NONE"      -> 3 * MaxAttempts + 2
    [] r.state = "QUEUED"    -> spare + 1
    [] r.state = "FILTERING" -> spare + 3
    [] r.state = "SCORING"   -> spare + 2
    [] OTHER                 -> 0

(* A job never goes round in a circle: whatever workers, recoveries,       *)
(* heartbeats and operators do to its row, other than renew the deadline   *)
(* or let it pass, uses up one of 3 * MaxAttempts + 2 steps.               *)
JobNeverLoops ==
  [][\A j \in Jobs :
       \/ StepsLeft(job'[j]) \in 0..(StepsLeft(job[j]) - 1)
       \/ job'[j] = [job[j] EXCEPT !.lease = job'[j].lease]]_vars

(* As long as a worker holds the lease, its job is in the stage the loop   *)
(* believes it in, so rpc_advance never refuses the holder ("Job is not    *)
(* filtering") and the loop is never stuck between its transactions; and   *)
(* SCORING never runs after a leak (run_worker_once).                      *)
StageMatchesLoop ==
  /\ \A w \in Workers :
       wk[w].pc \in LeasePcs /\ HoldsLease(w) =>
         LET r == job[wk[w].job] IN
         r.state = IF wk[w].pc = "finishing" /\ VerdictOf(r) # "leak"
                     THEN "SCORING" ELSE "FILTERING"
  /\ \A j \in Jobs : job[j].state = "SCORING" => VerdictOf(job[j]) # "leak"

(* Every submitted job reaches a terminal state, through crashes and lost  *)
(* leases.                                                                 *)
EveryJobSettles == \A j \in Jobs : IsPending(j) ~> job[j].state \in Terminal

(* The pipeline implements the release line. *)
Line == INSTANCE ReleaseLine WITH
  revision  <- [s \in Streams |-> stream[s].revision],
  open      <- [s \in Streams |-> stream[s].state = "ACTIVE"],
  head      <- [s \in Streams |-> stream[s].head],
  published <- {[stream |-> r.stream, revision |-> r.revision,
                 parent |-> r.parent, decidedOn |-> r.pinned] : r \in releases}

ImplementsLine == Line!Spec

(* gate.py and cli.py resolve the parent of a job as the newest release at *)
(* or below expected_revision, so a job that is not stale can be scored.   *)
PinnedParentFound ==
  \A j \in Jobs :
    IsPending(j) /\ ~StaleAtFinish(job[j]) => HasRelease(job[j].stream, job[j].rev)
=============================================================================
