----------------------------- MODULE PipelineLog -----------------------------
(***************************************************************************)
(* The job pipeline together with what it writes into the audit log: every *)
(* transaction of JobService that changes the state of a job or a stream   *)
(* appends its lifecycle entries in the same transaction (_append_event,   *)
(* audit.make_event_data).  Entries about other matters (KEY_ROTATED,      *)
(* CONSUMED, CHECKPOINTED) are left to AuditLog.                           *)
(***************************************************************************)
EXTENDS JobService, Sequences, Functions

ASSUME StreamsAssumption == IsFiniteSet(Streams)

VARIABLE log  \* table audit, in seq order

pipelineVars == <<stream, releases, trust, created, job, client, wk, log>>

-----------------------------------------------------------------------------
StreamStates == {"ACTIVE", "PAUSED"}

States == {"NONE", "COMMITTING"} \cup Pending \cup Terminal \cup StreamStates

(* data of an entry; job 0: about the stream itself; NONE: a null state.   *)
Entry == [stream : Streams, job : 0..MaxJobs, from : States, to : States, revision : Nat]

StreamEntry(s, from, to, n) ==
  [stream |-> s, job |-> 0, from |-> from, to |-> to, revision |-> n]

QueuedEntry(c) ==
  [stream |-> client[c].stream, job |-> created + 1, from |-> "NONE", to |-> "QUEUED",
   revision |-> client[c].rev]

(* An entry about job j carries the revision its request expects. *)
JobEntry(j, from, to) ==
  [stream |-> job[j].stream, job |-> j, from |-> from, to |-> to, revision |-> job[j].rev]

(* Mutant: a constant in place of job["state"]. *)
StaleEntryFromQueued(j) == JobEntry(j, "QUEUED", "STALE")

StaleEntry(j) == JobEntry(j, job[j].state, "STALE")

(* Mutant: the revision the request expects, as everywhere else. *)
AcceptedEntryExpected(j) == JobEntry(j, "COMMITTING", "ACCEPTED")

(* JOB_ACCEPTED carries the revision the stream gets. *)
AcceptedEntry(j) ==
  [JobEntry(j, "COMMITTING", "ACCEPTED") EXCEPT !.revision = stream[job[j].stream].revision + 1]

RecoveredEntry(j) == JobEntry(j, job[j].state, Recovered(job[j]).state)

Journal(entries) == log' = log \o entries

Silent == log' = log

(* ORDER BY id, which is drawn at random *)
Orders(S) == Bijection(1..Cardinality(S), S)

Listed(order, E(_)) == [i \in DOMAIN order |-> E(order[i])]

-----------------------------------------------------------------------------
(* create_stream logs STREAM_CREATED. *)
PipelineInit ==
  /\ Init
  /\ \E order \in Orders(Streams) :
       log = Listed(order, LAMBDA s : StreamEntry(s, "NONE", "ACTIVE", 0))

LoggedSubmit(c) == SubmitCommit(c) /\ Journal(<<QueuedEntry(c)>>)

LoggedCancel(j) == CancelJob(j) /\ Journal(<<JobEntry(j, job[j].state, "CANCELLED")>>)

LoggedPause(s) ==
  /\ PauseStream(s)
  /\ \E order \in Orders(PendingOn(s)) :
       Journal(<<StreamEntry(s, stream[s].state, "PAUSED", stream[s].revision + 1)>>
                 \o Listed(order, StaleEntry))

LoggedResume(s) ==
  /\ ResumeStream(s)
  /\ Journal(<<StreamEntry(s, stream[s].state, "ACTIVE", stream[s].revision + 1)>>)

LoggedLease(w) ==
  Lease(w) /\ Journal(<<JobEntry(wk[w].job, "QUEUED", "FILTERING")>>)

LoggedAdvance(w) ==
  Advance(w) /\ Journal(<<JobEntry(wk[w].job, "FILTERING", "SCORING")>>)

(* _fail_job *)
LoggedFailure(w) ==
  LET j == wk[w].job IN
  /\ RecordFailure(w) \/ FinishFailed(w)
  /\ Journal(<<JobEntry(j, job[j].state, "FAILED")>>)

LoggedStale(w) == FinishStale(w) /\ Journal(<<StaleEntry(wk[w].job)>>)

LoggedReject(w) ==
  LET j == wk[w].job IN
  /\ FinishReject(w)
  /\ Journal(<<JobEntry(j, job[j].state, "COMMITTING"), JobEntry(j, "COMMITTING", "REJECTED")>>)

LoggedAccept(w) ==
  LET j == wk[w].job IN
  /\ FinishAccept(w)
  /\ \E order \in Orders(PendingOn(job[j].stream) \ {j}) :
       Journal(<<JobEntry(j, job[j].state, "COMMITTING"), AcceptedEntry(j)>>
                 \o Listed(order, StaleEntry))

LoggedTick(w) ==
  /\ Tick(w)
  /\ \E order \in Orders(Expired) : Journal(Listed(order, RecoveredEntry))

(* Reads, local steps, heartbeats and the clock leave no entry about a job *)
(* or a stream.                                                            *)
Unlogged ==
  \/ \E c \in Clients : SubmitCheck(c) \/ SubmitAbort(c)
  \/ \E j \in Jobs : LeaseExpires(j)
  \/ RotateTrust
  \/ \E w \in Workers :
       \/ PickOldest(w) \/ LeaseRaceLost(w) \/ Evaluate(w) \/ LoseLease(w)
       \/ Heartbeat(w) \/ Crash(w)

LoggedWork(w) ==
  \/ LoggedLease(w) \/ LoggedAdvance(w) \/ LoggedFailure(w) \/ LoggedStale(w)
  \/ LoggedReject(w) \/ LoggedAccept(w) \/ LoggedTick(w)

PipelineNext ==
  \/ Unlogged /\ Silent
  \/ \E c \in Clients : LoggedSubmit(c)
  \/ \E j \in Jobs : LoggedCancel(j)
  \/ \E s \in Streams : LoggedPause(s) \/ LoggedResume(s)
  \/ \E w \in Workers : LoggedWork(w)

PipelineSpec == PipelineInit /\ [][PipelineNext]_pipelineVars

-----------------------------------------------------------------------------
(* Replaying the log.  The entries at positions A, read in order, lead     *)
(* from a to b: the first starts at a, each starts where the one before it *)
(* ended, and the last ends at b.                                          *)
Leads(A, from, to, a, b) ==
  /\ A = {} => a = b
  /\ \A n \in A :
       /\ from[n] = a \/ \E m \in A : m < n
       /\ to[n] = b \/ \E m \in A : n < m
       /\ \A m \in A : m < n /\ (\A k \in A : k <= m \/ n <= k) => from[n] = to[m]

From      == [n \in DOMAIN log |-> log[n].from]
To        == [n \in DOMAIN log |-> log[n].to]
Revision  == [n \in DOMAIN log |-> log[n].revision]
RevBefore == [n \in DOMAIN log |-> log[n].revision - 1]

AboutJob(j) == {n \in DOMAIN log : log[n].job = j}
Controls(s) == {n \in DOMAIN log : log[n].stream = s /\ log[n].job = 0}

(* The entries that give a stream a new revision *)
Moves(s) ==
  {n \in DOMAIN log : log[n].stream = s /\ (log[n].job = 0 \/ log[n].to = "ACCEPTED")}

Before(n) == {m \in DOMAIN log : m < n}

-----------------------------------------------------------------------------
(* Properties *)

(* The log is a sequence of entries about jobs that exist. *)
LogTypeOK ==
  /\ log \in Seq(Entry)
  /\ \A n \in DOMAIN log : log[n].job \in 0..created

(* The life of every job can be replayed from the log, which never skips a *)
(* step and ends in the state table jobs has: no transaction changes a job *)
(* and its log apart, or twice.                                            *)
JobsReplay ==
  \A j \in Jobs : Leads(AboutJob(j), From, To, "NONE", job[j].state)

(* So can the state and the revision of every stream, whose revisions the  *)
(* log hands out one by one.                                               *)
StreamsReplay ==
  \A s \in Streams :
    /\ Leads(Controls(s), From, To, "NONE", stream[s].state)
    /\ Leads(Moves(s), RevBefore, Revision, -1, stream[s].revision)

(* Entry n is the receipt of release r. *)
Receipts(n, r) ==
  /\ log[n].stream = r.stream /\ log[n].job = r.job /\ log[n].revision = r.revision
  /\ IF r.job = 0 THEN log[n].from = "NONE" ELSE log[n].to = "ACCEPTED"

(* Every release has one receipt, and no acceptance is logged without its  *)
(* release.                                                                *)
ReleasesReceipted ==
  /\ \A r \in releases :
       \E n \in DOMAIN log : \A m \in DOMAIN log : Receipts(m, r) <=> m = n
  /\ \A n \in DOMAIN log :
       log[n].to = "ACCEPTED" => \E r \in releases : Receipts(n, r)

(* Whoever reads the log alone can see that no verdict was committed       *)
(* against a head that had moved or a stream that was paused: up to the    *)
(* verdict, the log leads to an open stream at the revision of its request.*)
VerdictsCurrent ==
  \A n \in DOMAIN log :
    log[n].to = "COMMITTING" =>
      LET s == log[n].stream IN
      /\ Leads(Controls(s) \cap Before(n), From, To, "NONE", "ACTIVE")
      /\ Leads(Moves(s) \cap Before(n), RevBefore, Revision, -1, log[n].revision)

(* COMMITTING is left by the very next entry. *)
CommitsInOneStep ==
  \A n \in DOMAIN log :
    log[n].to = "COMMITTING" =>
      /\ n + 1 \in DOMAIN log
      /\ log[n + 1].job = log[n].job
      /\ log[n + 1].from = "COMMITTING" /\ log[n + 1].to \in {"ACCEPTED", "REJECTED"}
=============================================================================
