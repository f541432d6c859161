# A TLA+ verification of ForgeVerity

ForgeVerity is an acceptance gate for synthetic training data. A project is a
directory with a SQLite journal and a content-addressed store (CAS). An HTTP
server, worker loops and a command line act on it through one class, `Service`
(`src/src/forgeverity/service.py`), over one class, `ProjectStore`
(`src/src/forgeverity/store.py`). Producers submit candidate batches as *jobs*
against the head of a *training stream*; workers lease jobs, evaluate them and,
in one transaction, reject them or publish a *release* that becomes the new
head. Every step is an entry of a signed, hash-chained audit log from which a
release can be exported and verified offline.

In this document a file name without a path is a module of
`src/src/forgeverity/`.

Contents: [the system](#the-system) ·
[modules](#modules-and-how-they-correspond-to-the-code) ·
[runs](#runs) · [fairness](#fairness) · [proofs](#proofs) ·
[where code and documentation disagree](#where-code-and-documentation-disagree) ·
[not modelled](#what-is-not-modelled-and-why) · [plan](#plan)

## The system

### Components, their state and their operations

| Component | State | Operations | What makes it correct |
|---|---|---|---|
| Job pipeline | tables `jobs`, `retry_edges`; what a worker holds between transactions | `submit_job`, `rpc_lease`, `rpc_heartbeat`, `rpc_advance`, `rpc_finish` (`_commit_accept`, `_commit_reject`, `_fail_job`, `_mark_stale`), `rpc_recover`, `cancel_job`; `run_worker_once`, `worker_tick` | a job is done by one worker at a time, ends once, and ends |
| Streams and releases | tables `streams`, `releases` | `create_stream`, `set_stream_state`, `_commit_accept` | releases of a stream form one line, each decided against its parent |
| Trust | table `trust_snapshots` | `initialize_trust`, `rotate_trust` | entries are signed by the root active at their place; pending work is fenced |
| Audit log, outbox, checkpoints | tables `audit`, `outbox`, `checkpoints` | `_append_event`, `create_checkpoint`, `run_outbox` | the chain has no gap, every event gets under a checkpoint |
| Export and verification | none (reads) | `export_bundle`, `verify.py`, the TypeScript verifier | what is exported verifies under a pinned root |
| CAS and blobs | files, `staging/`, table `blobs` | `cas_write`, `cas_read`, `put_blob`, `_commit_object_blob`, `_tag_blob`, `blob_allowed_roles` | write before reference; holdouts stay hidden |
| Idempotent mutations | table `idempotency` | `_idempotency_lookup`, `_consume_idem` | one effect and one answer per key |
| References, policies | tables `references`, `policies` | `register_reference`, `put_policy` | registered once, partitions disjoint |
| Consumption | table `consumptions` | `consume` | only the head, once per key |
| Admission | tables `rate_limits`, `jobs` | `rate_limit`, `check_queue_limit`, `check_chain_quota`, candidate budget | limits hold |
| Wall clock | `WallClock`, in memory | `now_ms` | time does not go back by much |
| Transactions | one `sqlite3` connection per process | `tx` (`BEGIN IMMEDIATE`) | a transaction belongs to one thread; worker loops go on |
| Tokens | table `tokens` | issue, revoke, authenticate | a revoked token acts no more |
| Backup, restore | files, descriptor, pin, marker | `backup_create`, `restore_backup` | a backup is complete; a restored project lacks no blob, and one that lacks a pinned entry is marked |
| Evaluator | the corpus, over generations | `evaluate` (`gate.py`), `filter.py`, `metrics.py` | no leak and no duplicate enters a corpus; every record is accounted for; reports agree with decisions |
| HTTP, client, command line, dashboard | none of their own | routes, roles, `cmd_worker`, `cmd_loop` | |

### How they interact

* *Shared tables.* Everything with state meets in the journal. A mutation is
  one `BEGIN IMMEDIATE ... COMMIT`, so mutations of different processes
  serialise; what is read before `BEGIN` (by `submit_job`, `run_worker_once`,
  `run_outbox`, `export_bundle`, `consume`, `rotate_trust`, the idempotency
  lookup) may be stale inside.
* *Calls.* Each mutation appends an audit entry (`_append_event`), which
  enqueues an outbox row, and stores its response under the request's
  idempotency key (`_consume_idem`), all in the same transaction.
* *Trust* is read by every `_append_event` (who signs), pinned by every job
  (`jobs.trust_hash`) and compared again at the finish transaction.
* *Files* are written before the transaction that refers to them.

### Behaviours that are hard

Submissions, evaluations and recoveries interleave with the finish
transaction; workers die or are overtaken after their lease has run out;
several processes drain one outbox in separate statements; an export reads in
several steps; writers of one digest share a staging path; requests are
repeated after a lost response or arrive twice at once; power can fail between
a rename and the directory sync; threads of one process run into each other's
transactions; limits are read before the insert they guard; a backup is taken
of a project that goes on. Each of these, at its line, is listed under
`hazards` in `PROJECT.json` with the property that would notice it going wrong.

## Modules and how they correspond to the code

| Module | Models |
|---|---|
| `JobService` | submission, leases, the worker loop, the finish transaction, recovery, cancellation, pause and resume, rotation as the pipeline sees it |
| `ReleaseLine` | the abstract specification of streams that `JobService` implements |
| `AuditLog` | the log, trust snapshots, the outbox, checkpoints, export bundles and the checks of `verify.py` |
| `BlobStore` | `cas_write` by system call, table `blobs`, kills and power failures |
| `Idempotency` | keys, lookups, replays, concurrent duplicates, lost responses |
| `Evaluation` | registration of a reference and `evaluate` over generations of releases: filter, leak check, deduplication, gate |
| `Admission` | rate limit, queue limit and chain quota, threads that share a connection, two processes that share a database, the clock |
| `Backup` | `backup_create` and `restore_backup` beside a project in service |
| `PipelineLog` | `JobService` with the audit entries every transaction appends |
| `KeptLog` | the abstract log, checkpoints and tasks that `AuditLog` implements |
| `KeyedEffects` | the abstract promise of a key that `Idempotency` implements |
| `MC*` | symmetry, texts and operator values for TLC |
| `*_proofs` | the theorems about the module of the same name |

In all of them one action is one committed transaction, or one step a process
makes outside any transaction. A transaction that rolls back is an action only
when the process then behaves differently. Workers and clients are processes
with a connection of their own, except in `Admission` and `Idempotency`, which
have the threads that share one.

### JobService

| Variable | Code |
|---|---|
| `stream` | rows of `streams`: `state`, `revision`, `head` (the revision of the head release) |
| `releases` | rows of `releases`; `pinned` is the revision of the release the decision was computed against |
| `trust` | which trust snapshot is current |
| `created` | `next_seq` of `jobs` |
| `job` | rows of `jobs`, with `retry_edges` as the field `pred` |
| `client` | what a `submit_job` in progress has read and not yet inserted |
| `wk` | what a worker loop holds: where it is, its job and its fencing token |

`SubmitCheck` stands for all that `submit_job` reads before `BEGIN`,
`SubmitCommit` for its transaction, which rechecks nothing but the primary key
of `retry_edges`. A worker goes through `PickOldest` (a `SELECT` outside any
transaction), `Lease`, `Evaluate` (outside), `Advance` and one of the four
`Finish...` outcomes, or `RecordFailure`; `LoseLease` is a `LEASE_LOST` or
`TERMINAL_STATE` error from any of these transactions. `Tick` is
`rpc_recover`, which runs only when a worker found nothing to lease.
`FinishAccept` is the whole of `_commit_accept`: the release, the head, the
accepted job and every other pending job of the stream, in one step.

Abstractions:

* `Verdict` is a constant operator of what a job pins: the evaluator
  (module `Evaluation`) is deterministic, and the second evaluation inside the finish transaction sees
  the same inputs. Blobs may still vanish, which both `Evaluate` and
  `FinishFailed` allow.
* The reads of `SubmitCheck` are one step. They only fail or succeed together,
  and what matters, the gap up to the insert, is there.
* The lease deadline is a flag that flips at any time. Handlers read the clock
  before `BEGIN IMMEDIATE` and may wait there, so `Advance`, `Heartbeat` and
  the finish actions do not look at the flag, while `RecordFailure`, which
  reads the clock inside its transaction, does.
* `COMMITTING` never survives its transaction and is not a state here.
* `Crash` drops a worker that holds a lease. At other points a worker holds
  nothing a new process would not find again.

`ReleaseLine` knows nothing of jobs: a stream is open or not, and a release is
published on the next revision, on top of the head of that very moment, from a
decision taken against that head. `ImplementsLine` is the refinement, under the
mapping that reads `stream` and `releases` and forgets the rest.

### PipelineLog

`PipelineLog` extends `JobService` with `log`, table `audit` as far as jobs and
streams go: an entry is the stream, the job (0 for the stream itself), the
states `from_state` and `to_state` and the `revision` of
`audit.make_event_data`. Each `Logged...` action is an action of `JobService`
with the entries its transaction appends, in their order: one for most;
`COMMIT_STARTED` and the verdict for a decision, which is where `COMMITTING`
shows; one more for every job that `_commit_accept` or a pause makes stale,
or that `rpc_recover` takes back. Those are read `ORDER BY id`, and ids are
drawn at random, so `Orders` is any order. `Unlogged` is what appends nothing
about a job or a stream. Entries about other matters are in `AuditLog`, which
has the log's own machinery; here the question is whether tables and log tell
one story. `Leads` is the replay: a set of positions, read in order, leads
from one value to another without a gap.

### AuditLog

`log` is table `audit`; an entry is its kind, its subject (the tip of a
checkpoint, the snapshot of a rotation, the name of a release), the snapshot
whose root signed it and what the clock said of that root. `activation` is
`trust_snapshots.activation_seq`, `outbox` and `delivered` the two halves of
table `outbox`, `runner` the position of each `run_outbox` in its rows,
`caller` a `consume` or `export_bundle` in progress. `Verifies` transcribes
`_verify` for the key, order and checkpoint checks.

Abstractions: hashes and signatures are identity, and the links of an honest
chain hold by construction, so what can fail is which root the verifier
expects where. A bundle is a pair of positions in the log, which is
append-only, instead of a copy. A rotation is one step, because it is
documented as a stopped-service operation (`service.py:303`).

`KeptLog` is the same log without runners, callers, crashes or tables: entries
are added one at a time, signed by the root in force; a checkpoint covers all
before it; every other entry is a task that is done once, under a checkpoint.

### BlobStore

`file`, `dirs` and `staging` are the files, prefix directories and staging
files there are, `synced` and `rooted` the entries of files and prefix
directories that are on disk, `row` table `blobs`, `lock` SQLite's write lock,
`writer` a `cas_write` and what follows it; `unsynced` remembers the files a
writer left without its directory fsync, because that failed or the writer was
killed.
`put_blob` takes the lock only for its row; the objects of `rpc_finish` are
written while it is held. The calls `write`, `fsync` and `os.replace` are one
step, because other processes see the staging name and the final name only.
A digest stands for its bytes (`cas_read` compares the hash). `SyncDirectory`
is the fsync of `path.parent`: it puts the entries of that prefix directory on
disk, and not the entry of the prefix directory itself, which nothing ever
syncs. A kill leaves files and rolls the transaction back; a power failure
takes any subset of the file entries that were not synced and of the prefix
directories that `cas_root` has not got to the disk by itself, those with
every file in them, and keeps committed rows (`synchronous=FULL`). So
`CommittedPresent` cannot say that a synced file survives. It says what the
code keeps: without a power failure a committed row has its file, and a
committed file whose entry is not on disk has a writer that is about to sync
it, or one that failed or died before it could. Of the tags of a row, `blobs.roles`, those are kept that
`blob_allowed_roles` tells apart for such artifacts; the tag a PUT adds is
never read.

### Idempotency

`db` are the tables as committed, what mutations made and the rows of table
`idempotency`; `work` is the same with the open transaction; `ids` are the
identifiers drawn, also by what is rolled back; `req` the requests being
served. The lookup (`Replay`, `Conflict`, `Miss`) runs outside the transaction
of the mutation, on a connection that the threads of one server share, so it
finds the row as another thread has inserted it, not committed yet, or the
row that is committed (`Views`; the second is what another process sees). The
row is inserted inside the transaction (`Insert`), which ends with `Commit` or
with `Abort`, a `COMMIT` that fails or a process that dies before it. `BEGIN`
inside another thread's transaction raises (`BeginFails`). `Kind` sorts
endpoints by what they do when they are called twice under two keys: make
another object, find the registered one, or refuse because the job or stream
is settled already. A key belongs to one endpoint, since the code scopes it to
principal, method and path.

The dirty lookup has a consequence that the properties state: an answer can be
given from a row that is never committed, and the key can get another one
later. `undone` remembers such rows, and `AnswersAgree` says that nothing else
can come between a key and its one answer.

`KeyedEffects` is what the sender of a key may rely on: one step is the effect
and the answer together (`Perform`, `Share`), a later one makes it stand
(`Stand`), and until then a failure can take it back, answer and all (`Undo`).
Answers are told any number of times, before the effect stands too, and one
that was taken back may still be on its way (`Tell`). Requests, lookups,
conflicts and losses are stutters of it.

### Evaluation

`corpus` is the head release, each record with the origin of its link;
`doc`, `mode` a request; `eligible`, `excluded`, `todo` and `survivors` the
lists of `filter.py`; `decision` what `evaluate` returned. `Register` is the
partition checks with the genesis corpus; `Submit` to `Decide` are the stages
of `evaluate` in their order, with their early exits: a document out of order
or too large, flawed records, the leak check over *all* eligible records, the
dedup loop record by record in the order of `_survivor_order`, the sizes that
make metrics unnecessary or undefined, and the reasons of `reduce_gate`.

A text is what the code tells apart of it: its tokens, its category, its
shape. `Features` are `token_set`, `Near` is the exact threshold, `Found` what
the inverted index and the size filter let the code find. The Vendi ratios and
the self-BLEU increase are any of a set of values: only their comparison and
their rounding are decided in the gate.

### Admission

`db` holds the tables as committed, `work` as the open transaction sees them,
`lock` who has it open. `Begin`, `NestedBegin` and `BusyBegin` are the three
ways `BEGIN IMMEDIATE` ends: it takes the lock, it raises because another
thread of the process is inside a transaction on the same connection, or it
gives up after `busy_timeout` because another process is. `Seen` is what a
plain statement reads: the uncommitted tables when a thread of the same
process has a transaction open. `submit_job` is `LimitRate`, `CheckQueue`,
`CheckChain` and an insert, with the reading of the clock each uses; the scope
of the chain quota is computed from two readings, `ReadDay` and `InsertFirst`,
and `begun` counts the chains that begin on the watched day whatever row they
are filed under. A worker loop is `FindJob`, `Lease`, `Recover`, and for what
it does to other tables `Write`, any of its transactions, and `Mark`, the
plain `UPDATE` of an outbox row. Any exception but an `ApiError` ends its
thread: a nested or busy `BEGIN`, a busy `UPDATE`, or an error of its own
(`Fail`, at any point; inside a transaction it is rolled back).

Jobs are two numbers: those that never had a lease, and those that were
recovered, which return to the queue whatever its length. One principal and
one reference stand for all, since scopes do not interact.

### Backup

`project`, `backup` and `dest` are a project, the newest backup and the
directory that is restored into: log, rows of `blobs`, files. The project goes
on while a backup copies the journal (`StartBackup`), the directories of the
CAS one at a time (`CopyDir`) and reads the tip (`FinishBackup`). A restore
takes any backup there is: aborted, damaged or still being taken. `Adopt` puts
the restored project into service, from where histories fork, and backups of
both lines meet the operator's pin. A log is the sequence of its entries, so
comparing tips by hash is comparing logs.

## Runs

All take the bounds from their `.cfg`. The passing ones take from half a
minute to three minutes with two TLC workers.

| Run | Bounds | Shows |
|---|---|---|
| `jobs_pipeline` | 1 stream, 1 client, 2 workers, 2 jobs, 2 attempts, 2 control revisions; 192 000 states, no symmetry | `TypeOK`, `FenceCurrent`, `NoLostUpdate`, `AcceptedIffReleased`, `StageMatchesLoop`, `ImplementsLine`, `JobNeverLoops`, `EveryJobSettles` |
| `jobs_retry` | 2 clients, 1 worker, 3 jobs, 2 rounds, 1 rotation, a candidate that leaks and one that is accepted once; 1.3 million | `RetryChain`, `StageMatchesLoop` (with a leak), `TerminalForever` |
| `log_replay` | 1 stream, 1 client, 1 worker, 2 jobs, 2 attempts, 2 control revisions, 1 rotation; 1.3 million, no symmetry | `JobsReplay`, `StreamsReplay`, `ReleasesReceipted`, `VerdictsCurrent` |
| `jobs_resume` | 1 of each | `PinnedParentFound` is violated |
| `audit_log` | 2 runners, 1 caller, 2 entries besides checkpoints, 2 snapshots, expired roots, 1 manual checkpoint, 1 kill; 747 000, no symmetry | `CheckpointsBounded`, `SignedByActiveRoot`, `BundleVerifies`, `EveryEventCovered`, `ImplementsKeptLog` |
| `audit_rotated` | 2 snapshots | `BundleAlwaysVerifies` is violated |
| `blobs_store` | 2 writers, 2 digests with one prefix, which may be new, 1 kill or power failure; 3.6 million | `CommittedPresent`, `StagingAccounted`, `HoldoutHidden` |
| `blobs_order` | 2 writers, 1 digest | `CommittedSynced` is violated |
| `idem_keys` | 2 requests at a time, 4 keys of 3 kinds, 2 bodies and none, 2 identifiers; 1.1 million | `AnswersAgree`, `RegisteredOnce`, `ImplementsKeyedEffects` |
| `evaluation_gate` | 23 texts around the threshold, 6 pairs of partitions, all documents of two and three records from a pool and a few that are refused, 2 generations; 130 000 states | `CorpusNeverLeaks`, `CorpusDistinct`, `SurvivorsKernel`, `RecordsAccounted`, `ReportFaithful`, `MetricsDefined`, `ReleasesOnlyGrow` |
| `admission` | 2 submissions, 2 worker loops, limits of 1, 2 minutes, 1 step back of the clock; 2.8 million | `FreshBounded`, `QuotaBounded`, `RateBounded`, `LoopSurvives` |
| `backup` | 1 blob, 2 directories, 3 entries; 1.3 million | `BackupComplete`, `ProjectComplete`, `RollbackMarked` |

Why the bounds are enough for what they are asked:

* A lost update, a token that outlives its lease or a double finish needs two
  workers and two jobs on one head; the second attempt is there so that an
  overtaken worker meets a row that was leased again. A stale submission needs
  one client only, since it is the head that moves between its two steps. Two
  control revisions are a pause and a resume. Streams share nothing but the
  queue and the trust snapshot; the theorems below hold for any number.
* A fork of a retry chain needs a rejected job and two successors, so three
  jobs and two clients; the rotation lets a chain meet another snapshot.
* What two jobs on one head can write into the log is what `log_replay` is
  about: an acceptance that makes the other stale, a pause that stops both, a
  worker that comes late. One worker reaches all of it, since it may crash or
  lose its lease and lease the same row again; with one stream and two jobs
  the log is distinct in every history, which is why the run is large.
* Two runners are enough for overlap, and either may be killed at any point.
  Two entries are a release and what comes before or after it: a rotation, a
  consumption, another release, with checkpoints of the runners and one by hand
  anywhere in between. The bound `MaxEntries` does not count checkpoints;
  `CheckpointsBounded` says how many there are. An expired root covers what
  code and verifier do with one that is not usable: `consume` refuses it like a
  revoked one. An activation that is neither the first nor the last of a bundle
  is beyond this run; the theorems have any number.
* Every pair of writers on one staging path, and every order of tags on a
  training set and a holdout, is in `blobs_store`. After one failure the store
  is at rest with whatever was left behind, and the run continues from there.
  The digests share a prefix directory, so that the fsync of one writer covers
  the file of the other and a lost directory takes both.
* Requests are reused after they end, so two at a time give repetition after
  a loss as well as overlap, and a lookup beside an open transaction. Two
  identifiers are the least with which a key is answered anew after its first
  effect was undone.
* A run of ten words has 19 features, and one more feature is the least that
  can differ, so the texts of `MCEvaluation` lie on, just above and just below
  19/20, also through a chain of texts that are pairwise near but not at its
  ends. The second generation meets the survivors of the first as parents.
* Two threads of each process are the least that can nest a `BEGIN`; with
  limits of 1 the second submission already overshoots. The clock crosses one
  minute that is the watched one and one midnight, forwards and backwards, also
  between the two readings that name a day; without its term for such changes
  `QuotaBounded` is violated in this run. The run uses a `VIEW` that forgets
  the time a request has read once nothing will read it again.
* Three entries make two lines of history of different lengths with a common
  beginning, which is what a pin must tell apart. One blob is written and
  named before, while and after its directory is copied; the other directory
  is there so that the copy can be anywhere.

Symmetry is over clients, workers, runners, callers, writers, digests, requests,
loops and bodies, none of which the modules tell apart. `jobs_pipeline` and
`audit_log` check liveness and use none. `CHECK_DEADLOCK FALSE` is set where
a system at its bounds has nothing left to do (a log at `MaxEntries` with an
empty outbox).

Every property of a passing run has a mutant in `PROJECT.json`: a definition
changed the way a plausible bug would change it, under which TLC finds the
property violated. The mutated operators stand beside the originals in the
modules, marked "Mutant".

Type invariants, apart from the one of `jobs_pipeline`, and what the properties
of a run imply are proved below and not repeated by the runs: a row leased once
too often (`AttemptLimit`) would break `JobNeverLoops` when it ends, and
`OneEffectPerKey` and `DeliveredCovered` follow from the refinements.

## Fairness

`JobService!FairSpec` has weak fairness of `WorkerStep(w)` for each worker and
of `LeaseExpires(j)` for each job: `cmd_worker` polls for ever and a dead
process is restarted, and the clock passes every deadline. `Crash` and
`Heartbeat` are not fair and not forbidden, so a job may be thrown back as
often as the attempt limit allows. Nothing is owed by clients or operators: a
submission may stay between its steps for ever.

`AuditLog!FairSpec` has weak fairness of `RunnerStep(w)`, the outbox part of
`worker_tick`, for the same reason; kills are bounded by `MaxCrashes`.

Two assumptions are hidden in this and are discussed under `hazards`: loops
keep running (by `LoopSurvives` in `Admission` they do not end each other to
the last, but an error of its own or a lock of the server can end any loop),
and the queue drains at times (`worker_tick` runs only when there is nothing to
lease; here the number of jobs is bounded).

## Proofs

`tlapm` checks all eight proof modules. Each theorem holds for all values of the
constants that satisfy the assumption of its module: `ConstantsAssumption`
(the null owner is not a worker, there is a stream and a candidate, the limits
are numbers), `AuditAssumption`, `BlobAssumption`, `IdemAssumption`,
`AdmissionAssumption` and `BackupAssumption` of the same kind. `Evaluation` has
three: what a text is, that a sample is at least two and no partition or batch
is smaller than it (`SAMPLE_MIN_PRODUCTION` and the least sizes of partitions
and policies are all 32), and the ranges of policy fields. Threads that are
counted (`Runners`, `Requests`, `Loops`) and the streams of `PipelineLog`
(`StreamsAssumption`) are finitely many; there is no other
assumption about how many processes, jobs, entries or failures there are.

| Module | Theorems |
|---|---|
| `JobService_proofs` | `TypeCorrect`, `LeaseRowCorrect`, `AttemptLimitCorrect`, `FenceCurrentCorrect`, `TerminalForeverCorrect`, `JobNeverLoopsCorrect`, `StageMatchesLoopCorrect`, `LineLinearCorrect`, `NoLostUpdateCorrect`, `LineImplemented`, `AcceptedIffReleasedCorrect`, `RetryChainCorrect` |
| `PipelineLog_proofs` | `LogTypeCorrect`, `JobsReplayCorrect`, `StreamsReplayCorrect`, `ReleasesReceiptedCorrect`, `VerdictsCurrentCorrect`, `CommitsInOneStepCorrect` |
| `AuditLog_proofs` | `AuditTypeCorrect`, `DeliveredCoveredCorrect`, `CheckpointsBoundedCorrect`, `SignedByActiveRootCorrect`, `BundleVerifiesCorrect`, `ImplementsKeptLogCorrect` |
| `BlobStore_proofs` | `BlobTypeCorrect`, `StagingAccountedCorrect`, `CommittedPresentCorrect`, `HoldoutHiddenCorrect` |
| `Idempotency_proofs` | `IdemTypeCorrect`, `OneEffectPerKeyCorrect`, `AnswersAgreeCorrect`, `RegisteredOnceCorrect`, `ImplementsKeyedEffectsCorrect` |
| `Evaluation_proofs` | `IndexSound`, `EvaluationTypeCorrect`, `CorpusNeverLeaksCorrect`, `CorpusDistinctCorrect`, `ReleasesOnlyGrowCorrect`, `SurvivorsKernelCorrect`, `RecordsAccountedCorrect`, `ReportFaithfulCorrect`, `MetricsDefinedCorrect`, `SyntheticWithinLimitCorrect`, `RejectionHasReasonsCorrect` |
| `Admission_proofs` | `AdmissionTypeCorrect`, `FreshBoundedCorrect`, `QuotaBoundedCorrect`, `RateBoundedCorrect`, `LoopSurvivesCorrect` |
| `Backup_proofs` | `BackupTypeCorrect`, `BackupCompleteCorrect`, `ProjectCompleteCorrect`, `RollbackMarkedCorrect` |

### The job pipeline

The next-state relation has some twenty actions, but a row changes in eight
ways only. `RowStep(j)` and `WorkStep(w)` list them (inserted, leased out,
scoring, renewed, run out, stopped, decided, requeued; a worker keeps its
token, is handed the one in the row, or leaves its lease), and `StepShape`
proves once, action by action, that every step has this shape and keeps
`TypeOK`. The invariants about rows are then proved of shapes:

* `RowInv`, a strengthening of `LeaseRow` and `AttemptLimit` that is inductive
  row by row: an owner and a deadline exactly while leased, and a queued job
  always has an attempt left. `rpc_lease` does not check the count; the second
  half is what makes that safe.
* `FenceCurrent` needs `RowInv` and the fact that a token never goes down, and
  that a step which keeps it keeps the job with its worker or finishes it
  (`FenceMonotone`).
* `JobNeverLoops` counts the steps a row has left: of `RowStep`, all but a
  renewal and a deadline that passes use one up (`StepsLeftFalls`). A requeue
  gives back less than the lease took because the attempt was counted then,
  and `RowInv` says there is one to count. It is the safety half of
  `EveryJobSettles`: what fairness adds is only that some step is taken.
* `StageMatchesLoop` is strengthened by what a worker knows between
  `Evaluate` and `Advance` (the verdict is not a leak). `PlaceStep` says where
  a worker gets into the loop; for one that stays, `HolderKept` shows that
  holding the lease after a step means having held it before, with the job in
  the same stage: by `FenceCurrent` and `FenceMonotone` nobody else can have
  been there, and only the holder advances its job (`AdvancedBy`).
* `LineLinear` is inductive with `TypeOK`. The step that matters is
  `PinnedIsHead`: a job that is not stale at finish pins the stream's current
  revision, its pinned release exists, and no release lies above the head, so
  the pinned release *is* the head. `NoLostUpdate` and the refinement
  `LineImplemented` follow from it: `FinishAccept` is `Publish`, a pause or a
  resume is `Control`, everything else stutters.
* `AcceptedIffReleased` needs that only `FinishAccept` makes a job `ACCEPTED`,
  of a job that was pending and hence behind no release.
* `RetryChain` is strengthened by what a client holds between its two steps
  (`RequestInv`): the predecessor it read is still rejected at the insert,
  because terminal jobs never change. That is why the check may stay outside
  the transaction. Forks are excluded by the primary key, not by the check.

### The pipeline and its log

Every step of `PipelineSpec` is one of `JobService` by definition (the lemma
`PipelineIsJobService`), so the theorems of `JobService_proofs` hold of it. A
step appends `h` entries at the head, none (`Plain`), one about the stream
(`Controlled`) or the two of a verdict (`Judged`), and then one entry for each
job of a set, in any order (`RowEntries`). `StepLogged` proves this action by
action; the sets are the rows a transaction touched, and `StaleListing` and
`ListedShape` turn an order of them into positions.

The invariants are then kept by every step of that shape. `LeadsOn` extends a
replay by one entry that starts where the others ended, so `JobsReplay` and
`StreamsReplay` are inductive with `TypeOK`; that the second entry of a
verdict starts at the `COMMITTING` of the first is `VerdictReplayed`.
`CommitsInOneStep` and `VerdictsCurrent` are about entries that stay where
they are: a new `COMMITTING` is the first of a `Judged` head (`CommittingAt`),
before which `StreamsReplay` gives the stream's revision, and the guard of the
finish transaction says that it is the job's. `ReleasesReceipted` needs
`AcceptedIffReleased` for "exactly one": no earlier entry accepts a job that is
released only now (`ReceiptOfNew`), and no new one accepts a job that is
released already (`ReceiptsKept`).

### The audit log

`AppendShape` reduces every step to no entry, one entry signed by the current
root, or a rotation. `DeliveredCovered` is strengthened by what a runner about
to deliver knows (its next row is covered; coverage never goes away).
`SignedByActiveRoot` needs that activations increase and never lie beyond the
log. `BundleVerifies` adds that each snapshot but the first has exactly one
`KEY_ROTATED` entry, at its activation (`RotationInv`), that the tip of a
checkpoint is the entry before it (`SubjectInv`) and that what an export has
fixed stays fixed while it still reads (`ExportInv`); `ActivationsReadBack` then
shows that the activations the verifier reads back from a bundle are those of
the table.

`CheckpointsBounded` rests on a charge: the pair of a runner and a row is
charged when that runner takes a checkpoint for that row, and since a covered
row stays covered and no runner starts a checkpoint for a covered row, no pair
is charged twice (`Charged` is defined by what is covered, so it needs no
history).

`ImplementsKeptLogCorrect` is step by step: a plain entry is `LogEvent` or
`Checkpoint`, a rotation `Rotate`, and what a runner delivers is `Deliver`, or
a stutter when another runner delivered it first; what the runner knows of its
row is the strengthening of `DeliveredCovered`.

### The blob store

`StagingAccounted` is proved with its converse, that a writer between `O_EXCL`
and `os.replace` has a staging file, which is why no two writers can be there.
`CommittedPresent` rests on three facts: a writer past the rename or past a
successful `exists()` has seen the file, which only a power failure can take;
before any power failure every committed row has its file; and every file is
synced, about to be by the writer that renamed it, or was left unsynced by one
that failed or was killed there. `HoldoutHidden` needs that tags are only added
and that a registered holdout carries the tag `reference`.

### Idempotency

`IInv` says of the tables, as committed and as the open transaction sees them,
that an object has the row of its key and a row names an object made of its
body (`Consistent`); of the open transaction, that it has written one row and
nothing but what is under its key (`Pending`), so that taking it back restores
the tables; and of whatever is about to be answered, or was, that it is what
the row of its key says or the row was undone (`Told`). The last part is where
the dirty lookup comes in: it reads the committed row or the uncommitted one,
and when the two differ the committed one is empty. Steps are of four shapes:
one that leaves the tables alone, an insertion, a commit, and an abort, which
is the only one that can turn a row that was told into one that was undone.

From `IInv` it follows that the endpoint implements `KeyedEffects`: an
insertion is `Perform`, or `Share` when the object is registered already, a
commit is `Stand`, an abort `Undo`, an answer `Tell`, and all else a stutter.

### Evaluation

`IndexSound` is the lemma about data that everything rests on: texts that match
and have a token share a feature, and the size filter skips only pairs below
19/20 (inclusion and exclusion on the feature sets). It gives that the dedup
loop decides by `Matches`, so survivors form the kernel, and that an accepted
corpus adds to a corpus free of duplicates and leaks records that match
nothing in it. `CorpusNeverLeaks` also needs that the holdout does not change
and that the leak check ran over every record that can survive. `ReportFaithful`
is arithmetic on quotients: for a lower limit L in whole basis points,
floor(x) < L exactly if x < L; for upper limits only one direction holds, which
is what it states. `RejectionHasReasons` and `SyntheticWithinLimit` are stated
in `Evaluation` and proved only.

### Admission

The bounds are inductive when submissions in flight are counted in:
`QueueBudget` says that queued jobs and threads past the queue check together
stay below the limit and one per thread, and `QuotaBudget` says the same of the
chains begun on the watched day less the changes of the clock, apart from the
times it was set back. `Within` is its arithmetic, one lemma per kind of step.
What ties the two to the row that the check reads is `Uncounted`: the row
misses at most one chain per change of the clock, because only one thread at a
time is between its two readings, and if no change comes between them the row
is the right one (`DayNamed`). A plain read may see more than is committed and
never less (`OneUncommitted`: at most one transaction is open, and its insert
only adds), so dirty reads cannot break a bound. `RateBudget` follows the
clock: inside the watched minute only requests stamped elsewhere can take the
row and give the limit back, each once (`Inner`); outside, only requests
stamped in the minute can still be granted in it, and the last of as many as
there are threads finds no one left to give it room (`Outer`). `LoopSurvives`
follows from `TypeOK`: a nested `BEGIN` needs a transaction of another loop,
whose holder is inside it, alive, and untouched by the step.

### Backup

`MissingInTodo` says of a backup under way that its rows are of files the
project has, and that each is copied already or its directory is still to come:
the journal goes first, and rows are committed after their files. `ProjectAhead`
keeps its log a prefix of the project's. The marker needs only that two logs
that are equal are prefixes of each other: whatever differs from the pin is
marked.

### What stays with TLC

`EveryJobSettles` and `EveryEventCovered` (liveness under fairness). Every
invariant and every action property of a passing run is a theorem. The violated
properties are of course not theorems.

## Where code and documentation disagree

Three are runs that TLC refutes, with the quotations under `findings`.

* `jobs_resume`: after a pause and a resume the stream's revision has no
  release, and `_job_inputs` looks for one at exactly that revision, so every
  further job of the stream fails; `gate.py` and `cli.py` resolve the newest
  release at or below it.
* `audit_rotated`: a release checkpointed before a rotation is exported with a
  snapshot whose `KEY_ROTATED` entry the bundle does not reach, and
  verification rejects it.
* `blobs_order`: the second writer of a digest may commit its row before the
  first has synced the directory, against the rule in the docstring of
  `store.py`.

Others need no run of their own; most show in a single step:

* `rotate_trust` is to fence all active jobs (`service.py:330`), but hands
  `_mark_stale` rows without `request_json`; with a job pending it raises and
  rolls back. `JobService!RotateTrust` is the code: it happens only while no
  job is pending.
* `cas_write` is to "durably write" (`store.py:223`), but makes the prefix
  directory of a digest without ever syncing `cas_root`: after a power failure
  a new prefix directory may be gone with every file in it. `PowerLoss` does
  that; on most file systems the fsync of the new directory happens to be
  enough.
* An answer can be replayed from a row of `idempotency` that is not committed
  (`service.py:225`, on the connection of `store.py:176`) and never will be;
  the key then has no effect, or another one. `Replay` and `Abort` do that.
* `HttpClient.cancel_job` sends no body (`client.py:91`), for which the
  idempotency row cannot be inserted (`request_hash` is `NOT NULL`): the
  cancellation rolls back with a 500. `Idempotency` has such requests; they end
  in `"internal"` and leave nothing behind.
* `restore_backup` marks a project stale also when the pin is *older* than the
  backup, although its docstring speaks of a newer pin. The marker affects
  readiness only (`service.py:251-254`), not the verification the docstring
  names; it is not part of a backup, so a backup of a stale project restores
  without it. A restore that fails after the copy leaves a directory that can
  be served.
* `backup_create` reads the tip after the copy, so `tip.json` may name an entry
  the backup lacks, and its signature covers the tip only, where there is a key.
* The scope of the daily chain quota is computed from two readings of the
  clock (`service.py:893`); a tick between them files the chain where nobody
  looks. `QuotaBounded` has a term for these chains. Recovered jobs return to the queue whatever its limit.

## What is not modelled, and why

* *HTTP routing, roles, validators, canonical JSON, identifiers, keys, error
  tables, TypeScript types, dashboard, hosted stubs*: decided request by
  request without state, or formatting. A model would restate the tables.
* *Vendi score and self-BLEU* (`metrics.py`): exact arithmetic on token
  counts; the gate sees a ratio, which `Evaluation` leaves open.
* *Data checks of policies and trust snapshots, signatures*: facts about one
  document.
* *Tokens, the candidate budget, CLOCK_UNSAFE*: decided from one row or one
  reading. A token revoked between authentication and the transaction still
  acts once; nothing in the code promises otherwise.
* *The verifier's current mode, the replay of a decision, the TypeScript
  verifier*: functions of a bundle, without state.
* *The submit loop*: calls operations that are modelled, one after the other.
* *Other statements on a shared connection*: the mutations that are neither in
  `Admission` nor under a key behave like those that are. A plain `UPDATE` of
  `run_outbox` that joins another thread's transaction is `Mark`; that it can
  be rolled back with that transaction only makes the outbox repeat a row.

## Plan

Done, in this order: `ReleaseLine`, `JobService`, `AuditLog`, `BlobStore`,
`Idempotency`, `Evaluation`, `Admission`, `Backup`, `KeyedEffects`, `KeptLog`,
`PipelineLog`, each with its proofs. What is left:

1. `JobService` with `Evaluation` for its `Verdict`, so that a release of the
   line is a corpus of the gate.
2. Two rotations that extend the same snapshot; the verifier's current mode
   and its pinned tip; `cmd_loop` with its single key for all rounds.
