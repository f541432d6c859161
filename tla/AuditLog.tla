------------------------------ MODULE AuditLog ------------------------------
(***************************************************************************)
(* The hash-chained audit log of a project (service.py, store.py) and what *)
(* hangs on it: the trust snapshots that say whose key signs which entry,  *)
(* the durable outbox that gets every entry under a signed checkpoint, and *)
(* the export bundle that verify.py checks offline.                        *)
(*                                                                         *)
(* Hashes and signatures are abstracted to identity: an entry is its       *)
(* sequence number, and "signed by" is the number of the trust snapshot    *)
(* whose receipt root signed.  The log is append-only, so a bundle holds   *)
(* positions in it instead of copies.                                      *)
(***************************************************************************)
EXTENDS Integers, Sequences, FiniteSets

CONSTANTS
  Runners,      \* threads that process the outbox (worker_tick)
  Callers,      \* requests that consume or export a release
  Ages,         \* bound: what may happen to a receipt root, of "revoked", "expired"
  MaxEntries,   \* bound: entries other than checkpoints
  MaxTrust,     \* bound: trust snapshots
  MaxManual,    \* bound: checkpoints an operator takes by hand
  MaxCrashes    \* bound: runners killed half-way

ASSUME AuditAssumption ==
  /\ IsFiniteSet(Runners)
  /\ Ages \subseteq {"revoked", "expired"}
  /\ MaxEntries \in Nat
  /\ MaxTrust \in Nat
  /\ MaxManual \in Nat
  /\ MaxCrashes \in Nat

VARIABLES
  log,         \* table audit, in seq order
  activation,  \* table trust_snapshots: activation_seq of the i-th snapshot
  keyState,    \* the receipt root of the i-th snapshot, by the clock
  outbox,      \* undelivered rows of table outbox
  delivered,   \* delivered rows of table outbox
  runner,      \* [Runners -> record]: progress of run_outbox
  caller,      \* [Callers -> record]: progress of consume or export_bundle
  manual,      \* checkpoints taken by hand
  crashes

auditVars == <<log, activation, keyState, outbox, delivered, runner, caller, manual, crashes>>

-----------------------------------------------------------------------------
Events == {"RELEASE",      \* STREAM_CREATED or JOB_ACCEPTED
           "CONSUMED", "OTHER", "KEY_ROTATED", "CHECKPOINTED"}

KeyStates == {"usable", "revoked", "expired"}

(* subject: the tip of a checkpoint, the snapshot of a rotation, the seq   *)
(* of a release, which names the release from then on.                     *)
Entry == [event : Events, subject : Nat, root : Nat, key : KeyStates]

Current == Len(activation)

(* make_entry: the current receipt root signs, whatever its validity. *)
NewEntry(ev, sub, root, key) == [event |-> ev, subject |-> sub, root |-> root, key |-> key]

(* Mutant: every event asks for a checkpoint. *)
EnqueueAlways(ev, n) == outbox' = outbox \cup {n}

Enqueue(ev, n) ==
  outbox' = IF ev = "CHECKPOINTED" THEN outbox ELSE outbox \cup {n}

(* _append_event, for the events that leave the trust snapshots alone *)
AppendEvent(ev, sub) ==
  /\ log' = Append(log, NewEntry(ev, sub, Current, keyState[Current]))
  /\ Enqueue(ev, Len(log) + 1)

NoRows == [pc |-> "idle", rows |-> {}]

NoCall == [pc |-> "idle", rel |-> 0, tip |-> 0, ckpt |-> 0, snaps |-> 0]

(* trust init installs the first snapshot before anything is logged. *)
Init ==
  /\ log        = <<>>
  /\ activation = <<0>>
  /\ keyState   = <<"usable">>
  /\ outbox     = {}
  /\ delivered  = {}
  /\ runner     = [w \in Runners |-> NoRows]
  /\ caller     = [c \in Callers |-> NoCall]
  /\ manual     = 0
  /\ crashes    = 0

-----------------------------------------------------------------------------
(* Writers *)

Room == Cardinality(outbox \cup delivered) < MaxEntries

(* create_stream and _commit_accept log a release; submissions, outcomes,  *)
(* pauses and cancellations log something else.  None looks at the key.    *)
Record(ev) ==
  /\ Room
  /\ AppendEvent(ev, IF ev = "RELEASE" THEN Len(log) + 1 ELSE 0)
  /\ UNCHANGED <<activation, keyState, delivered, runner, caller, manual, crashes>>

(* consume tests the receipt root before its transaction. *)
ConsumeCheck(c) ==
  /\ caller[c].pc = "idle"
  /\ keyState[Current] = "usable"
  /\ caller' = [caller EXCEPT ![c].pc = "consuming"]
  /\ UNCHANGED <<log, activation, keyState, outbox, delivered, runner, manual, crashes>>

ConsumeCommit(c) ==
  /\ caller[c].pc = "consuming"
  /\ Room
  /\ AppendEvent("CONSUMED", 0)
  /\ caller' = [caller EXCEPT ![c] = NoCall]
  /\ UNCHANGED <<activation, keyState, delivered, runner, manual, crashes>>

(* The transaction is refused (head moved, stream paused) or dies. *)
ConsumeAbort(c) ==
  /\ caller[c].pc = "consuming"
  /\ caller' = [caller EXCEPT ![c] = NoCall]
  /\ UNCHANGED <<log, activation, keyState, outbox, delivered, runner, manual, crashes>>

(* Mutant: the event is appended before the snapshot is inserted. *)
RotationSigner(n) == n

(* The snapshot whose root signs KEY_ROTATED, when n are installed before *)
(* the rotation: the new one, which current_trust already returns.         *)
RotationSignedBy(n) == n + 1

(* rotate_trust: the snapshot and its KEY_ROTATED event in one transaction *)
RotateTrust ==
  /\ Room
  /\ Current < MaxTrust
  /\ activation' = Append(activation, Len(log) + 1)
  /\ keyState' = Append(keyState, "usable")
  /\ log' = Append(log, NewEntry("KEY_ROTATED", Current + 1, RotationSignedBy(Current),
                                 keyState'[RotationSignedBy(Current)]))
  /\ Enqueue("KEY_ROTATED", Len(log) + 1)
  /\ UNCHANGED <<delivered, runner, caller, manual, crashes>>

(* The clock passes revoked_at_ms or valid_until_ms of a root. *)
KeyAges(i) ==
  /\ keyState[i] # "expired"
  /\ \E k \in Ages \ {keyState[i]} : keyState' = [keyState EXCEPT ![i] = k]
  /\ UNCHANGED <<log, activation, outbox, delivered, runner, caller, manual, crashes>>

-----------------------------------------------------------------------------
(* Checkpoints: a row of table checkpoints is its CHECKPOINTED entry. *)

Checkpoints == {i \in DOMAIN log : log[i].event = "CHECKPOINTED"}
TipOf(i) == log[i].subject

(* MAX(tip_seq) >= audit_seq *)
Covered(q) == \E i \in Checkpoints : TipOf(i) >= q

(* Mutant: the checkpoint counts itself. *)
AppendCheckpointOfItself ==
  /\ log # <<>>
  /\ AppendEvent("CHECKPOINTED", Len(log) + 1)

(* create_checkpoint *)
AppendCheckpoint ==
  /\ log # <<>>
  /\ AppendEvent("CHECKPOINTED", Len(log))

(* forgeverity checkpoint *)
ManualCheckpoint ==
  /\ manual < MaxManual
  /\ AppendCheckpoint
  /\ manual' = manual + 1
  /\ UNCHANGED <<activation, keyState, delivered, runner, caller, crashes>>

(* run_outbox reads its rows once, then takes them in order, each with a   *)
(* read, a checkpoint if need be, and an update, in no common transaction. *)
ScanOutbox(w) ==
  /\ runner[w].pc = "idle"
  /\ outbox # {}
  /\ runner' = [runner EXCEPT ![w] = [pc |-> "examine", rows |-> outbox]]
  /\ UNCHANGED <<log, activation, keyState, outbox, delivered, caller, manual, crashes>>

IsNextRow(w, q) == q \in runner[w].rows /\ \A r \in runner[w].rows : q <= r

(* Mutant: any checkpoint satisfies a task. *)
ExamineRowLoosely(w) ==
  /\ runner[w].pc = "examine"
  /\ runner' = [runner EXCEPT ![w].pc = IF Checkpoints # {} THEN "deliver" ELSE "checkpoint"]
  /\ UNCHANGED <<log, activation, keyState, outbox, delivered, caller, manual, crashes>>

ExamineRow(w) ==
  \E q \in runner[w].rows :
    /\ runner[w].pc = "examine"
    /\ IsNextRow(w, q)
    /\ runner' = [runner EXCEPT ![w].pc = IF Covered(q) THEN "deliver" ELSE "checkpoint"]
    /\ UNCHANGED <<log, activation, keyState, outbox, delivered, caller, manual, crashes>>

TakeCheckpoint(w) ==
  /\ runner[w].pc = "checkpoint"
  /\ AppendCheckpoint
  /\ runner' = [runner EXCEPT ![w].pc = "deliver"]
  /\ UNCHANGED <<activation, keyState, delivered, caller, manual, crashes>>

RowsLeft(w, q) ==
  LET left == runner[w].rows \ {q} IN
  [pc |-> IF left = {} THEN "idle" ELSE "examine", rows |-> left]

DeliverRow(w) ==
  \E q \in runner[w].rows :
    /\ runner[w].pc = "deliver"
    /\ IsNextRow(w, q)
    /\ outbox' = outbox \ {q}
    /\ delivered' = delivered \cup {q}
    /\ runner' = [runner EXCEPT ![w] = RowsLeft(w, q)]
    /\ UNCHANGED <<log, activation, keyState, caller, manual, crashes>>

(* The process dies between two statements; what it committed stays. *)
RunnerCrash(w) ==
  /\ runner[w].pc # "idle"
  /\ crashes < MaxCrashes
  /\ crashes' = crashes + 1
  /\ runner' = [runner EXCEPT ![w] = NoRows]
  /\ UNCHANGED <<log, activation, keyState, outbox, delivered, caller, manual>>

-----------------------------------------------------------------------------
(* export_bundle: several reads, in no common transaction *)

(* ORDER BY tip_seq LIMIT 1 over the checkpoints that cover the release *)
IsFirstCover(i, q) ==
  /\ i \in Checkpoints /\ TipOf(i) >= q
  /\ \A k \in Checkpoints : TipOf(k) >= q => TipOf(i) <= TipOf(k)

(* Mutant: the bundle carries the receipts up to the tip of the log. *)
BundleTipLatest(i) == Len(log)

BundleTip(i) == TipOf(i)

ExportChoose(c) ==
  \E q, i \in DOMAIN log :
    /\ caller[c].pc = "idle"
    /\ log[q].event = "RELEASE"
    /\ IsFirstCover(i, q)
    /\ caller' = [caller EXCEPT ![c] = [pc |-> "exporting", rel |-> q, tip |-> BundleTip(i),
                                        ckpt |-> i, snaps |-> 0]]
    /\ UNCHANGED <<log, activation, keyState, outbox, delivered, runner, manual, crashes>>

(* Every trust snapshot there is when the query runs. *)
ExportSnapshots(c) ==
  /\ caller[c].pc = "exporting"
  /\ caller' = [caller EXCEPT ![c].snaps = Current, ![c].pc = "exported"]
  /\ UNCHANGED <<log, activation, keyState, outbox, delivered, runner, manual, crashes>>

ExportDone(c) ==
  /\ caller[c].pc = "exported"
  /\ caller' = [caller EXCEPT ![c] = NoCall]
  /\ UNCHANGED <<log, activation, keyState, outbox, delivered, runner, manual, crashes>>

-----------------------------------------------------------------------------
RunnerStep(w) == ScanOutbox(w) \/ ExamineRow(w) \/ TakeCheckpoint(w) \/ DeliverRow(w)

Next ==
  \/ \E ev \in {"RELEASE", "OTHER"} : Record(ev)
  \/ RotateTrust
  \/ \E i \in DOMAIN keyState : KeyAges(i)
  \/ ManualCheckpoint
  \/ \E w \in Runners : RunnerStep(w) \/ RunnerCrash(w)
  \/ \E c \in Callers :
       \/ ConsumeCheck(c) \/ ConsumeCommit(c) \/ ConsumeAbort(c)
       \/ ExportChoose(c) \/ ExportSnapshots(c) \/ ExportDone(c)

Spec == Init /\ [][Next]_auditVars

(* Worker loops keep ticking; a killed one is started again. *)
FairSpec == Spec /\ \A w \in Runners : WF_auditVars(RunnerStep(w))

-----------------------------------------------------------------------------
(* verify.py on a bundle b = a caller that is "exported".  Hash links and  *)
(* signatures of an honest bundle hold by construction; what can fail is   *)
(* which root the verifier expects where.                                  *)

(* The root of the last snapshot active at seq n. *)
IsRootAt(acts, r, n) ==
  /\ r \in DOMAIN acts
  /\ r = 1 \/ acts[r] <= n
  /\ \A i \in DOMAIN acts : acts[i] <= n => i <= r

Rotation(b, i) ==
  {n \in 1..b.tip : log[n].event = "KEY_ROTATED" /\ log[n].subject = i}

(* activation_seqs, read back from the receipts of the bundle *)
ActivationSeqs(b) ==
  [i \in 1..b.snaps |->
     IF i = 1 THEN 0 ELSE CHOOSE n \in Rotation(b, i) : \A m \in Rotation(b, i) : m <= n]

EntryVerifies(b, n) ==
  /\ IsRootAt(ActivationSeqs(b), log[n].root, n)
  /\ log[n].key # "expired"

Verifies(b) ==
  /\ \A i \in 2..b.snaps : Rotation(b, i) # {}
  /\ \A n \in 1..b.tip : EntryVerifies(b, n)
  /\ log[b.ckpt].event = "CHECKPOINTED"
  /\ b.ckpt = b.tip + 1
  /\ TipOf(b.ckpt) = b.tip
  /\ EntryVerifies(b, b.ckpt)
  /\ \E n \in 1..b.tip : log[n].event = "RELEASE" /\ log[n].subject = b.rel

-----------------------------------------------------------------------------
(* Properties *)

RunnerRow == [pc : {"idle", "examine", "checkpoint", "deliver"}, rows : SUBSET Nat]

CallerRow == [pc : {"idle", "consuming", "exporting", "exported"},
              rel : Nat, tip : Nat, ckpt : Nat, snaps : Nat]

(* Tables and local copies are well formed; the tasks, done or not, are    *)
(* exactly the entries other than checkpoints, each in one of the states.  *)
TypeOK ==
  /\ log \in Seq(Entry)
  /\ activation \in Seq(Nat) /\ activation # <<>>
  /\ keyState \in Seq(KeyStates) /\ Len(keyState) = Len(activation)
  /\ outbox \cap delivered = {}
  /\ outbox \cup delivered = DOMAIN log \ Checkpoints
  /\ runner \in [Runners -> RunnerRow]
  /\ \A w \in Runners : runner[w].rows \subseteq outbox \cup delivered
  /\ caller \in [Callers -> CallerRow]
  /\ manual \in Nat
  /\ crashes \in Nat

(* A task is marked delivered only when a checkpoint covers the event that *)
(* enqueued it, although the row is read, the checkpoint taken and the row *)
(* updated in three steps, by several runners that may die in between.     *)
DeliveredCovered == \A q \in delivered : Covered(q)

(* Every entry is signed by the receipt root of the trust snapshot that    *)
(* table trust_snapshots says was active at its seq: rotate_trust and      *)
(* _append_event, which looks the snapshot up again, agree on the boundary.*)
SignedByActiveRoot == \A n \in DOMAIN log : IsRootAt(activation, log[n].root, n)

(* The chain a bundle exports verifies offline under the pinned root, when *)
(* no snapshot was installed after the checkpoint the bundle ends in and   *)
(* no entry of it was signed with an expired key.                          *)
BundleVerifies ==
  \A c \in Callers :
    LET b == caller[c] IN
    /\ b.pc = "exported"
    /\ \A i \in 1..b.snaps : activation[i] <= b.tip
    /\ \A n \in 1..b.ckpt : log[n].key # "expired"
    => Verifies(b)

(* The outbox does not feed itself: at most one checkpoint per task and    *)
(* runner, however runners overlap and die.                                *)
CheckpointsBounded ==
  Cardinality(Checkpoints) <=
    manual + Cardinality(Runners) * Cardinality(DOMAIN log \ Checkpoints)

(* Every event gets under a checkpoint.  Their number is bounded here, so  *)
(* that it comes to this: as long as one is not, in the end all are.       *)
EveryEventCovered ==
  LET AllCovered == \A q \in outbox \cup delivered : Covered(q) IN
  ~AllCovered ~> AllCovered

(* Bundles are verifiable offline against the pinned receipt root. *)
BundleAlwaysVerifies ==
  \A c \in Callers :
    LET b == caller[c] IN
    /\ b.pc = "exported"
    /\ \A n \in 1..b.ckpt : log[n].key # "expired"
    => Verifies(b)

(* However runners overlap and die, and whatever rotates or is checkpointed *)
(* meanwhile, the tables are those of a log that is written, checkpointed  *)
(* and worked off one step at a time.                                      *)
Kept == INSTANCE KeptLog WITH
  entries <- log,
  roots   <- activation,
  covered <- {q \in DOMAIN log : Covered(q)},
  tasks   <- outbox,
  done    <- delivered

ImplementsKeptLog == Kept!Spec
=============================================================================
