--------------------------- MODULE AuditLog_proofs ---------------------------
(***************************************************************************)
(* What holds of the audit log for any number of runners, callers, entries *)
(* and trust snapshots: type correctness, DeliveredCovered,                *)
(* CheckpointsBounded, SignedByActiveRoot, BundleVerifies and that it      *)
(* implements KeptLog.  Every entry is appended by one of the shapes that  *)
(* AppendShape collects; the invariants about the log are proved of that   *)
(* shape once.                                                             *)
(***************************************************************************)
EXTENDS AuditLog, FiniteSetTheorems, TLAPS

(* Appending leaves every earlier entry where it was. *)
LEMMA AppendKeeps ==
  ASSUME NEW T, NEW s \in Seq(T), NEW e \in T
  PROVE  /\ Append(s, e) \in Seq(T)
         /\ Len(Append(s, e)) = Len(s) + 1
         /\ DOMAIN s = 1..Len(s)
         /\ DOMAIN Append(s, e) = 1..(Len(s) + 1)
         /\ \A n \in DOMAIN s : Append(s, e)[n] = s[n]
         /\ Append(s, e)[Len(s) + 1] = e
  OBVIOUS

(* The entries are numbered from 1 without gaps, and somebody's root can   *)
(* always sign.                                                            *)
LEMMA Numbers ==
  ASSUME TypeOK
  PROVE  /\ Len(log) \in Nat
         /\ DOMAIN log = 1..Len(log)
         /\ Current \in Nat \ {0}
         /\ DOMAIN activation = 1..Current
         /\ DOMAIN keyState = 1..Current
         /\ keyState[Current] \in KeyStates
  BY DEF TypeOK, Current

-----------------------------------------------------------------------------
(* One well-formed entry is appended together with its task. *)
Appends(e) ==
  /\ e \in Entry
  /\ log' = Append(log, e)
  /\ Enqueue(e.event, Len(log) + 1)
  /\ delivered' = delivered

LEMMA AppendsTyped ==
  ASSUME TypeOK, NEW e, Appends(e)
  PROVE  /\ log' \in Seq(Entry)
         /\ outbox' \cap delivered' = {}
         /\ outbox' \cup delivered' = DOMAIN log' \ Checkpoints'
         /\ outbox \cup delivered \subseteq outbox' \cup delivered'
<1>1. /\ log \in Seq(Entry) /\ e \in Entry
      /\ outbox \cap delivered = {}
      /\ outbox \cup delivered = DOMAIN log \ Checkpoints
  BY DEF TypeOK, Appends
<1>2. /\ log' \in Seq(Entry)
      /\ DOMAIN log = 1..Len(log) /\ Len(log) \in Nat
      /\ DOMAIN log' = 1..(Len(log) + 1)
      /\ \A n \in DOMAIN log : log'[n] = log[n]
      /\ log'[Len(log) + 1] = e
  BY <1>1, AppendKeeps DEF Appends
<1>3. CASE e.event = "CHECKPOINTED"
  <2>1. outbox' = outbox /\ delivered' = delivered
    BY <1>3 DEF Appends, Enqueue
  <2>2. Checkpoints' = Checkpoints \cup {Len(log) + 1}
    BY <1>2, <1>3 DEF Checkpoints
  <2>3. DOMAIN log' \ Checkpoints' = DOMAIN log \ Checkpoints
    BY <1>2, <2>2
  <2> QED BY <1>1, <1>2, <2>1, <2>3
<1>4. CASE e.event # "CHECKPOINTED"
  <2>1. outbox' = outbox \cup {Len(log) + 1} /\ delivered' = delivered
    BY <1>4 DEF Appends, Enqueue
  <2>2. Checkpoints' = Checkpoints
    BY <1>2, <1>4 DEF Checkpoints
  <2>3. DOMAIN log' \ Checkpoints' = (DOMAIN log \ Checkpoints) \cup {Len(log) + 1}
    BY <1>2, <2>2 DEF Checkpoints
  <2>4. Len(log) + 1 \notin delivered
    BY <1>1, <1>2
  <2> QED BY <1>1, <1>2, <2>1, <2>3, <2>4
<1> QED BY <1>3, <1>4

LEMMA AppendEventAppends ==
  ASSUME TypeOK, NEW ev \in Events, NEW sub \in Nat, AppendEvent(ev, sub),
         delivered' = delivered
  PROVE  Appends(NewEntry(ev, sub, Current, keyState[Current]))
  BY Numbers DEF AppendEvent, Appends, NewEntry, Entry

-----------------------------------------------------------------------------
(* What every step does to the log and to the tables beside it. *)

(* No entry, and none but an entry signed by the current root. *)
PlainAppend ==
  /\ UNCHANGED activation
  /\ \E ev \in Events \ {"KEY_ROTATED"}, sub \in Nat :
       /\ ev = "RELEASE" => sub = Len(log) + 1
       /\ ev = "CHECKPOINTED" => sub = Len(log) /\ log # <<>>
       /\ Appends(NewEntry(ev, sub, Current, keyState[Current]))

RotationAppend ==
  /\ activation' = Append(activation, Len(log) + 1)
  /\ Appends(NewEntry("KEY_ROTATED", Current + 1, Current + 1, "usable"))

NoAppend ==
  /\ UNCHANGED <<log, activation>>
  /\ outbox' \cup delivered' = outbox \cup delivered
  /\ outbox' \cap delivered' = {}

Shape == NoAppend \/ PlainAppend \/ RotationAppend

LEMMA RotationShape ==
  ASSUME TypeOK, RotateTrust
  PROVE  RotationAppend /\ keyState' = Append(keyState, "usable")
<1>1. keyState' = Append(keyState, "usable") /\ keyState'[Current + 1] = "usable"
  BY DEF RotateTrust, TypeOK, Current, KeyStates
<1>2. NewEntry("KEY_ROTATED", Current + 1, Current + 1, "usable") \in Entry
  BY Numbers DEF NewEntry, Entry, Events, KeyStates
<1>3. NewEntry("KEY_ROTATED", Current + 1, Current + 1, "usable").event = "KEY_ROTATED"
  BY DEF NewEntry
<1> QED BY <1>1, <1>2, <1>3 DEF RotateTrust, RotationAppend, Appends, RotationSignedBy

LEMMA AppendShape ==
  ASSUME TypeOK, [Next]_auditVars
  PROVE  Shape
<1>1. ASSUME NEW ev \in {"RELEASE", "OTHER"}, Record(ev)
      PROVE  PlainAppend
  <2> DEFINE sub == IF ev = "RELEASE" THEN Len(log) + 1 ELSE 0
  <2>1. sub \in Nat /\ ev \in Events /\ ev # "KEY_ROTATED"
    BY Numbers DEF Events
  <2>2. Appends(NewEntry(ev, sub, Current, keyState[Current]))
    BY <1>1, <2>1, AppendEventAppends DEF Record
  <2> QED BY <1>1, <2>1, <2>2 DEF Record, PlainAppend
<1>2. ASSUME NEW c \in Callers, ConsumeCommit(c)
      PROVE  PlainAppend
  <2>1. Appends(NewEntry("CONSUMED", 0, Current, keyState[Current]))
    BY SMTT(60), <1>2, AppendEventAppends DEF ConsumeCommit, Events
  <2> QED BY <1>2, <2>1 DEF ConsumeCommit, PlainAppend, Events
<1>3. ASSUME AppendCheckpoint, delivered' = delivered, activation' = activation
      PROVE  PlainAppend
  <2>1. Appends(NewEntry("CHECKPOINTED", Len(log), Current, keyState[Current]))
    BY <1>3, Numbers, AppendEventAppends DEF AppendCheckpoint, Events
  <2> QED BY <1>3, <2>1, Numbers DEF AppendCheckpoint, PlainAppend, Events
<1>4. ASSUME NEW w \in Runners, DeliverRow(w)
      PROVE  NoAppend
  <2>1. PICK q \in runner[w].rows :
          outbox' = outbox \ {q} /\ delivered' = delivered \cup {q}
    BY <1>4 DEF DeliverRow
  <2>2. q \in outbox \cup delivered /\ outbox \cap delivered = {}
    BY <2>1 DEF TypeOK
  <2> QED BY <1>4, <2>1, <2>2 DEF DeliverRow, NoAppend
<1>5. ASSUME UNCHANGED <<log, activation, outbox, delivered>>
      PROVE  NoAppend
  BY <1>5 DEF NoAppend, TypeOK
<1>6. ASSUME NEW w \in Runners, RunnerStep(w) \/ RunnerCrash(w)
      PROVE  Shape
  <2>1. CASE ScanOutbox(w) \/ ExamineRow(w) \/ RunnerCrash(w)
    BY <2>1, <1>5 DEF ScanOutbox, ExamineRow, RunnerCrash, Shape
  <2>2. CASE TakeCheckpoint(w)
    BY <2>2, <1>3 DEF TakeCheckpoint, Shape
  <2>3. CASE DeliverRow(w)
    BY <2>3, <1>4 DEF Shape
  <2> QED BY <1>6, <2>1, <2>2, <2>3 DEF RunnerStep
<1>7. ASSUME NEW c \in Callers,
             \/ ConsumeCheck(c) \/ ConsumeAbort(c)
             \/ ExportChoose(c) \/ ExportSnapshots(c) \/ ExportDone(c)
      PROVE  NoAppend
  BY <1>7, <1>5 DEF ConsumeCheck, ConsumeAbort, ExportChoose, ExportSnapshots, ExportDone
<1>8. ASSUME NEW i \in DOMAIN keyState, KeyAges(i)
      PROVE  NoAppend
  BY <1>8, <1>5 DEF KeyAges
<1>9. CASE ManualCheckpoint
  BY <1>9, <1>3 DEF ManualCheckpoint, Shape
<1>10. CASE RotateTrust
  BY <1>10, RotationShape DEF Shape
<1>11. CASE UNCHANGED auditVars
  BY <1>11, <1>5 DEF auditVars, Shape
<1> QED BY <1>1, <1>2, <1>6, <1>7, <1>8, <1>9, <1>10, <1>11 DEF Next, Shape

-----------------------------------------------------------------------------
(* Type correctness *)

LogTyped ==
  /\ log \in Seq(Entry)
  /\ activation \in Seq(Nat) /\ activation # <<>>
  /\ outbox \cap delivered = {}
  /\ outbox \cup delivered = DOMAIN log \ Checkpoints

LEMMA LogTypedStep ==
  ASSUME TypeOK, [Next]_auditVars
  PROVE  LogTyped' /\ outbox \cup delivered \subseteq outbox' \cup delivered'
<1>1. CASE NoAppend
  <2>1. Checkpoints' = Checkpoints
    BY <1>1 DEF NoAppend, Checkpoints
  <2> QED BY <1>1, <2>1 DEF NoAppend, LogTyped, TypeOK
<1>2. CASE PlainAppend
  BY <1>2, AppendsTyped DEF PlainAppend, LogTyped, TypeOK
<1>3. CASE RotationAppend
  <2>1. activation' \in Seq(Nat) /\ activation' # <<>>
    BY SMTT(60), <1>3 DEF RotationAppend, TypeOK
  <2> QED BY <1>3, <2>1, AppendsTyped DEF RotationAppend, LogTyped
<1> QED BY <1>1, <1>2, <1>3, AppendShape DEF Shape

KeysTyped == keyState \in Seq(KeyStates) /\ Len(keyState) = Len(activation)

LEMMA KeysTypedStep ==
  ASSUME TypeOK, [Next]_auditVars
  PROVE  KeysTyped'
<1>1. KeysTyped
  BY DEF TypeOK, KeysTyped
<1>2. CASE RotateTrust
  <2>1. keyState' = Append(keyState, "usable") /\ activation' = Append(activation, Len(log) + 1)
    BY <1>2, RotationShape DEF RotationAppend
  <2> QED BY <1>1, <2>1, Numbers DEF KeysTyped, KeyStates, TypeOK
<1>3. ASSUME NEW i \in DOMAIN keyState, KeyAges(i)
      PROVE  KeysTyped'
  BY <1>1, <1>3, AuditAssumption DEF KeyAges, KeysTyped, KeyStates
<1>4. CASE UNCHANGED <<keyState, activation>>
  BY <1>1, <1>4 DEF KeysTyped
<1> QED BY <1>2, <1>3, <1>4 DEF Next, auditVars, Record, ManualCheckpoint, RunnerStep, RunnerCrash,
      ScanOutbox, ExamineRow, TakeCheckpoint, DeliverRow, ConsumeCheck, ConsumeCommit,
      ConsumeAbort, ExportChoose, ExportSnapshots, ExportDone

RunnersTyped ==
  /\ runner \in [Runners -> RunnerRow]
  /\ \A w \in Runners : runner[w].rows \subseteq outbox \cup delivered

LEMMA RunnersTypedStep ==
  ASSUME TypeOK, [Next]_auditVars
  PROVE  RunnersTyped'
<1>1. RunnersTyped /\ outbox \cup delivered \subseteq outbox' \cup delivered'
  BY LogTypedStep DEF TypeOK, RunnersTyped
<1>2. outbox \cup delivered \subseteq Nat
  BY Numbers DEF TypeOK
<1>3. CASE UNCHANGED runner
  BY <1>1, <1>3 DEF RunnersTyped
<1>4. ASSUME NEW w \in Runners, RunnerStep(w) \/ RunnerCrash(w)
      PROVE  RunnersTyped'
  <2>1. ASSUME NEW row \in RunnerRow, row.rows \subseteq outbox \cup delivered,
               runner' = [runner EXCEPT ![w] = row]
        PROVE  RunnersTyped'
    BY <1>1, <2>1 DEF RunnersTyped
  <2>2. ASSUME NEW pc \in {"idle", "examine", "checkpoint", "deliver"},
               runner' = [runner EXCEPT ![w].pc = pc]
        PROVE  RunnersTyped'
    BY <1>1, <2>2 DEF RunnersTyped, RunnerRow
  <2>3. CASE ScanOutbox(w)
    BY <1>2, <2>1, <2>3 DEF ScanOutbox, RunnerRow
  <2>4. CASE ExamineRow(w) \/ TakeCheckpoint(w)
    BY <2>2, <2>4 DEF ExamineRow, TakeCheckpoint
  <2>5. CASE DeliverRow(w)
    <3>1. PICK q \in runner[w].rows : runner' = [runner EXCEPT ![w] = RowsLeft(w, q)]
      BY <2>5 DEF DeliverRow
    <3>2. RowsLeft(w, q) \in RunnerRow /\ RowsLeft(w, q).rows \subseteq outbox \cup delivered
      BY <1>1, <1>2 DEF RowsLeft, RunnerRow, RunnersTyped
    <3> QED BY <2>1, <3>1, <3>2
  <2>6. CASE RunnerCrash(w)
    BY <2>1, <2>6 DEF RunnerCrash, NoRows, RunnerRow
  <2> QED BY <1>4, <2>3, <2>4, <2>5, <2>6 DEF RunnerStep
<1> QED BY <1>3, <1>4 DEF Next, auditVars, Record, RotateTrust, KeyAges, ManualCheckpoint,
      ConsumeCheck, ConsumeCommit, ConsumeAbort, ExportChoose, ExportSnapshots, ExportDone

LEMMA CallersTypedStep ==
  ASSUME TypeOK, [Next]_auditVars
  PROVE  (caller \in [Callers -> CallerRow])'
<1>1. caller \in [Callers -> CallerRow]
  BY DEF TypeOK
<1>2. ASSUME NEW c \in Callers, ConsumeCheck(c) \/ ConsumeCommit(c) \/ ConsumeAbort(c) \/ ExportDone(c)
      PROVE  caller' \in [Callers -> CallerRow]
  BY <1>1, <1>2 DEF ConsumeCheck, ConsumeCommit, ConsumeAbort, ExportDone, NoCall, CallerRow
<1>3. ASSUME NEW c \in Callers, ExportChoose(c)
      PROVE  caller' \in [Callers -> CallerRow]
  <2>1. PICK q, i \in DOMAIN log :
          caller' = [caller EXCEPT ![c] = [pc |-> "exporting", rel |-> q, tip |-> BundleTip(i),
                                           ckpt |-> i, snaps |-> 0]]
    BY <1>3 DEF ExportChoose
  <2>2. q \in Nat /\ i \in Nat /\ log[i] \in Entry
    BY Numbers DEF TypeOK
  <2>3. BundleTip(i) \in Nat
    BY <2>2 DEF BundleTip, TipOf, Entry
  <2> QED BY <1>1, <2>1, <2>2, <2>3 DEF CallerRow
<1>4. ASSUME NEW c \in Callers, ExportSnapshots(c)
      PROVE  caller' \in [Callers -> CallerRow]
  BY ZenonT(60), <1>1, <1>4, Numbers DEF ExportSnapshots, CallerRow
<1>5. CASE UNCHANGED caller
  BY <1>1, <1>5
<1> QED BY <1>2, <1>3, <1>4, <1>5 DEF Next, auditVars, Record, RotateTrust, KeyAges,
      ManualCheckpoint, RunnerStep, RunnerCrash, ScanOutbox, ExamineRow, TakeCheckpoint, DeliverRow

LEMMA TypeInit ==
  ASSUME Init
  PROVE  TypeOK
<1>1. log = <<>> /\ DOMAIN log = {} /\ Checkpoints = {}
  BY DEF Init, Checkpoints
<1>2. log \in Seq(Entry)
  BY <1>1
<1>3. activation \in Seq(Nat) /\ activation # <<>> /\ keyState \in Seq(KeyStates)
      /\ Len(keyState) = Len(activation)
  BY DEF Init, KeyStates
<1>4. runner \in [Runners -> RunnerRow] /\ \A w \in Runners : runner[w].rows = {}
  BY DEF Init, NoRows, RunnerRow
<1>5. caller \in [Callers -> CallerRow]
  BY DEF Init, NoCall, CallerRow
<1> QED BY <1>1, <1>2, <1>3, <1>4, <1>5 DEF Init, TypeOK

LEMMA TypeStep ==
  ASSUME TypeOK, [Next]_auditVars
  PROVE  TypeOK'
<1>1. manual \in Nat /\ crashes \in Nat
  BY DEF TypeOK
<1>2. ASSUME NEW w \in Runners, RunnerStep(w) \/ RunnerCrash(w)
      PROVE  manual' = manual /\ (crashes' = crashes \/ crashes' = crashes + 1)
  BY <1>2 DEF RunnerStep, RunnerCrash, ScanOutbox, ExamineRow, TakeCheckpoint, DeliverRow
<1>3. ASSUME NEW c \in Callers,
             \/ ConsumeCheck(c) \/ ConsumeCommit(c) \/ ConsumeAbort(c)
             \/ ExportChoose(c) \/ ExportSnapshots(c) \/ ExportDone(c)
      PROVE  manual' = manual /\ crashes' = crashes
  BY <1>3 DEF ConsumeCheck, ConsumeCommit, ConsumeAbort, ExportChoose, ExportSnapshots, ExportDone
<1>4. \/ manual' = manual
      \/ manual' = manual + 1
  BY <1>2, <1>3 DEF Next, auditVars, Record, RotateTrust, KeyAges, ManualCheckpoint
<1>5. \/ crashes' = crashes
      \/ crashes' = crashes + 1
  BY <1>2, <1>3 DEF Next, auditVars, Record, RotateTrust, KeyAges, ManualCheckpoint
<1>6. manual' \in Nat /\ crashes' \in Nat
  BY <1>1, <1>4, <1>5
<1> QED BY <1>6, LogTypedStep, KeysTypedStep, RunnersTypedStep, CallersTypedStep
      DEF TypeOK, LogTyped, KeysTyped, RunnersTyped

(* The tables and every local copy stay well formed, and every entry but a *)
(* checkpoint has exactly one task in the outbox (_append_event).          *)
THEOREM AuditTypeCorrect == Spec => []TypeOK
<1>1. Init => TypeOK
  BY TypeInit
<1>2. TypeOK /\ [Next]_auditVars => TypeOK'
  BY TypeStep
<1> QED BY <1>1, <1>2, PTL DEF Spec

-----------------------------------------------------------------------------
(* The log only grows *)

LEMMA AppendsKeeps ==
  ASSUME TypeOK, NEW e, Appends(e)
  PROVE  /\ DOMAIN log = 1..Len(log) /\ Len(log) \in Nat
         /\ DOMAIN log' = 1..(Len(log) + 1) /\ Len(log') = Len(log) + 1
         /\ \A n \in DOMAIN log : log'[n] = log[n]
         /\ log'[Len(log) + 1] = e
  BY AppendKeeps DEF TypeOK, Appends

LEMMA LogGrows ==
  ASSUME TypeOK, [Next]_auditVars
  PROVE  /\ DOMAIN log \subseteq DOMAIN log'
         /\ \A n \in DOMAIN log : log'[n] = log[n]
  BY AppendShape, AppendsKeeps DEF Shape, NoAppend, PlainAppend, RotationAppend

LEMMA CoveredStays ==
  ASSUME TypeOK, [Next]_auditVars, NEW q, Covered(q)
  PROVE  Covered(q)'
  BY LogGrows DEF Covered, Checkpoints, TipOf

-----------------------------------------------------------------------------
(* Delivered tasks.  A runner on its way to the update has seen, or taken, *)
(* a checkpoint that covers its row.                                       *)

RunnerInv ==
  \A w \in Runners : runner[w].pc = "deliver" =>
    \A q \in runner[w].rows : IsNextRow(w, q) => Covered(q)

CoverInv == DeliveredCovered /\ RunnerInv

(* A fresh checkpoint covers every row any runner may have read. *)
LEMMA CheckpointCovers ==
  ASSUME TypeOK, AppendCheckpoint, delivered' = delivered, NEW q \in outbox \cup delivered
  PROVE  Covered(q)'
<1> DEFINE e == NewEntry("CHECKPOINTED", Len(log), Current, keyState[Current])
<1>1. Appends(e)
  BY Numbers, AppendEventAppends DEF AppendCheckpoint, Events
<1>2. log'[Len(log) + 1] = e /\ Len(log) + 1 \in DOMAIN log'
  BY <1>1, AppendsKeeps
<1>3. e.event = "CHECKPOINTED" /\ e.subject = Len(log)
  BY DEF NewEntry
<1>4. Len(log) >= q
  BY Numbers DEF TypeOK
<1> QED BY <1>2, <1>3, <1>4 DEF Covered, Checkpoints, TipOf

LEMMA RunnerInvStep ==
  ASSUME TypeOK, CoverInv, [Next]_auditVars
  PROVE  RunnerInv'
<1>1. CASE UNCHANGED runner
  BY <1>1, CoveredStays DEF CoverInv, RunnerInv, IsNextRow
<1>2. ASSUME NEW w \in Runners, RunnerStep(w) \/ RunnerCrash(w)
      PROVE  RunnerInv'
  <2>1. \A v \in Runners \ {w} : runner'[v] = runner[v]
    BY <1>2 DEF RunnerStep, RunnerCrash, ScanOutbox, ExamineRow, TakeCheckpoint, DeliverRow, TypeOK
  <2>2. runner'[w].pc = "deliver" =>
          \A q \in runner'[w].rows : IsNextRow(w, q)' => Covered(q)'
    <3>1. CASE ScanOutbox(w)
      BY <3>1 DEF ScanOutbox, TypeOK
    <3>2. CASE ExamineRow(w)
      <4>1. PICK p \in runner[w].rows :
              /\ IsNextRow(w, p)
              /\ runner' = [runner EXCEPT ![w].pc = IF Covered(p) THEN "deliver" ELSE "checkpoint"]
        BY <3>2 DEF ExamineRow
      <4>2. /\ runner'[w].rows = runner[w].rows
            /\ runner'[w].pc = "deliver" => Covered(p)
        BY <4>1 DEF TypeOK, RunnerRow
      <4>3. \A q \in runner'[w].rows : IsNextRow(w, q)' => q = p
        BY <4>1, <4>2, Numbers DEF IsNextRow, TypeOK, RunnerRow
      <4> QED BY <4>2, <4>3, CoveredStays
    <3>3. CASE TakeCheckpoint(w)
      <4>1. runner'[w].rows = runner[w].rows /\ runner[w].rows \subseteq outbox \cup delivered
        BY <3>3 DEF TakeCheckpoint, TypeOK, RunnerRow
      <4> QED BY <3>3, <4>1, CheckpointCovers DEF TakeCheckpoint
    <3>4. CASE DeliverRow(w)
      BY <3>4 DEF DeliverRow, RowsLeft, TypeOK
    <3>5. CASE RunnerCrash(w)
      BY <3>5 DEF RunnerCrash, NoRows, TypeOK
    <3> QED BY <1>2, <3>1, <3>2, <3>3, <3>4, <3>5 DEF RunnerStep
  <2>3. ASSUME NEW v \in Runners \ {w}, runner'[v].pc = "deliver",
               NEW q \in runner'[v].rows, IsNextRow(v, q)'
        PROVE  Covered(q)'
    BY <2>1, <2>3, CoveredStays DEF CoverInv, RunnerInv, IsNextRow
  <2> QED BY <2>2, <2>3 DEF RunnerInv
<1> QED BY <1>1, <1>2 DEF Next, auditVars, Record, RotateTrust, KeyAges, ManualCheckpoint,
      ConsumeCheck, ConsumeCommit, ConsumeAbort, ExportChoose, ExportSnapshots, ExportDone

LEMMA DeliveredStep ==
  ASSUME TypeOK, CoverInv, [Next]_auditVars
  PROVE  DeliveredCovered'
<1>1. CASE delivered' = delivered
  BY <1>1, CoveredStays DEF CoverInv, DeliveredCovered
<1>2. ASSUME NEW w \in Runners, DeliverRow(w)
      PROVE  DeliveredCovered'
  <2>1. PICK q \in runner[w].rows :
          runner[w].pc = "deliver" /\ IsNextRow(w, q) /\ delivered' = delivered \cup {q}
    BY <1>2 DEF DeliverRow
  <2>2. Covered(q)
    BY <2>1 DEF CoverInv, RunnerInv
  <2> QED BY <2>1, <2>2, CoveredStays DEF CoverInv, DeliveredCovered
<1> QED BY <1>1, <1>2 DEF Next, auditVars, Record, RotateTrust, KeyAges, ManualCheckpoint,
      RunnerStep, RunnerCrash, ScanOutbox, ExamineRow, TakeCheckpoint, ConsumeCheck,
      ConsumeCommit, ConsumeAbort, ExportChoose, ExportSnapshots, ExportDone

(* run_outbox marks a task delivered only under a checkpoint that covers   *)
(* it, with any number of runners that may die between two statements.     *)
THEOREM DeliveredCoveredCorrect == Spec => []DeliveredCovered
<1>1. Init => CoverInv
  BY DEF Init, CoverInv, DeliveredCovered, RunnerInv, NoRows
<1>2. TypeOK /\ CoverInv /\ [Next]_auditVars => CoverInv'
  BY RunnerInvStep, DeliveredStep DEF CoverInv
<1>3. CoverInv => DeliveredCovered
  BY DEF CoverInv
<1> QED BY <1>1, <1>2, <1>3, AuditTypeCorrect, PTL DEF Spec

-----------------------------------------------------------------------------
(* How many checkpoints the runners take.  Each is charged to the runner   *)
(* that took it and the row it took it for; once the row is covered, no    *)
(* runner that examines it takes another, so a pair is charged once.       *)

Tasks == DOMAIN log \ Checkpoints

Taking(w, q) == runner[w].pc = "checkpoint" /\ IsNextRow(w, q)

Charged == {p \in Runners \X Tasks : Covered(p[2]) /\ ~Taking(p[1], p[2])}

TakingInv ==
  \A w \in Runners : runner[w].pc = "checkpoint" => \E q \in runner[w].rows : IsNextRow(w, q)

ChargeInv == TakingInv /\ Cardinality(Checkpoints) <= manual + Cardinality(Charged)

ChargeBound ==
  /\ IsFiniteSet(Checkpoints) /\ Cardinality(Checkpoints) \in Nat
  /\ IsFiniteSet(Charged) /\ Cardinality(Charged) \in Nat
  /\ Cardinality(Tasks) \in Nat
  /\ Cardinality(Charged) <= Cardinality(Runners) * Cardinality(Tasks)

LEMMA ChargesFinite == TypeOK => ChargeBound
<1> SUFFICES ASSUME TypeOK PROVE ChargeBound
  OBVIOUS
<1>1. IsFiniteSet(DOMAIN log)
  BY Numbers, FS_Interval
<1>2. IsFiniteSet(Checkpoints) /\ IsFiniteSet(Tasks)
  BY <1>1, FS_Subset DEF Checkpoints, Tasks
<1>3. /\ IsFiniteSet(Runners \X Tasks)
      /\ Cardinality(Runners \X Tasks) = Cardinality(Runners) * Cardinality(Tasks)
  BY <1>2, AuditAssumption, FS_Product
<1>4. Charged \in SUBSET (Runners \X Tasks)
  BY DEF Charged
<1>5. IsFiniteSet(Charged) /\ Cardinality(Charged) <= Cardinality(Runners \X Tasks)
  BY <1>3, <1>4, FS_Subset
<1> QED BY <1>2, <1>3, <1>5, FS_CardinalityType DEF ChargeBound

LEMMA ChargesFiniteNext == TypeOK' => ChargeBound'
  BY ChargesFinite, PTL

(* An entry is a checkpoint or a task, and stays what it is. *)
LEMMA EntriesStay ==
  ASSUME TypeOK, [Next]_auditVars
  PROVE  Tasks \subseteq Tasks' /\ Checkpoints \subseteq Checkpoints'
  BY LogGrows DEF Tasks, Checkpoints

LEMMA CheckpointAdds ==
  ASSUME TypeOK, AppendCheckpoint, delivered' = delivered
  PROVE  Cardinality(Checkpoints') = Cardinality(Checkpoints) + 1
<1> DEFINE e == NewEntry("CHECKPOINTED", Len(log), Current, keyState[Current])
<1>1. Appends(e)
  BY Numbers, AppendEventAppends DEF AppendCheckpoint, Events
<1>2. /\ DOMAIN log = 1..Len(log) /\ Len(log) \in Nat
      /\ DOMAIN log' = 1..(Len(log) + 1)
      /\ \A n \in DOMAIN log : log'[n] = log[n]
      /\ log'[Len(log) + 1].event = "CHECKPOINTED"
  BY <1>1, AppendsKeeps DEF NewEntry
<1>3. Checkpoints' = Checkpoints \cup {Len(log) + 1} /\ Len(log) + 1 \notin Checkpoints
  BY <1>2 DEF Checkpoints
<1> QED BY <1>3, ChargesFinite, FS_AddElement DEF ChargeBound

(* The next row of a runner is one row. *)
LEMMA NextRowUnique ==
  ASSUME TypeOK, NEW w \in Runners, NEW p, NEW q, IsNextRow(w, p), IsNextRow(w, q)
  PROVE  p = q
<1>1. runner[w].rows \subseteq Nat
  BY DEF TypeOK, RunnerRow
<1> QED BY <1>1 DEF IsNextRow

LEMMA OnlyExamineTakes ==
  ASSUME TypeOK, [Next]_auditVars, NEW v \in Runners,
         runner'[v].pc = "checkpoint", runner'[v] # runner[v]
  PROVE  ExamineRow(v)
<1>1. ASSUME NEW w \in Runners, RunnerStep(w) \/ RunnerCrash(w)
      PROVE  ExamineRow(v)
  <2>1. v = w
    BY <1>1 DEF RunnerStep, RunnerCrash, ScanOutbox, ExamineRow, TakeCheckpoint, DeliverRow, TypeOK
  <2>2. ~ScanOutbox(v)
    BY DEF ScanOutbox, TypeOK
  <2>3. ~TakeCheckpoint(v)
    BY DEF TakeCheckpoint, TypeOK, RunnerRow
  <2>4. ~DeliverRow(v)
    BY DEF DeliverRow, RowsLeft, TypeOK
  <2>5. ~RunnerCrash(v)
    BY DEF RunnerCrash, NoRows, TypeOK
  <2> QED BY <1>1, <2>1, <2>2, <2>3, <2>4, <2>5 DEF RunnerStep
<1> QED BY <1>1 DEF Next, auditVars, Record, RotateTrust, KeyAges, ManualCheckpoint,
      ConsumeCheck, ConsumeCommit, ConsumeAbort, ExportChoose, ExportSnapshots, ExportDone

(* The only way to start taking a checkpoint is for a row not yet covered. *)
LEMMA TakingStarts ==
  ASSUME TypeOK, [Next]_auditVars, NEW v \in Runners, NEW q, Taking(v, q)'
  PROVE  /\ \E r \in runner'[v].rows : IsNextRow(v, r)'
         /\ Taking(v, q) \/ ~Covered(q)
<1>1. CASE runner'[v] = runner[v]
  BY <1>1 DEF Taking, IsNextRow
<1>2. CASE ExamineRow(v)
  <2>1. PICK p \in runner[v].rows :
          /\ IsNextRow(v, p)
          /\ runner' = [runner EXCEPT ![v].pc = IF Covered(p) THEN "deliver" ELSE "checkpoint"]
    BY <1>2 DEF ExamineRow
  <2>2. /\ runner'[v].rows = runner[v].rows
        /\ runner'[v].pc = "checkpoint" => ~Covered(p)
    BY <2>1 DEF TypeOK, RunnerRow
  <2>3. IsNextRow(v, p)' /\ IsNextRow(v, q)
    BY <2>1, <2>2 DEF IsNextRow, Taking
  <2>4. p = q
    BY <2>1, <2>3, NextRowUnique
  <2> QED BY <2>1, <2>2, <2>3, <2>4 DEF Taking
<1> QED BY <1>1, <1>2, OnlyExamineTakes DEF Taking

(* What is charged stays charged. *)
LEMMA ChargesStay ==
  ASSUME TypeOK, [Next]_auditVars
  PROVE  Charged \in SUBSET Charged'
<1> SUFFICES ASSUME NEW v \in Runners, NEW q \in Tasks, Covered(q), ~Taking(v, q)
             PROVE  q \in Tasks' /\ Covered(q)' /\ ~Taking(v, q)'
  BY DEF Charged
<1> QED BY EntriesStay, CoveredStays, TakingStarts

LEMMA TakingInvStep ==
  ASSUME TypeOK, TakingInv, [Next]_auditVars
  PROVE  TakingInv'
<1> SUFFICES ASSUME NEW v \in Runners, runner'[v].pc = "checkpoint"
             PROVE  \E q \in runner'[v].rows : IsNextRow(v, q)'
  BY DEF TakingInv
<1>1. CASE runner'[v] = runner[v]
  BY <1>1 DEF TakingInv, IsNextRow
<1>2. CASE ExamineRow(v)
  BY <1>2 DEF ExamineRow, IsNextRow, TypeOK, RunnerRow
<1> QED BY <1>1, <1>2, OnlyExamineTakes

(* A runner that takes its checkpoint is charged for its next row. *)
LEMMA TakeCharges ==
  ASSUME TypeOK, TakingInv, [Next]_auditVars, NEW w \in Runners, TakeCheckpoint(w), TypeOK'
  PROVE  Cardinality(Charged) + 1 <= Cardinality(Charged')
<1>1. PICK q \in runner[w].rows : IsNextRow(w, q)
  BY DEF TakingInv, TakeCheckpoint
<1>2. q \in Tasks /\ q \in Tasks'
  BY <1>1, EntriesStay DEF TypeOK, Tasks
<1>3. Covered(q)'
  BY <1>1, CheckpointCovers DEF TakeCheckpoint, TypeOK
<1>4. ~Taking(w, q)' /\ Taking(w, q)
  BY <1>1 DEF TakeCheckpoint, Taking, TypeOK
<1>5. <<w, q>> \in Charged' /\ <<w, q>> \notin Charged
  BY <1>2, <1>3, <1>4 DEF Charged
<1>6. Charged \in SUBSET Charged'
  BY ChargesStay
<1>7. IsFiniteSet(Charged') /\ Cardinality(Charged') \in Nat /\ Cardinality(Charged) \in Nat
  BY ChargesFinite, ChargesFiniteNext DEF ChargeBound
<1> QED BY <1>5, <1>6, <1>7, FS_Subset

LEMMA ChargeStep ==
  ASSUME TypeOK, TypeOK', ChargeInv, [Next]_auditVars
  PROVE  ChargeInv'
<1>1. /\ Cardinality(Checkpoints) \in Nat /\ Cardinality(Charged) \in Nat
      /\ IsFiniteSet(Charged') /\ Cardinality(Charged') \in Nat
      /\ manual \in Nat
  BY ChargesFinite, ChargesFiniteNext DEF ChargeBound, TypeOK
<1>2. Cardinality(Charged) <= Cardinality(Charged')
  BY <1>1, ChargesStay, FS_Subset
<1>3. TakingInv'
  BY TakingInvStep DEF ChargeInv
<1> SUFFICES Cardinality(Checkpoints') <= manual' + Cardinality(Charged')
  BY <1>3 DEF ChargeInv
<1>4. ASSUME NEW w \in Runners, TakeCheckpoint(w)
      PROVE  Cardinality(Checkpoints') <= manual' + Cardinality(Charged')
  <2>1. Cardinality(Checkpoints') = Cardinality(Checkpoints) + 1 /\ manual' = manual
    BY <1>4, CheckpointAdds DEF TakeCheckpoint
  <2>2. Cardinality(Charged) + 1 <= Cardinality(Charged')
    BY <1>4, TakeCharges DEF ChargeInv
  <2> QED BY <1>1, <2>1, <2>2 DEF ChargeInv
<1>5. CASE ManualCheckpoint
  <2>1. Cardinality(Checkpoints') = Cardinality(Checkpoints) + 1 /\ manual' = manual + 1
    BY <1>5, CheckpointAdds DEF ManualCheckpoint
  <2> QED BY <1>1, <1>2, <2>1 DEF ChargeInv
<1>6. CASE Checkpoints' = Checkpoints /\ manual' = manual
  BY <1>1, <1>2, <1>6 DEF ChargeInv
<1>7. ASSUME NEW e, Appends(e), e.event # "CHECKPOINTED"
      PROVE  Checkpoints' = Checkpoints
  BY <1>7, AppendsKeeps DEF Checkpoints
<1>8. CASE log' = log /\ manual' = manual
  BY <1>6, <1>8 DEF Checkpoints
<1>9. ASSUME NEW ev \in Events \ {"CHECKPOINTED"}, NEW sub \in Nat, AppendEvent(ev, sub),
             delivered' = delivered
      PROVE  Checkpoints' = Checkpoints
  BY <1>7, <1>9, AppendEventAppends DEF NewEntry
<1>10. ASSUME NEW ev \in {"RELEASE", "OTHER"}, Record(ev)
       PROVE  Checkpoints' = Checkpoints /\ manual' = manual
  <2> DEFINE sub == IF ev = "RELEASE" THEN Len(log) + 1 ELSE 0
  <2>1. sub \in Nat /\ ev \in Events \ {"CHECKPOINTED"}
    BY <1>10, Numbers DEF Events
  <2> QED BY <1>9, <1>10, <2>1 DEF Record
<1>11. ASSUME NEW c \in Callers, ConsumeCommit(c)
       PROVE  Checkpoints' = Checkpoints /\ manual' = manual
  BY <1>9, <1>11 DEF ConsumeCommit, Events
<1>12. CASE RotateTrust
  <2>1. Appends(NewEntry("KEY_ROTATED", Current + 1, Current + 1, "usable"))
    BY <1>12, RotationShape DEF RotationAppend
  <2> QED BY <1>6, <1>7, <1>12, <2>1 DEF NewEntry, RotateTrust
<1>13. ASSUME NEW w \in Runners, RunnerStep(w) \/ RunnerCrash(w)
       PROVE  \/ TakeCheckpoint(w)
              \/ log' = log /\ manual' = manual
  BY <1>13 DEF RunnerStep, RunnerCrash, ScanOutbox, ExamineRow, DeliverRow
<1>14. ASSUME NEW c \in Callers,
              \/ ConsumeCheck(c) \/ ConsumeAbort(c)
              \/ ExportChoose(c) \/ ExportSnapshots(c) \/ ExportDone(c)
       PROVE  log' = log /\ manual' = manual
  BY <1>14 DEF ConsumeCheck, ConsumeAbort, ExportChoose, ExportSnapshots, ExportDone
<1>15. ASSUME NEW i \in DOMAIN keyState, KeyAges(i)
       PROVE  log' = log /\ manual' = manual
  BY <1>15 DEF KeyAges
<1>16. CASE UNCHANGED auditVars
  BY <1>8, <1>16 DEF auditVars
<1> QED BY <1>4, <1>5, <1>6, <1>8, <1>10, <1>11, <1>12, <1>13, <1>14, <1>15, <1>16 DEF Next

(* The outbox does not feed itself: run_outbox takes at most one           *)
(* checkpoint per task and runner, however runners overlap and die.        *)
THEOREM CheckpointsBoundedCorrect == Spec => []CheckpointsBounded
<1>1. Init => ChargeInv
  <2> SUFFICES ASSUME Init PROVE ChargeInv
    OBVIOUS
  <2>1. Checkpoints = {} /\ Charged = {}
    BY DEF Init, Checkpoints, Charged, Tasks
  <2>2. TakingInv
    BY DEF Init, TakingInv, NoRows
  <2> QED BY <2>1, <2>2, FS_EmptySet DEF Init, ChargeInv
<1>2. TypeOK /\ TypeOK' /\ ChargeInv /\ [Next]_auditVars => ChargeInv'
  BY ChargeStep
<1>3. TypeOK /\ ChargeInv => CheckpointsBounded
  <2> SUFFICES ASSUME TypeOK, ChargeInv PROVE CheckpointsBounded
    OBVIOUS
  <2>1. Cardinality(Runners) \in Nat /\ manual \in Nat
    BY AuditAssumption, FS_CardinalityType DEF TypeOK
  <2> DEFINE bound == Cardinality(Runners) * Cardinality(Tasks)
  <2>2. bound \in Nat /\ Cardinality(Charged) <= bound
    BY <2>1, ChargesFinite DEF ChargeBound
  <2>3. Cardinality(Checkpoints) <= manual + Cardinality(Charged)
    BY DEF ChargeInv
  <2>4. Cardinality(Checkpoints) \in Nat /\ Cardinality(Charged) \in Nat
    BY ChargesFinite DEF ChargeBound
  <2> HIDE DEF bound
  <2>5. Cardinality(Checkpoints) <= manual + bound
    BY <2>1, <2>2, <2>3, <2>4
  <2> QED BY <2>5 DEF bound, CheckpointsBounded, Tasks
<1> QED BY <1>1, <1>2, <1>3, AuditTypeCorrect, PTL DEF Spec

-----------------------------------------------------------------------------
(* Who signs what.  Snapshots are activated in order, each at the entry    *)
(* that announces it.                                                      *)

ActivationInv ==
  /\ activation[1] = 0
  /\ \A i \in DOMAIN activation : activation[i] <= Len(log)
  /\ \A i, k \in DOMAIN activation : i < k => activation[i] < activation[k]

SignInv == ActivationInv /\ SignedByActiveRoot

LEMMA SignStep ==
  ASSUME TypeOK, SignInv, [Next]_auditVars
  PROVE  SignInv'
<1>1. /\ Len(log) \in Nat /\ DOMAIN log = 1..Len(log)
      /\ Current \in Nat \ {0} /\ Current = Len(activation)
      /\ DOMAIN activation = 1..Current /\ activation \in Seq(Nat)
  BY Numbers DEF TypeOK, Current
<1>2. CASE NoAppend
  BY <1>2 DEF NoAppend, SignInv, ActivationInv, SignedByActiveRoot, IsRootAt
<1>3. CASE PlainAppend
  <2>1. PICK ev \in Events, sub \in Nat :
          Appends(NewEntry(ev, sub, Current, keyState[Current]))
    BY <1>3 DEF PlainAppend
  <2>2. /\ DOMAIN log' = 1..(Len(log) + 1) /\ Len(log') = Len(log) + 1
        /\ \A n \in DOMAIN log : log'[n] = log[n]
        /\ log'[Len(log) + 1].root = Current
    BY <2>1, AppendsKeeps DEF NewEntry
  <2>3. activation' = activation
    BY <1>3 DEF PlainAppend
  <2>4. ActivationInv'
    BY <1>1, <2>2, <2>3 DEF SignInv, ActivationInv
  <2>5. IsRootAt(activation, Current, Len(log) + 1)
    BY <1>1 DEF SignInv, ActivationInv, IsRootAt
  <2>6. \A n \in DOMAIN log' : IsRootAt(activation, log'[n].root, n)
    BY <1>1, <2>2, <2>5 DEF SignInv, SignedByActiveRoot
  <2> QED BY <2>3, <2>4, <2>6 DEF SignInv, SignedByActiveRoot
<1>4. CASE RotationAppend
  <2>1. /\ DOMAIN log' = 1..(Len(log) + 1) /\ Len(log') = Len(log) + 1
        /\ \A n \in DOMAIN log : log'[n] = log[n]
        /\ log'[Len(log) + 1].root = Current + 1
    BY <1>4, AppendsKeeps DEF RotationAppend, NewEntry
  <2>2. /\ DOMAIN activation' = 1..(Current + 1)
        /\ \A i \in 1..Current : activation'[i] = activation[i]
        /\ activation'[Current + 1] = Len(log) + 1
    BY <1>1, <1>4, AppendKeeps DEF RotationAppend
  <2>3. \A i \in 1..Current : activation[i] \in Nat /\ activation[i] <= Len(log)
    BY <1>1 DEF SignInv, ActivationInv
  <2>4. ActivationInv'
    <3>1. activation'[1] = 0
      BY <1>1, <2>2 DEF SignInv, ActivationInv
    <3>2. \A i \in DOMAIN activation' : activation'[i] <= Len(log')
      BY <1>1, <2>1, <2>2, <2>3
    <3>3. ASSUME NEW i \in 1..(Current + 1), NEW k \in 1..(Current + 1), i < k
          PROVE  activation'[i] < activation'[k]
      <4>1. CASE k = Current + 1
        BY <1>1, <2>2, <2>3, <3>3, <4>1
      <4>2. CASE k \in 1..Current
        <5>1. i \in 1..Current
          BY <1>1, <3>3, <4>2
        <5>2. activation[i] < activation[k]
          BY <1>1, <3>3, <4>2, <5>1 DEF SignInv, ActivationInv
        <5> QED BY <2>2, <4>2, <5>1, <5>2
      <4> QED BY <1>1, <4>1, <4>2
    <3> QED BY <2>2, <3>1, <3>2, <3>3 DEF ActivationInv
  <2>5. ASSUME NEW n \in DOMAIN log
        PROVE  IsRootAt(activation', log'[n].root, n)
    <3>1. IsRootAt(activation, log[n].root, n)
      BY <2>5 DEF SignInv, SignedByActiveRoot
    <3>2. n \in Nat /\ n < Len(log) + 1
      BY <1>1, <2>5
    <3> QED BY SMTT(60), <1>1, <2>1, <2>2, <3>1, <3>2 DEF IsRootAt
  <2>6. IsRootAt(activation', Current + 1, Len(log) + 1)
    BY <1>1, <2>2 DEF IsRootAt
  <2>7. \A n \in DOMAIN log' : IsRootAt(activation', log'[n].root, n)
    BY <1>1, <2>1, <2>5, <2>6
  <2> QED BY <2>4, <2>7 DEF SignInv, SignedByActiveRoot
<1> QED BY <1>2, <1>3, <1>4, AppendShape DEF Shape

(* Every entry is signed by the root of the snapshot active at its seq     *)
(* (rotate_trust and _append_event), for any number of rotations.          *)
THEOREM SignedByActiveRootCorrect == Spec => []SignedByActiveRoot
<1>1. Init => SignInv
  BY DEF Init, SignInv, ActivationInv, SignedByActiveRoot
<1>2. TypeOK /\ SignInv /\ [Next]_auditVars => SignInv'
  BY SignStep
<1>3. SignInv => SignedByActiveRoot
  BY DEF SignInv
<1> QED BY <1>1, <1>2, <1>3, AuditTypeCorrect, PTL DEF Spec

-----------------------------------------------------------------------------
(* Bundles.  What the subjects of the entries mean, and what an export has *)
(* already fixed while it is still reading.                                *)

RotationInv ==
  /\ \A n \in DOMAIN log : log[n].event = "KEY_ROTATED" =>
       log[n].subject \in 2..Current /\ activation[log[n].subject] = n
  /\ \A i \in 2..Current :
       /\ activation[i] \in DOMAIN log
       /\ log[activation[i]].event = "KEY_ROTATED"
       /\ log[activation[i]].subject = i

SubjectInv ==
  /\ \A i \in Checkpoints : TipOf(i) = i - 1
  /\ \A n \in DOMAIN log : log[n].event = "RELEASE" => log[n].subject = n

Exporting(c) == caller[c].pc \in {"exporting", "exported"}

ExportInv(c) ==
  LET b == caller[c] IN
  /\ Exporting(c) =>
       /\ b.rel \in DOMAIN log /\ log[b.rel].event = "RELEASE" /\ b.rel <= b.tip
       /\ b.ckpt \in Checkpoints /\ b.tip = TipOf(b.ckpt)
  /\ b.pc = "exported" =>
       /\ b.snaps \in 1..Current
       /\ \A i \in DOMAIN activation : i > b.snaps => activation[i] > b.ckpt

BundleInv == RotationInv /\ SubjectInv /\ \A c \in Callers : ExportInv(c)

LEMMA RotationStep ==
  ASSUME TypeOK, RotationInv, [Next]_auditVars
  PROVE  RotationInv'
<1>1. /\ Len(log) \in Nat /\ DOMAIN log = 1..Len(log)
      /\ Current \in Nat \ {0} /\ DOMAIN activation = 1..Current /\ activation \in Seq(Nat)
  BY Numbers DEF TypeOK
<1>2. CASE NoAppend
  BY <1>2 DEF NoAppend, RotationInv, Current
<1>3. CASE PlainAppend
  <2>1. PICK ev \in Events \ {"KEY_ROTATED"}, sub \in Nat :
          Appends(NewEntry(ev, sub, Current, keyState[Current]))
    BY <1>3 DEF PlainAppend
  <2>2. /\ DOMAIN log' = 1..(Len(log) + 1)
        /\ \A n \in DOMAIN log : log'[n] = log[n]
        /\ log'[Len(log) + 1].event # "KEY_ROTATED"
    BY <2>1, AppendsKeeps DEF NewEntry
  <2>3. activation' = activation /\ Current' = Current
    BY <1>3 DEF PlainAppend, Current
  <2>4. ASSUME NEW n \in DOMAIN log', log'[n].event = "KEY_ROTATED"
        PROVE  log'[n].subject \in 2..Current /\ activation[log'[n].subject] = n
    BY SMTT(60), <1>1, <2>2, <2>4 DEF RotationInv
  <2>5. ASSUME NEW i \in 2..Current
        PROVE  /\ activation[i] \in DOMAIN log'
               /\ log'[activation[i]].event = "KEY_ROTATED"
               /\ log'[activation[i]].subject = i
    BY <1>1, <2>2, <2>5 DEF RotationInv
  <2> QED BY <2>3, <2>4, <2>5 DEF RotationInv
<1>4. CASE RotationAppend
  <2>1. /\ DOMAIN log' = 1..(Len(log) + 1)
        /\ \A n \in DOMAIN log : log'[n] = log[n]
        /\ log'[Len(log) + 1].event = "KEY_ROTATED"
        /\ log'[Len(log) + 1].subject = Current + 1
    BY <1>4, AppendsKeeps DEF RotationAppend, NewEntry
  <2>2. /\ Current' = Current + 1
        /\ \A i \in 1..Current : activation'[i] = activation[i]
        /\ activation'[Current + 1] = Len(log) + 1
    BY <1>1, <1>4, AppendKeeps DEF RotationAppend, Current
  <2>3. ASSUME NEW n \in DOMAIN log', log'[n].event = "KEY_ROTATED"
        PROVE  log'[n].subject \in 2..Current' /\ activation'[log'[n].subject] = n
    <3>1. CASE n = Len(log) + 1
      BY <1>1, <2>1, <2>2, <3>1
    <3>2. CASE n \in DOMAIN log
      <4>1. log[n].subject \in 2..Current /\ activation[log[n].subject] = n /\ log'[n] = log[n]
        BY <2>1, <2>3, <3>2 DEF RotationInv
      <4> QED BY <1>1, <2>2, <4>1
    <3> QED BY <1>1, <2>1, <3>1, <3>2
  <2>4. ASSUME NEW i \in 2..Current'
        PROVE  /\ activation'[i] \in DOMAIN log'
               /\ log'[activation'[i]].event = "KEY_ROTATED"
               /\ log'[activation'[i]].subject = i
    <3>1. CASE i = Current + 1
      BY <1>1, <2>1, <2>2, <3>1
    <3>2. CASE i \in 2..Current
      <4>1. activation'[i] = activation[i]
        BY <2>2, <3>2
      <4>2. activation[i] \in DOMAIN log /\ log[activation[i]].event = "KEY_ROTATED"
            /\ log[activation[i]].subject = i
        BY <3>2 DEF RotationInv
      <4> QED BY <1>1, <2>1, <4>1, <4>2
    <3> QED BY <1>1, <2>2, <2>4, <3>1, <3>2
  <2> QED BY <2>3, <2>4 DEF RotationInv
<1> QED BY <1>2, <1>3, <1>4, AppendShape DEF Shape

LEMMA SubjectStep ==
  ASSUME TypeOK, SubjectInv, [Next]_auditVars
  PROVE  SubjectInv'
<1>1. Len(log) \in Nat /\ DOMAIN log = 1..Len(log)
  BY Numbers
<1>2. CASE NoAppend
  BY <1>2 DEF NoAppend, SubjectInv, Checkpoints, TipOf
<1>3. ASSUME NEW ev, NEW sub, NEW root, NEW key, Appends(NewEntry(ev, sub, root, key)),
             ev = "RELEASE" => sub = Len(log) + 1,
             ev = "CHECKPOINTED" => sub = Len(log)
      PROVE  SubjectInv'
  <2>1. /\ DOMAIN log' = 1..(Len(log) + 1)
        /\ \A n \in DOMAIN log : log'[n] = log[n]
        /\ log'[Len(log) + 1].event = ev
        /\ log'[Len(log) + 1].subject = sub
    BY <1>3, AppendsKeeps DEF NewEntry
  <2>2. ASSUME NEW n \in DOMAIN log', log'[n].event = "CHECKPOINTED"
        PROVE  log'[n].subject = n - 1
    BY <1>1, <1>3, <2>1, <2>2 DEF SubjectInv, Checkpoints, TipOf
  <2>3. ASSUME NEW n \in DOMAIN log', log'[n].event = "RELEASE"
        PROVE  log'[n].subject = n
    BY <1>1, <1>3, <2>1, <2>3 DEF SubjectInv
  <2> QED BY <2>2, <2>3 DEF SubjectInv, Checkpoints, TipOf
<1> QED BY <1>2, <1>3, AppendShape DEF Shape, PlainAppend, RotationAppend

(* What an export has fixed stays fixed while the log and the snapshots    *)
(* grow.                                                                   *)
LEMMA ExportKept ==
  ASSUME TypeOK, NEW c \in Callers, ExportInv(c), [Next]_auditVars, caller'[c] = caller[c]
  PROVE  ExportInv(c)'
<1>1. /\ DOMAIN log \subseteq DOMAIN log'
      /\ \A n \in DOMAIN log : log'[n] = log[n]
      /\ \A i \in Checkpoints : i \in Checkpoints' /\ TipOf(i)' = TipOf(i)
  BY LogGrows DEF Checkpoints, TipOf
<1>2. /\ Len(log) \in Nat /\ DOMAIN log = 1..Len(log)
      /\ Current \in Nat \ {0} /\ DOMAIN activation = 1..Current /\ activation \in Seq(Nat)
  BY Numbers DEF TypeOK
<1>3. CASE activation' = activation
  BY <1>1, <1>3 DEF ExportInv, Exporting, Current
<1>4. CASE activation' = Append(activation, Len(log) + 1)
  <2>1. /\ Current' = Current + 1 /\ DOMAIN activation' = 1..(Current + 1)
        /\ \A i \in 1..Current : activation'[i] = activation[i]
        /\ activation'[Current + 1] = Len(log) + 1
    BY <1>2, <1>4, AppendKeeps DEF Current
  <2>2. CASE caller[c].pc = "exported"
    <3>1. caller[c].ckpt \in DOMAIN log
      BY <2>2 DEF ExportInv, Exporting, Checkpoints
    <3>2. caller[c].snaps \in 1..Current'
      BY <1>2, <2>1, <2>2 DEF ExportInv
    <3>3. ASSUME NEW i \in DOMAIN activation', i > caller[c].snaps
          PROVE  activation'[i] > caller[c].ckpt
      <4>1. CASE i = Current + 1
        BY <1>2, <2>1, <3>1, <4>1
      <4>2. CASE i \in 1..Current
        BY <1>2, <2>1, <2>2, <3>3, <4>2 DEF ExportInv
      <4> QED BY <1>2, <2>1, <4>1, <4>2
    <3> QED BY <1>1, <2>2, <3>2, <3>3 DEF ExportInv, Exporting
  <2>3. CASE caller[c].pc # "exported"
    BY <1>1, <2>3 DEF ExportInv, Exporting
  <2> QED BY <2>2, <2>3
<1> QED BY <1>3, <1>4, AppendShape DEF Shape, NoAppend, PlainAppend, RotationAppend

LEMMA ExportStep ==
  ASSUME TypeOK, \A c \in Callers : ExportInv(c), [Next]_auditVars, NEW c \in Callers
  PROVE  ExportInv(c)'
<1>1. CASE caller'[c] = caller[c]
  BY <1>1, ExportKept
<1>2. CASE caller'[c].pc \notin {"exporting", "exported"}
  BY <1>2 DEF ExportInv, Exporting
<1>3. CASE ExportChoose(c)
  <2>1. PICK q, i \in DOMAIN log :
          /\ log[q].event = "RELEASE" /\ IsFirstCover(i, q)
          /\ caller'[c] = [pc |-> "exporting", rel |-> q, tip |-> BundleTip(i),
                           ckpt |-> i, snaps |-> 0]
    BY <1>3 DEF ExportChoose, TypeOK
  <2>2. log' = log /\ activation' = activation
    BY <1>3 DEF ExportChoose
  <2>3. q \in Nat /\ TipOf(i) \in Nat /\ TipOf(i) >= q /\ i \in Checkpoints
    <3>1. q \in Nat /\ i \in Nat /\ log[i] \in Entry
      BY Numbers DEF TypeOK
    <3> QED BY <2>1, <3>1 DEF IsFirstCover, TipOf, Entry
  <2> QED BY <2>1, <2>2, <2>3 DEF ExportInv, Exporting, BundleTip, TipOf, Checkpoints
<1>4. CASE ExportSnapshots(c)
  <2>1. /\ caller[c].pc = "exporting" /\ log' = log /\ activation' = activation
        /\ caller'[c] = [caller[c] EXCEPT !.snaps = Current, !.pc = "exported"]
    BY <1>4 DEF ExportSnapshots, TypeOK
  <2>2. caller[c] \in CallerRow
    BY DEF TypeOK
  <2>3. /\ caller'[c].pc = "exported" /\ caller'[c].snaps = Current
        /\ caller'[c].rel = caller[c].rel /\ caller'[c].tip = caller[c].tip
        /\ caller'[c].ckpt = caller[c].ckpt
    BY <2>1, <2>2 DEF CallerRow
  <2>4. Current \in 1..Current /\ \A i \in DOMAIN activation : ~(i > Current)
    BY Numbers
  <2> QED BY <2>1, <2>3, <2>4 DEF ExportInv, Exporting, Checkpoints, TipOf, Current
<1>5. ASSUME NEW d \in Callers,
             \/ ConsumeCheck(d) \/ ConsumeCommit(d) \/ ConsumeAbort(d) \/ ExportDone(d)
      PROVE  caller'[c] = caller[c] \/ caller'[c].pc \notin {"exporting", "exported"}
  <2>1. caller'[c] = caller[c] \/ caller'[c] = NoCall \/ caller'[c].pc = "consuming"
    BY <1>5 DEF ConsumeCheck, ConsumeCommit, ConsumeAbort, ExportDone, TypeOK, CallerRow
  <2> QED BY <2>1 DEF NoCall
<1>6. ASSUME NEW d \in Callers, ExportChoose(d) \/ ExportSnapshots(d), d # c
      PROVE  caller'[c] = caller[c]
  BY <1>6 DEF ExportChoose, ExportSnapshots, TypeOK
<1>7. CASE UNCHANGED caller
  BY <1>1, <1>7
<1> QED BY <1>1, <1>2, <1>3, <1>4, <1>5, <1>6, <1>7 DEF Next, auditVars, Record, RotateTrust,
      KeyAges, ManualCheckpoint, RunnerStep, RunnerCrash, ScanOutbox, ExamineRow, TakeCheckpoint,
      DeliverRow

(* The activation seqs that verify.py reads back from the receipts of a    *)
(* bundle are the ones of table trust_snapshots.                           *)
LEMMA ActivationsReadBack ==
  ASSUME TypeOK, SignInv, RotationInv, NEW b, b.snaps \in 1..Current, b.tip \in Nat, b.tip <= Len(log),
         \A i \in 1..b.snaps : activation[i] <= b.tip
  PROVE  /\ \A i \in 2..b.snaps : Rotation(b, i) # {}
         /\ DOMAIN ActivationSeqs(b) = 1..b.snaps
         /\ \A i \in 1..b.snaps : ActivationSeqs(b)[i] = activation[i]
<1>1. /\ Len(log) \in Nat /\ DOMAIN log = 1..Len(log)
      /\ Current \in Nat \ {0} /\ DOMAIN activation = 1..Current /\ activation \in Seq(Nat)
  BY Numbers DEF TypeOK
<1>2. ASSUME NEW i \in 2..b.snaps
      PROVE  Rotation(b, i) = {activation[i]}
  <2>1. i \in 2..Current /\ activation[i] \in 1..b.tip
    <3>1. i \in 2..Current /\ i \in 1..b.snaps
      BY <1>1, <1>2
    <3>2. activation[i] \in DOMAIN log
      BY <3>1 DEF RotationInv
    <3>3. activation[i] <= b.tip
      BY <3>1
    <3> QED
      BY <1>1, <3>1, <3>2, <3>3
  <2>2. activation[i] \in Rotation(b, i)
    BY <2>1 DEF Rotation, RotationInv
  <2>3. ASSUME NEW n \in Rotation(b, i)
        PROVE  n = activation[i]
    <3>1. n \in DOMAIN log /\ log[n].event = "KEY_ROTATED" /\ log[n].subject = i
      BY <1>1, <2>3 DEF Rotation
    <3> QED BY <3>1 DEF RotationInv
  <2> QED BY <2>2, <2>3
<1>3. ASSUME NEW i \in 2..b.snaps
      PROVE  (CHOOSE n \in Rotation(b, i) : \A m \in Rotation(b, i) : m <= n) = activation[i]
  <2>1. activation[i] \in Nat
    BY <1>1, <1>3
  <2> QED BY <1>2, <1>3, <2>1
<1>4. activation[1] = 0
  BY DEF SignInv, ActivationInv
<1>5. ASSUME NEW i \in 1..b.snaps
      PROVE  ActivationSeqs(b)[i] = activation[i]
  <2>1. CASE i = 1
    BY <1>1, <1>4, <2>1 DEF ActivationSeqs
  <2>2. CASE i # 1
    <3>1. i \in 2..b.snaps
      BY <1>1, <1>5, <2>2
    <3>2. ActivationSeqs(b)[i] = CHOOSE n \in Rotation(b, i) : \A m \in Rotation(b, i) : m <= n
      BY <1>5, <2>2 DEF ActivationSeqs
    <3> QED BY <1>3, <3>1, <3>2
  <2> QED BY <2>1, <2>2
<1> QED BY <1>2, <1>5 DEF ActivationSeqs

LEMMA BundleChecks ==
  ASSUME TypeOK, SignInv, BundleInv, NEW c \in Callers, caller[c].pc = "exported",
         \A i \in 1..caller[c].snaps : activation[i] <= caller[c].tip,
         \A n \in 1..caller[c].ckpt : log[n].key # "expired"
  PROVE  Verifies(caller[c])
<1> DEFINE b == caller[c]
<1>1. /\ Len(log) \in Nat /\ DOMAIN log = 1..Len(log)
      /\ Current \in Nat \ {0} /\ DOMAIN activation = 1..Current /\ activation \in Seq(Nat)
  BY Numbers DEF TypeOK
<1>2. /\ b.rel \in DOMAIN log /\ log[b.rel].event = "RELEASE" /\ b.rel <= b.tip
      /\ b.ckpt \in DOMAIN log /\ log[b.ckpt].event = "CHECKPOINTED"
      /\ b.tip = TipOf(b.ckpt) /\ b.ckpt \in Checkpoints
      /\ b.snaps \in 1..Current
      /\ \A i \in DOMAIN activation : i > b.snaps => activation[i] > b.ckpt
  BY DEF BundleInv, ExportInv, Exporting, Checkpoints
<1>3. b.ckpt = b.tip + 1 /\ b.tip \in Nat /\ b.tip <= Len(log)
  BY <1>1, <1>2 DEF BundleInv, SubjectInv
<1>4. /\ \A i \in 2..b.snaps : Rotation(b, i) # {}
      /\ DOMAIN ActivationSeqs(b) = 1..b.snaps
      /\ \A i \in 1..b.snaps : ActivationSeqs(b)[i] = activation[i]
  BY <1>2, <1>3, ActivationsReadBack DEF BundleInv
<1>5. ASSUME NEW n \in 1..b.ckpt
      PROVE  EntryVerifies(b, n)
  <2>1. n \in DOMAIN log /\ n \in Nat /\ n <= b.ckpt
    BY <1>1, <1>2, <1>5
  <2>2. IsRootAt(activation, log[n].root, n)
    BY <2>1 DEF SignInv, SignedByActiveRoot
  <2>3. log[n].root \in 1..b.snaps
    <3>1. log[n].root \in 1..Current
      BY <1>1, <2>2 DEF IsRootAt
    <3>2. CASE log[n].root = 1
      BY <1>2, <3>2
    <3>3. CASE activation[log[n].root] <= n
      <4>1. activation[log[n].root] \in Nat /\ b.ckpt \in Nat
        BY SMTT(60), <1>1, <1>2, <3>1
      <4>2. ~(log[n].root > b.snaps)
        BY <1>1, <1>2, <2>1, <3>1, <3>3, <4>1
      <4> QED BY <1>2, <3>1, <4>2
    <3> QED BY <2>2, <3>2, <3>3 DEF IsRootAt
  <2>4. IsRootAt(ActivationSeqs(b), log[n].root, n)
    BY SMTT(60), <1>1, <1>2, <1>4, <2>2, <2>3 DEF IsRootAt
  <2> QED BY <1>5, <2>4 DEF EntryVerifies
<1>6. \A n \in 1..b.tip : EntryVerifies(b, n)
  BY <1>3, <1>5
<1>7. EntryVerifies(b, b.ckpt)
  BY <1>3, <1>5
<1>8. \E n \in 1..b.tip : log[n].event = "RELEASE" /\ log[n].subject = b.rel
  <2>1. b.rel \in 1..b.tip
    BY <1>1, <1>2, <1>3
  <2>2. log[b.rel].subject = b.rel
    BY <1>2 DEF BundleInv, SubjectInv
  <2> QED BY <1>2, <2>1, <2>2
<1> QED BY <1>2, <1>3, <1>4, <1>6, <1>7, <1>8 DEF Verifies

(* What export_bundle gathers in several reads passes the checks of        *)
(* verify.py, under the stated condition on rotations and expiry.          *)
THEOREM BundleVerifiesCorrect == Spec => []BundleVerifies
<1>1. Init => SignInv /\ BundleInv
  BY DEF Init, SignInv, ActivationInv, SignedByActiveRoot, BundleInv, RotationInv, SubjectInv,
         ExportInv, Exporting, NoCall, Checkpoints, Current
<1>2. TypeOK /\ SignInv /\ BundleInv /\ [Next]_auditVars => SignInv' /\ BundleInv'
  <2> SUFFICES ASSUME TypeOK, SignInv, BundleInv, [Next]_auditVars
               PROVE  SignInv' /\ BundleInv'
    OBVIOUS
  <2>1. SignInv'
    BY SignStep
  <2>2. RotationInv' /\ SubjectInv'
    BY RotationStep, SubjectStep DEF BundleInv
  <2>3. \A c \in Callers : ExportInv(c)'
    BY ExportStep DEF BundleInv
  <2> QED BY <2>1, <2>2, <2>3 DEF BundleInv
<1>3. TypeOK /\ SignInv /\ BundleInv => BundleVerifies
  BY BundleChecks DEF BundleVerifies
<1> QED BY <1>1, <1>2, <1>3, AuditTypeCorrect, PTL DEF Spec

-----------------------------------------------------------------------------
(* The tables are those of KeptLog. *)

CoveredSeqs == {q \in DOMAIN log : Covered(q)}

(* A checkpoint covers exactly what was there before it, and nothing else  *)
(* covers anything.                                                        *)
LEMMA AppendCovers ==
  ASSUME TypeOK, SubjectInv, NEW e, Appends(e), e.event = "CHECKPOINTED" => e.subject = Len(log)
  PROVE  CoveredSeqs' = IF e.event = "CHECKPOINTED" THEN 1..Len(log) ELSE CoveredSeqs
<1>1. /\ DOMAIN log = 1..Len(log) /\ Len(log) \in Nat
      /\ DOMAIN log' = 1..(Len(log) + 1)
      /\ \A n \in DOMAIN log : log'[n] = log[n]
      /\ log'[Len(log) + 1] = e
  BY AppendsKeeps
<1>2. \A i \in Checkpoints : i \in DOMAIN log /\ log[i].subject = i - 1
  BY DEF SubjectInv, Checkpoints, TipOf
<1>3. CASE e.event = "CHECKPOINTED"
  <2>1. Checkpoints' = Checkpoints \cup {Len(log) + 1}
    BY <1>1, <1>3 DEF Checkpoints
  <2>2. ASSUME NEW q \in 1..Len(log) PROVE Covered(q)'
    BY <1>1, <1>3, <2>1 DEF Covered, TipOf
  <2>3. ASSUME NEW q \in DOMAIN log', q \notin 1..Len(log) PROVE ~Covered(q)'
    <3>1. q = Len(log) + 1
      BY <1>1, <2>3
    <3> QED BY <1>1, <1>2, <1>3, <2>1, <3>1 DEF Covered, TipOf
  <2>4. ASSUME NEW q \in DOMAIN log' PROVE Covered(q)' <=> q \in 1..Len(log)
    BY <2>2, <2>3, <2>4
  <2>5. CoveredSeqs' = {q \in DOMAIN log' : q \in 1..Len(log)}
    BY <2>4 DEF CoveredSeqs
  <2>6. CoveredSeqs' = 1..Len(log)
    BY <1>1, <2>5
  <2> QED BY <1>3, <2>6
<1>4. CASE e.event # "CHECKPOINTED"
  <2>1. Checkpoints' = Checkpoints
    BY <1>1, <1>4 DEF Checkpoints
  <2>2. \A i \in Checkpoints : log'[i].subject = log[i].subject
    BY <1>1, <1>2
  <2>3. \A q : Covered(q)' <=> Covered(q)
    BY <2>1, <2>2 DEF Covered, TipOf
  <2>4. ~Covered(Len(log) + 1)
    BY <1>1, <1>2 DEF Covered, TipOf
  <2> QED BY <1>1, <1>4, <2>3, <2>4 DEF CoveredSeqs
<1> QED BY <1>3, <1>4

LEMMA AppendsGrow ==
  ASSUME TypeOK, NEW e, Appends(e)
  PROVE  Kept!Grow(e.root) /\ Kept!Fresh = Len(log) + 1
  BY AppendsKeeps DEF Kept!Grow, Kept!Fresh

(* An entry of any kind but KEY_ROTATED *)
LEMMA PlainIsKept ==
  ASSUME TypeOK, SubjectInv, PlainAppend
  PROVE  Kept!Next
<1>1. PICK ev \in Events \ {"KEY_ROTATED"}, sub \in Nat :
        /\ ev = "CHECKPOINTED" => sub = Len(log) /\ log # <<>>
        /\ Appends(NewEntry(ev, sub, Current, keyState[Current]))
  BY DEF PlainAppend
<1> DEFINE e == NewEntry(ev, sub, Current, keyState[Current])
<1>2. e.event = ev /\ e.subject = sub /\ e.root = Len(activation)
  BY DEF NewEntry, Current
<1>3. /\ Appends(e) /\ activation' = activation /\ delivered' = delivered
      /\ outbox' = IF ev = "CHECKPOINTED" THEN outbox ELSE outbox \cup {Len(log) + 1}
  BY <1>1, <1>2 DEF PlainAppend, Appends, Enqueue
<1>4. e.event = "CHECKPOINTED" => e.subject = Len(log)
  BY <1>1, <1>2
<1> HIDE DEF e
<1>5. Kept!Grow(Len(activation)) /\ Kept!Fresh = Len(log) + 1
  BY <1>2, <1>3, AppendsGrow
<1>6. CoveredSeqs' = IF ev = "CHECKPOINTED" THEN 1..Len(log) ELSE CoveredSeqs
  BY <1>2, <1>3, <1>4, AppendCovers
<1>7. CASE ev = "CHECKPOINTED"
  <2>1. Kept!Checkpoint
    BY <1>1, <1>3, <1>5, <1>6, <1>7 DEF Kept!Checkpoint, CoveredSeqs
  <2> QED BY <2>1 DEF Kept!Next
<1>8. CASE ev # "CHECKPOINTED"
  <2>1. Kept!LogEvent
    BY <1>3, <1>5, <1>6, <1>8 DEF Kept!LogEvent, CoveredSeqs
  <2> QED BY <2>1 DEF Kept!Next
<1> QED BY <1>7, <1>8

LEMMA RotationIsKept ==
  ASSUME TypeOK, SubjectInv, RotationAppend
  PROVE  Kept!Next
<1> DEFINE e == NewEntry("KEY_ROTATED", Current + 1, Current + 1, "usable")
<1>1. e.event = "KEY_ROTATED" /\ e.root = Len(activation) + 1
  BY DEF NewEntry, Current
<1>2. /\ Appends(e) /\ activation' = Append(activation, Len(log) + 1) /\ delivered' = delivered
      /\ outbox' = outbox \cup {Len(log) + 1}
  BY <1>1 DEF RotationAppend, Appends, Enqueue
<1> HIDE DEF e
<1>3. Kept!Grow(Len(activation) + 1) /\ Kept!Fresh = Len(log) + 1
  BY <1>1, <1>2, AppendsGrow
<1>4. CoveredSeqs' = CoveredSeqs
  BY <1>1, <1>2, AppendCovers
<1>5. Kept!Rotate
  BY <1>2, <1>3, <1>4 DEF Kept!Rotate, CoveredSeqs
<1> QED BY <1>5 DEF Kept!Next

(* A row that another runner has delivered already is delivered once more  *)
(* without effect.                                                         *)
LEMMA DeliverIsKept ==
  ASSUME TypeOK, CoverInv, NEW w \in Runners, DeliverRow(w)
  PROVE  [Kept!Next]_Kept!keptVars
<1>1. PICK q \in runner[w].rows :
        /\ runner[w].pc = "deliver" /\ IsNextRow(w, q)
        /\ outbox' = outbox \ {q} /\ delivered' = delivered \cup {q}
  BY DEF DeliverRow
<1>2. log' = log /\ activation' = activation
  BY DEF DeliverRow
<1>3. CoveredSeqs' = CoveredSeqs
  BY <1>2 DEF CoveredSeqs, Covered, Checkpoints, TipOf
<1>4. q \in outbox \cup delivered /\ outbox \cap delivered = {} /\ q \in DOMAIN log
  BY <1>1 DEF TypeOK
<1>5. q \in CoveredSeqs
  BY <1>1, <1>4 DEF CoverInv, RunnerInv, CoveredSeqs
<1>6. CASE q \in outbox
  <2>1. Kept!Deliver(q)
    BY <1>1, <1>2, <1>3, <1>5, <1>6 DEF Kept!Deliver, CoveredSeqs
  <2> QED BY <1>6, <2>1 DEF Kept!Next
<1>7. CASE q \in delivered
  <2>1. outbox' = outbox /\ delivered' = delivered
    BY <1>1, <1>4, <1>7
  <2> QED BY <1>2, <1>3, <2>1 DEF Kept!keptVars, CoveredSeqs
<1> QED BY <1>4, <1>6, <1>7

(* Every step appends an entry, delivers a row, or touches neither log,    *)
(* snapshots nor outbox.                                                   *)
LEMMA StepKinds ==
  ASSUME TypeOK, [Next]_auditVars
  PROVE  \/ PlainAppend \/ RotationAppend
         \/ \E w \in Runners : DeliverRow(w)
         \/ UNCHANGED <<log, activation, outbox, delivered>>
<1>1. CASE UNCHANGED log
  <2>1. ASSUME NEW w \in Runners, RunnerStep(w) \/ RunnerCrash(w)
        PROVE  DeliverRow(w) \/ TakeCheckpoint(w)
                 \/ UNCHANGED <<log, activation, outbox, delivered>>
    BY <2>1 DEF RunnerStep, RunnerCrash, ScanOutbox, ExamineRow
  <2>2. ASSUME NEW c \in Callers,
               \/ ConsumeCheck(c) \/ ConsumeAbort(c)
               \/ ExportChoose(c) \/ ExportSnapshots(c) \/ ExportDone(c)
        PROVE  UNCHANGED <<log, activation, outbox, delivered>>
    BY <2>2 DEF ConsumeCheck, ConsumeAbort, ExportChoose, ExportSnapshots, ExportDone
  <2>3. ASSUME NEW ev, NEW sub, AppendEvent(ev, sub)
        PROVE  FALSE
    <3>1. log' = Append(log, NewEntry(ev, sub, Current, keyState[Current])) /\ log \in Seq(Entry)
      BY <2>3 DEF AppendEvent, TypeOK
    <3>2. Len(log') = Len(log) + 1 /\ Len(log) \in Nat
      BY <3>1
    <3> QED BY <1>1, <3>2
  <2>4. ASSUME RotateTrust PROVE FALSE
    <3>1. RotationAppend
      BY <2>4, RotationShape
    <3>2. Len(log') = Len(log) + 1 /\ Len(log) \in Nat
      BY <3>1, AppendsKeeps DEF RotationAppend
    <3> QED BY <1>1, <3>2
  <2>5. ASSUME NEW i \in DOMAIN keyState, KeyAges(i)
        PROVE  UNCHANGED <<log, activation, outbox, delivered>>
    BY <2>5 DEF KeyAges
  <2> QED BY <2>1, <2>2, <2>3, <2>4, <2>5 DEF Next, auditVars, Record, ConsumeCommit,
            ManualCheckpoint, TakeCheckpoint, AppendCheckpoint
<1>2. CASE ~UNCHANGED log
  BY <1>2, AppendShape DEF Shape, NoAppend
<1> QED BY <1>1, <1>2

(* The log, the trust snapshots, the checkpoints and the outbox of         *)
(* _append_event, rotate_trust, create_checkpoint and run_outbox implement *)
(* KeptLog, with any number of runners that overlap and die.               *)
THEOREM ImplementsKeptLogCorrect == Spec => ImplementsKeptLog
<1> DEFINE KInv == CoverInv /\ SubjectInv
<1>1. Init => KInv /\ Kept!Init
  <2> SUFFICES ASSUME Init PROVE KInv /\ Kept!Init
    OBVIOUS
  <2>1. log = <<>> /\ DOMAIN log = {} /\ Checkpoints = {}
    BY DEF Init, Checkpoints
  <2>2. CoverInv /\ SubjectInv
    BY <2>1 DEF Init, CoverInv, DeliveredCovered, RunnerInv, NoRows, SubjectInv
  <2>3. Kept!Init
    BY <2>1 DEF Init, Kept!Init
  <2> QED BY <2>2, <2>3
<1>2. TypeOK /\ KInv /\ [Next]_auditVars => KInv'
  BY RunnerInvStep, DeliveredStep, SubjectStep DEF CoverInv
<1>3. TypeOK /\ KInv /\ [Next]_auditVars => [Kept!Next]_Kept!keptVars
  <2> SUFFICES ASSUME TypeOK, KInv, [Next]_auditVars PROVE [Kept!Next]_Kept!keptVars
    OBVIOUS
  <2>1. ASSUME UNCHANGED <<log, activation, outbox, delivered>>
        PROVE  UNCHANGED Kept!keptVars
    <3>1. CoveredSeqs' = CoveredSeqs
      BY <2>1 DEF CoveredSeqs, Covered, Checkpoints, TipOf
    <3> QED BY <2>1, <3>1 DEF Kept!keptVars, CoveredSeqs
  <2> QED BY <2>1, StepKinds, PlainIsKept, RotationIsKept, DeliverIsKept
<1> QED BY <1>1, <1>2, <1>3, AuditTypeCorrect, PTL DEF Spec, ImplementsKeptLog, Kept!Spec
=============================================================================
