---------------------------- MODULE Backup_proofs ----------------------------
(* Theorems about Backup: for every set of blobs and directories and for    *)
(* every bound on the entries.                                              *)
EXTENDS Backup, SequenceTheorems, TLAPS

-----------------------------------------------------------------------------
(* The inductive invariant *)

ProjectTyped == project \in [log : Log, rows : SUBSET Digests,
                             files : SUBSET Digests, stale : BOOLEAN]

BackupTyped == backup \in [stage : {"none", "copying", "done", "aborted"},
                           log : Log, rows : SUBSET Digests, files : SUBSET Digests,
                           todo : SUBSET Dirs, tip : Log, damaged : BOOLEAN]

DestTyped == dest \in [stage : {"none", "journal", "files", "done", "failed"},
                       pin : Log, log : Log, rows : SUBSET Digests, files : SUBSET Digests,
                       stale : BOOLEAN]

Typed == made \in 0..MaxEntries /\ ProjectTyped /\ BackupTyped /\ DestTyped /\ pin \in Log

(* While a backup is under way, the project is ahead of it *)
ProjectAhead ==
  backup.stage = "copying" => IsPrefix(backup.log, project.log) /\ backup.tip = <<>>

(* The directories that are still to be copied hold the missing files: the  *)
(* journal went first, and rows are committed after their files.            *)
MissingInTodo ==
  backup.stage = "copying" =>
    /\ backup.rows \subseteq project.files
    /\ ~backup.damaged => \A d \in backup.rows : d \in backup.files \/ DirOf[d] \in backup.todo

RestoredComplete == dest.stage = "done" => dest.rows \subseteq dest.files

IInv ==
  /\ Typed
  /\ ProjectAhead
  /\ MissingInTodo
  /\ BackupComplete
  /\ ProjectComplete
  /\ RestoredComplete
  /\ RollbackMarked

-----------------------------------------------------------------------------
(* Prefixes of a log *)

LEMMA PrefixSelf ==
  ASSUME NEW S, NEW s \in Seq(S)
  PROVE  IsPrefix(s, s)
  BY DEF IsPrefix

LEMMA PrefixAppend ==
  ASSUME NEW S, NEW s \in Seq(S), NEW t \in Seq(S), NEW e \in S, IsPrefix(s, t)
  PROVE  IsPrefix(s, Append(t, e))
<1>1. /\ Len(s) \in Nat /\ Len(t) \in Nat /\ Len(Append(t, e)) = Len(t) + 1
      /\ Len(s) <= Len(t)
  BY DEF IsPrefix
<1>2. SubSeq(Append(t, e), 1, Len(s)) = SubSeq(t, 1, Len(s))
  BY <1>1
<1> QED
  BY <1>1, <1>2 DEF IsPrefix

LEMMA LogGrows ==
  ASSUME NEW k \in Nat, NEW s \in Seq(1..k)
  PROVE  s \in Seq(1..(k + 1)) /\ Append(s, k + 1) \in Seq(1..(k + 1))
<1>1. s \in Seq(1..(k + 1))
  BY SeqMonotonic
<1> QED
  BY <1>1

-----------------------------------------------------------------------------
(* Steps *)

LEMMA StepAppend ==
  ASSUME IInv, NEW rows \in SUBSET Digests, AppendEntry(rows)
  PROVE  IInv'
<1>1. /\ Typed /\ made \in Nat /\ project.log \in Seq(1..made) /\ backup.log \in Seq(1..made)
  BY BackupAssumption DEF IInv, Typed, ProjectTyped, BackupTyped, Log
<1>2. /\ made' = made + 1 /\ made' \in 0..MaxEntries
      /\ project'.log = Append(project.log, made + 1)
      /\ project'.rows = project.rows \cup rows /\ project'.files = project.files
      /\ project' = [log |-> Append(project.log, made + 1), rows |-> project.rows \cup rows,
                     files |-> project.files, stale |-> project.stale]
      /\ backup' = backup /\ dest' = dest /\ pin' = pin
      /\ rows \subseteq project.files
  <2>1. /\ made' = made + 1 /\ made < MaxEntries /\ MaxEntries \in Nat
        /\ project' = [project EXCEPT !.log = Append(@, made + 1), !.rows = @ \cup rows]
        /\ backup' = backup /\ dest' = dest /\ pin' = pin
        /\ rows \subseteq project.files
    BY BackupAssumption DEF AppendEntry
  <2>2. made' \in 0..MaxEntries
    BY <1>1, <2>1
  <2>3. project' = [log |-> Append(project.log, made + 1), rows |-> project.rows \cup rows,
                    files |-> project.files, stale |-> project.stale]
    BY <1>1, <2>1 DEF Typed, ProjectTyped
  <2> QED
    BY <2>1, <2>2, <2>3
<1>3. \A s \in Log : s \in Log'
  BY <1>1, <1>2, LogGrows DEF Log
<1>4. Typed'
  <2>1. Append(project.log, made + 1) \in Log'
    BY <1>1, <1>2, LogGrows DEF Log
  <2>2. ProjectTyped'
    BY <1>1, <1>2, <2>1 DEF Typed, ProjectTyped
  <2>3. BackupTyped'
    BY <1>1, <1>2, <1>3 DEF Typed, BackupTyped
  <2>4. DestTyped'
    BY <1>1, <1>2, <1>3 DEF Typed, DestTyped
  <2> QED
    BY <1>1, <1>2, <1>3, <2>2, <2>3, <2>4 DEF Typed
<1>5. ProjectAhead'
  <2> SUFFICES ASSUME backup.stage = "copying"
               PROVE  IsPrefix(backup.log, Append(project.log, made + 1)) /\ backup.tip = <<>>
    BY <1>2 DEF ProjectAhead
  <2>1. IsPrefix(backup.log, project.log) /\ backup.tip = <<>>
    BY DEF IInv, ProjectAhead
  <2>2. /\ backup.log \in Seq(1..(made + 1)) /\ project.log \in Seq(1..(made + 1))
        /\ made + 1 \in 1..(made + 1)
    BY <1>1, LogGrows
  <2> QED
    BY <2>1, <2>2, PrefixAppend
<1>6. MissingInTodo' /\ BackupComplete' /\ ProjectComplete' /\ RestoredComplete' /\ RollbackMarked'
  BY <1>2 DEF IInv, MissingInTodo, BackupComplete, ProjectComplete, RestoredComplete, RollbackMarked
<1> QED
  BY <1>4, <1>5, <1>6 DEF IInv

(* Writing a file or a row, and noting a pin *)
LEMMA StepProject ==
  ASSUME IInv,
         \/ \E d \in Digests : WriteFile(d)
         \/ \E rows \in SUBSET Digests : CommitRows(rows)
         \/ NotePin
  PROVE  IInv'
<1>1. /\ project'.log = project.log /\ project.files \subseteq project'.files
      /\ project'.rows \subseteq project'.files
      /\ project' \in [log : Log, rows : SUBSET Digests, files : SUBSET Digests, stale : BOOLEAN]
      /\ made' = made /\ backup' = backup /\ dest' = dest /\ pin' \in Log
  BY DEF IInv, Typed, ProjectTyped, WriteFile, CommitRows, NotePin, ProjectComplete
<1>2. Typed'
  BY <1>1 DEF IInv, Typed, ProjectTyped, BackupTyped, DestTyped, Log
<1> QED
  BY <1>1, <1>2 DEF IInv, ProjectAhead, MissingInTodo, BackupComplete, ProjectComplete,
     RestoredComplete, RollbackMarked

LEMMA StepStart ==
  ASSUME IInv, NEW dirs \in SUBSET Dirs, StartBackup(dirs)
  PROVE  IInv'
<1>1. /\ made' = made /\ project' = project /\ dest' = dest /\ pin' = pin
      /\ backup' = [stage |-> "copying", log |-> project.log, rows |-> project.rows,
                    files |-> {}, todo |-> dirs, tip |-> <<>>, damaged |-> FALSE]
      /\ \A d \in project.files : DirOf[d] \in dirs
  BY DEF StartBackup, NoBackup
<1>2. Typed'
  <2>1. BackupTyped'
    BY <1>1 DEF IInv, Typed, ProjectTyped, BackupTyped, Log
  <2> QED
    BY <1>1, <2>1 DEF IInv, Typed, ProjectTyped, DestTyped, Log
<1>3. ProjectAhead'
  BY <1>1, PrefixSelf DEF IInv, Typed, ProjectTyped, Log, ProjectAhead
<1>4. MissingInTodo'
  BY <1>1 DEF IInv, ProjectComplete, MissingInTodo
<1> QED
  BY <1>1, <1>2, <1>3, <1>4
     DEF IInv, BackupComplete, ProjectComplete, RestoredComplete, RollbackMarked

(* Copying, ending, aborting and damaging a backup *)
LEMMA StepBackup ==
  ASSUME IInv,
         \/ \E dir \in Dirs : CopyDir(dir)
         \/ FinishBackup \/ AbortBackup
         \/ \E d \in Digests : Damage(d)
  PROVE  IInv'
<1>1. made' = made /\ project' = project /\ dest' = dest /\ pin' = pin
  BY DEF CopyDir, FinishBackup, AbortBackup, Damage
<1>2. Typed'
  <2>1. BackupTyped'
    <3>1. BackupTyped /\ project.log \in Log /\ project.files \in SUBSET Digests
      BY DEF IInv, Typed, ProjectTyped
    <3>2. ASSUME NEW dir \in Dirs, CopyDir(dir) PROVE BackupTyped'
      <4>1. /\ backup.todo \ {dir} \in SUBSET Dirs
            /\ backup.files \cup {d \in project.files : DirOf[d] = dir} \in SUBSET Digests
        BY <3>1 DEF BackupTyped
      <4>2. backup' = [backup EXCEPT !.todo = backup.todo \ {dir},
                         !.files = backup.files \cup {d \in project.files : DirOf[d] = dir}]
        BY <3>2 DEF CopyDir
      <4> QED
        BY <1>1, <3>1, <4>1, <4>2 DEF BackupTyped, Log
    <3>3. CASE FinishBackup
      BY <1>1, <3>1, <3>3 DEF BackupTyped, Log, FinishBackup
    <3>4. CASE AbortBackup
      BY <1>1, <3>1, <3>4 DEF BackupTyped, Log, AbortBackup
    <3>5. CASE \E d \in Digests : Damage(d)
      BY <1>1, <3>1, <3>5 DEF BackupTyped, Log, Damage
    <3> QED
      BY <3>2, <3>3, <3>4, <3>5
  <2> QED
    BY <1>1, <2>1 DEF IInv, Typed, ProjectTyped, DestTyped, Log
<1>3. /\ backup'.log = backup.log /\ backup'.rows = backup.rows
      /\ backup'.stage = "copying" => backup.stage = "copying" /\ backup'.tip = backup.tip
  <2>1. BackupTyped
    BY DEF IInv, Typed
  <2>2. CASE \/ \E dir \in Dirs : CopyDir(dir)
             \/ \E d \in Digests : Damage(d)
    BY <2>1, <2>2 DEF CopyDir, Damage, BackupTyped
  <2>3. CASE FinishBackup \/ AbortBackup
    BY <2>1, <2>3 DEF FinishBackup, AbortBackup, BackupTyped
  <2> QED
    BY <2>2, <2>3
<1>4. ProjectAhead'
  BY <1>1, <1>3 DEF IInv, ProjectAhead
<1>5. MissingInTodo'
  <2>1. ASSUME NEW dir \in Dirs, CopyDir(dir) PROVE MissingInTodo'
    <3>1. /\ backup'.todo = backup.todo \ {dir} /\ backup'.damaged = backup.damaged
          /\ backup'.files = backup.files \cup {d \in project.files : DirOf[d] = dir}
      BY <2>1 DEF IInv, Typed, BackupTyped, CopyDir
    <3>2. backup.stage = "copying"
      BY <2>1 DEF CopyDir
    <3> QED
      BY <1>1, <1>3, <3>1, <3>2 DEF IInv, MissingInTodo
  <2>2. CASE FinishBackup \/ AbortBackup
    BY <2>2 DEF IInv, Typed, BackupTyped, FinishBackup, AbortBackup, MissingInTodo
  <2>3. CASE \E d \in Digests : Damage(d)
    BY <1>1, <2>3 DEF IInv, Typed, BackupTyped, Damage, MissingInTodo
  <2> QED
    BY <2>1, <2>2, <2>3
<1>6. BackupComplete'
  <2>1. CASE FinishBackup
    BY <2>1 DEF IInv, Typed, BackupTyped, FinishBackup, MissingInTodo, ProjectAhead, BackupComplete
  <2>2. CASE \/ \E dir \in Dirs : CopyDir(dir)
             \/ AbortBackup
    BY <2>2 DEF IInv, Typed, BackupTyped, CopyDir, AbortBackup, BackupComplete
  <2>3. CASE \E d \in Digests : Damage(d)
    BY <2>3 DEF IInv, Typed, BackupTyped, Damage, BackupComplete
  <2> QED
    BY <2>1, <2>2, <2>3
<1> QED
  BY <1>1, <1>2, <1>4, <1>5, <1>6 DEF IInv, ProjectComplete, RestoredComplete, RollbackMarked

LEMMA StepRestore ==
  ASSUME IInv,
         \/ \E known \in {<<>>, pin} : CopyJournal(known)
         \/ CopyFiles \/ BlobMissing \/ FinishRestore \/ AbortRestore
  PROVE  IInv'
<1>1. made' = made /\ project' = project /\ backup' = backup /\ pin' = pin
  BY DEF CopyJournal, CopyFiles, BlobMissing, FinishRestore, AbortRestore
<1>2. Typed'
  <2>1. DestTyped'
    <3>1. DestTyped /\ BackupTyped /\ pin \in Log /\ <<>> \in Log /\ Log' = Log
      BY <1>1 DEF IInv, Typed, Log
    <3>2. ASSUME NEW known \in {<<>>, pin}, CopyJournal(known)
          PROVE  DestTyped'
      <4>1. known \in Log /\ backup.log \in Log /\ backup.rows \in SUBSET Digests
        BY <3>1 DEF BackupTyped
      <4>2. dest' = [stage |-> "journal", pin |-> known, log |-> backup.log,
                     rows |-> backup.rows, files |-> dest.files, stale |-> dest.stale]
        BY <3>1, <3>2 DEF DestTyped, CopyJournal
      <4> QED
        BY <3>1, <4>1, <4>2 DEF DestTyped
    <3>3. CASE CopyFiles
      <4>1. backup.files \in SUBSET Digests
        BY <3>1 DEF BackupTyped
      <4>2. dest' = [dest EXCEPT !.stage = "files", !.files = dest.files \cup backup.files]
        BY <3>3 DEF CopyFiles
      <4> QED
        BY <3>1, <4>1, <4>2 DEF DestTyped
    <3>5. CASE BlobMissing \/ AbortRestore
      BY <3>1, <3>5 DEF DestTyped, BlobMissing, AbortRestore
    <3>4. CASE FinishRestore
      <4>1. (dest.stale \/ (dest.pin # <<>> /\ NotCovered(dest.pin, dest.log))) \in BOOLEAN
        BY <3>1 DEF DestTyped
      <4> QED
        BY <3>1, <3>4, <4>1 DEF DestTyped, FinishRestore
    <3> QED
      BY <3>2, <3>3, <3>4, <3>5
  <2> QED
    BY <1>1, <2>1 DEF IInv, Typed, ProjectTyped, BackupTyped, Log
<1>3. RestoredComplete'
  BY DEF IInv, Typed, DestTyped, CopyJournal, CopyFiles, BlobMissing, FinishRestore, AbortRestore,
     RestoredComplete
<1>4. RollbackMarked'
  <2>1. CASE FinishRestore
    <3>1. /\ dest'.pin = dest.pin /\ dest'.log = dest.log
          /\ dest'.stale = (dest.stale \/ (dest.pin # <<>> /\ NotCovered(dest.pin, dest.log)))
      BY <2>1 DEF IInv, Typed, DestTyped, FinishRestore
    <3>2. dest.pin \in Seq(1..made) /\ dest.log \in Seq(1..made)
      BY DEF IInv, Typed, DestTyped, Log
    <3>3. CASE dest.pin = <<>>
      BY <3>1, <3>2, <3>3 DEF IsPrefix, RollbackMarked
    <3>4. CASE dest.pin = dest.log
      BY <3>1, <3>2, <3>4, PrefixSelf DEF RollbackMarked
    <3>5. CASE dest.pin # <<>> /\ dest.pin # dest.log
      BY <3>1, <3>5 DEF NotCovered, RollbackMarked
    <3> QED
      BY <3>3, <3>4, <3>5
  <2>2. CASE \/ \E known \in {<<>>, pin} : CopyJournal(known)
             \/ CopyFiles \/ BlobMissing \/ AbortRestore
    BY <2>2 DEF IInv, Typed, DestTyped, CopyJournal, CopyFiles, BlobMissing, AbortRestore,
       RollbackMarked
  <2> QED
    BY <2>1, <2>2
<1> QED
  BY <1>1, <1>2, <1>3, <1>4 DEF IInv, ProjectAhead, MissingInTodo, BackupComplete, ProjectComplete

LEMMA StepAdopt ==
  ASSUME IInv, Adopt
  PROVE  IInv'
<1>1. /\ project' = [log |-> dest.log, rows |-> dest.rows, files |-> dest.files,
                     stale |-> dest.stale]
      /\ made' = made /\ pin' = pin /\ dest' = NoDest
      /\ dest.stage = "done"
  BY DEF Adopt
<1>2. /\ backup'.stage # "copying" /\ (backup'.stage = "done" => backup.stage = "done")
      /\ backup'.log = backup.log /\ backup'.rows = backup.rows /\ backup'.files = backup.files
      /\ backup'.tip = backup.tip /\ backup'.damaged = backup.damaged
  BY DEF IInv, Typed, BackupTyped, Adopt
<1>3. Typed'
  <2>1. ProjectTyped'
    BY <1>1 DEF IInv, Typed, DestTyped, ProjectTyped, Log
  <2>2. BackupTyped'
    BY <1>1 DEF IInv, Typed, BackupTyped, Log, Adopt
  <2>3. DestTyped'
    BY <1>1 DEF DestTyped, NoDest, Log
  <2> QED
    BY <1>1, <2>1, <2>2, <2>3 DEF IInv, Typed, Log
<1> QED
  BY <1>1, <1>2, <1>3 DEF IInv, ProjectAhead, MissingInTodo, BackupComplete, ProjectComplete,
     RestoredComplete, RollbackMarked, NoDest

-----------------------------------------------------------------------------
LEMMA IInvCorrect == Spec => []IInv
<1>1. Init => IInv
  <2> SUFFICES ASSUME Init PROVE IInv
    OBVIOUS
  <2>1. Typed
    BY BackupAssumption DEF Init, Typed, ProjectTyped, BackupTyped, DestTyped, Log, NewRoot,
       NoBackup, NoDest
  <2> QED
    BY <2>1 DEF IInv, Init, NewRoot, NoBackup, NoDest, ProjectAhead, MissingInTodo,
       BackupComplete, ProjectComplete, RestoredComplete, RollbackMarked
<1>2. IInv /\ [Next]_backupVars => IInv'
  <2> SUFFICES ASSUME IInv, [Next]_backupVars PROVE IInv'
    OBVIOUS
  <2>1. \A rows \in {{}} \cup {{d} : d \in Digests} : rows \in SUBSET Digests
    OBVIOUS
  <2>2. CASE UNCHANGED backupVars
    BY <2>2 DEF IInv, Typed, ProjectTyped, BackupTyped, DestTyped, Log, ProjectAhead,
       MissingInTodo, BackupComplete, ProjectComplete, RestoredComplete, RollbackMarked, backupVars
  <2>3. CASE Next
    BY <2>1, <2>3, StepAppend, StepProject, StepStart, StepBackup, StepRestore, StepAdopt DEF Next
  <2> QED
    BY <2>2, <2>3
<1> QED
  BY <1>1, <1>2, PTL DEF Spec

(* A backup under way is one of the project in service, and only one that   *)
(* ended has a descriptor (backup_create).                                  *)
THEOREM BackupTypeCorrect == Spec => []TypeOK
<1>1. IInv => TypeOK
  BY DEF IInv, Typed, ProjectTyped, BackupTyped, DestTyped, ProjectAhead, TypeOK
<1> QED
  BY <1>1, IInvCorrect, PTL

(* The journal goes first and rows follow their files, so what a backup     *)
(* that ended well misses was lost by the medium (backup_create).           *)
THEOREM BackupCompleteCorrect == Spec => []BackupComplete
<1>1. IInv => BackupComplete
  BY DEF IInv
<1> QED
  BY <1>1, IInvCorrect, PTL

(* No restored project has a row without its file, whatever the state of    *)
(* the backup it came from (restore_backup).                                *)
THEOREM ProjectCompleteCorrect == Spec => []ProjectComplete
<1>1. IInv => ProjectComplete
  BY DEF IInv
<1> QED
  BY <1>1, IInvCorrect, PTL

(* A restore that loses an entry the operator pinned is marked              *)
(* (restore_backup).                                                        *)
THEOREM RollbackMarkedCorrect == Spec => []RollbackMarked
<1>1. IInv => RollbackMarked
  BY DEF IInv
<1> QED
  BY <1>1, IInvCorrect, PTL
=============================================================================
