------------------------------- MODULE Backup -------------------------------
(***************************************************************************)
(* backup_create (service.py) and restore_backup (store.py).  A backup     *)
(* copies first the journal and then, directory by directory, the files of *)
(* the CAS, while the project goes on; a restore copies both back, checks  *)
(* that every blob of the journal has its file, and compares the end of    *)
(* the log with the tip an operator pinned.                                *)
(*                                                                         *)
(* A log is the sequence of its entries.  Entries link by hash, so a tip   *)
(* (seq and entry_hash) is the log it ends; two tips are equal exactly if  *)
(* the logs are.  A file that is damaged is as good as missing.            *)
(***************************************************************************)
EXTENDS Integers, Sequences, SequencesExt

CONSTANTS
  Digests,     \* blobs
  Dirs,        \* directories of cas/sha256
  DirOf,       \* [Digests -> Dirs]: named by the first two digits
  MaxEntries   \* bound: audit entries ever made

ASSUME BackupAssumption ==
  /\ DirOf \in [Digests -> Dirs]
  /\ MaxEntries \in Nat

VARIABLES
  project,  \* the project in service: log, rows of table blobs, CAS, marker
  made,     \* audit entries made so far, on any line of history
  backup,   \* the newest backup directory
  dest,     \* the project root that is being restored
  pin       \* the tip the operator last noted; <<>> is none

backupVars == <<project, made, backup, dest, pin>>
-----------------------------------------------------------------------------
Entries == 1..MaxEntries

NewRoot == [log |-> <<>>, rows |-> {}, files |-> {}, stale |-> FALSE]

NoBackup == [stage |-> "none", log |-> <<>>, rows |-> {}, files |-> {}, todo |-> {},
             tip |-> <<>>, damaged |-> FALSE]

NoDest == [stage |-> "none", pin |-> <<>>,
           log |-> <<>>, rows |-> {}, files |-> {}, stale |-> FALSE]

Init ==
  /\ project = NewRoot
  /\ made = 0
  /\ backup = NoBackup
  /\ dest = NoDest
  /\ pin = <<>>
-----------------------------------------------------------------------------
(* The project in service *)

(* cas_write *)
WriteFile(d) ==
  /\ project' = [project EXCEPT !.files = @ \cup {d}]
  /\ UNCHANGED <<made, backup, dest, pin>>

(* A transaction that commits rows for files that were written. *)
CommitRows(rows) ==
  /\ rows \subseteq project.files
  /\ project' = [project EXCEPT !.rows = @ \cup rows]
  /\ UNCHANGED <<made, backup, dest, pin>>

(* A transaction with an audit event, and the rows of its objects. *)
AppendEntry(rows) ==
  /\ made < MaxEntries
  /\ rows \subseteq project.files
  /\ made' = made + 1
  /\ project' = [project EXCEPT !.log = Append(@, made + 1), !.rows = @ \cup rows]
  /\ UNCHANGED <<backup, dest, pin>>

(* The operator writes down the tip of a checkpoint. *)
NotePin ==
  /\ pin' = project.log
  /\ UNCHANGED <<project, made, backup, dest>>
-----------------------------------------------------------------------------
(* backup_create *)

Restoring == dest.stage \in {"journal", "files"}

(* A new directory; SQLite's backup copies what is committed, and copytree *)
(* lists cas/sha256 a little later: directories may have been made since.  *)
StartBackup(dirs) ==
  /\ backup.stage # "copying" /\ ~Restoring
  /\ \A d \in project.files : DirOf[d] \in dirs
  /\ backup' = [NoBackup EXCEPT !.stage = "copying", !.todo = dirs,
                                !.log = project.log, !.rows = project.rows]
  /\ UNCHANGED <<project, made, dest, pin>>

CopyDir(dir) ==
  /\ backup.stage = "copying" /\ dir \in backup.todo
  /\ backup' = [backup EXCEPT !.todo = @ \ {dir},
                              !.files = @ \cup {d \in project.files : DirOf[d] = dir}]
  /\ UNCHANGED <<project, made, dest, pin>>

(* Mutant: the journal is copied after the files. *)
FinishWithJournal ==
  /\ backup.stage = "copying" /\ backup.todo = {}
  /\ backup' = [backup EXCEPT !.stage = "done", !.tip = project.log,
                              !.log = project.log, !.rows = project.rows]
  /\ UNCHANGED <<project, made, dest, pin>>

(* audit_tip, of the project as it is now, goes into tip.json. *)
FinishBackup ==
  /\ backup.stage = "copying" /\ backup.todo = {}
  /\ backup' = [backup EXCEPT !.stage = "done", !.tip = project.log]
  /\ UNCHANGED <<project, made, dest, pin>>

(* An error (no trust snapshot, a full disk) or the end of the process. *)
AbortBackup ==
  /\ backup.stage = "copying"
  /\ backup' = [backup EXCEPT !.stage = "aborted"]
  /\ UNCHANGED <<project, made, dest, pin>>

(* The medium loses a file. *)
Damage(d) ==
  /\ d \in backup.files
  /\ backup' = [backup EXCEPT !.files = @ \ {d}, !.damaged = TRUE]
  /\ UNCHANGED <<project, made, dest, pin>>
-----------------------------------------------------------------------------
(* restore_backup.  It looks for the journal and not for tip.json.  A root *)
(* in which a restore failed can be restored into again.                   *)

(* The audit chain is verified and the journal copied. *)
CopyJournal(known) ==
  /\ backup.stage # "none"
  /\ dest.stage \in {"none", "failed"}
  /\ dest' = [dest EXCEPT !.stage = "journal", !.pin = known,
                          !.log = backup.log, !.rows = backup.rows]
  /\ UNCHANGED <<project, made, backup, pin>>

CopyFiles ==
  /\ dest.stage = "journal"
  /\ dest' = [dest EXCEPT !.stage = "files", !.files = @ \cup backup.files]
  /\ UNCHANGED <<project, made, backup, pin>>

(* Mutant: only the sequence numbers are compared. *)
IsLonger(known, log) == Len(known) > Len(log)

(* pinned_tip.seq > tip_seq or pinned_tip.entry_hash # tip_hash *)
NotCovered(known, log) == Len(known) > Len(log) \/ known # log

(* A blob without its file is ARTIFACT_CORRUPT. *)
BlobMissing ==
  /\ dest.stage = "files"
  /\ ~(dest.rows \subseteq dest.files)
  /\ dest' = [dest EXCEPT !.stage = "failed"]
  /\ UNCHANGED <<project, made, backup, pin>>

(* Mutant: the blobs are not checked. *)
FinishUnchecked ==
  LET isStale == dest.pin # <<>> /\ NotCovered(dest.pin, dest.log) IN
  /\ dest.stage = "files"
  /\ dest' = [dest EXCEPT !.stage = "done", !.stale = @ \/ isStale]
  /\ UNCHANGED <<project, made, backup, pin>>

(* The marker STALE-RESTORE is written last, and nothing removes it. *)
FinishRestore ==
  LET isStale == dest.pin # <<>> /\ NotCovered(dest.pin, dest.log) IN
  /\ dest.stage = "files"
  /\ dest.rows \subseteq dest.files
  /\ dest' = [dest EXCEPT !.stage = "done", !.stale = @ \/ isStale]
  /\ UNCHANGED <<project, made, backup, pin>>

AbortRestore ==
  /\ Restoring
  /\ dest' = [dest EXCEPT !.stage = "failed"]
  /\ UNCHANGED <<project, made, backup, pin>>

(* The project in service is lost and the restored one takes its place; a  *)
(* backup that is running ends with it.                                    *)
Adopt ==
  /\ dest.stage = "done"
  /\ project' = [log |-> dest.log, rows |-> dest.rows, files |-> dest.files, stale |-> dest.stale]
  /\ dest' = NoDest
  /\ backup' = [backup EXCEPT !.stage = IF @ = "copying" THEN "aborted" ELSE @]
  /\ UNCHANGED <<made, pin>>
-----------------------------------------------------------------------------
Next ==
  \/ \E d \in Digests : WriteFile(d) \/ Damage(d)
  \/ \E rows \in {{}} \cup {{d} : d \in Digests} : CommitRows(rows) \/ AppendEntry(rows)
  \/ NotePin
  \/ \E dirs \in SUBSET Dirs : StartBackup(dirs)
  \/ FinishBackup \/ AbortBackup
  \/ \E dir \in Dirs : CopyDir(dir)
  \/ \E known \in {<<>>, pin} : CopyJournal(known)
  \/ CopyFiles \/ BlobMissing \/ FinishRestore \/ AbortRestore
  \/ Adopt

Spec == Init /\ [][Next]_backupVars
-----------------------------------------------------------------------------
(* Properties *)

Log == Seq(1..made)

(* The parts are well formed.  A backup that is under way is one of the    *)
(* project in service and has no descriptor yet.                           *)
TypeOK ==
  /\ made \in 0..MaxEntries
  /\ project \in [log : Log, rows : SUBSET Digests, files : SUBSET Digests, stale : BOOLEAN]
  /\ backup \in [stage : {"none", "copying", "done", "aborted"},
                 log : Log, rows : SUBSET Digests, files : SUBSET Digests,
                 todo : SUBSET Dirs, tip : Log, damaged : BOOLEAN]
  /\ dest \in [stage : {"none", "journal", "files", "done", "failed"},
               pin : Log, log : Log, rows : SUBSET Digests, files : SUBSET Digests,
               stale : BOOLEAN]
  /\ pin \in Log
  /\ backup.stage = "copying" =>
       IsPrefix(backup.log, project.log) /\ backup.tip = <<>>

(* A backup that ended well has a file for every row of its journal, and   *)
(* its log is part of the one its descriptor names, although the project   *)
(* went on while it was taken.                                             *)
BackupComplete ==
  backup.stage = "done" =>
    /\ ~backup.damaged => backup.rows \subseteq backup.files
    /\ IsPrefix(backup.log, backup.tip)

(* The project in service has all blobs its rows name, also when it was    *)
(* restored from a backup that was damaged, aborted or still being taken.  *)
ProjectComplete == project.rows \subseteq project.files

(* A restore that loses an entry before the tip the operator pinned, by an *)
(* old backup or one of another line of history, leaves the marker.        *)
RollbackMarked == dest.stage = "done" => IsPrefix(dest.pin, dest.log) \/ dest.stale

=============================================================================
