----------------------------- MODULE BlobStore -----------------------------
(***************************************************************************)
(* The content-addressed store of store.py and the rows of table blobs     *)
(* that refer to it.  cas_write is five system calls made outside the      *)
(* database; put_blob runs it before its transaction, _commit_object_blob  *)
(* inside one.  Writers are requests and workers of any process; they can  *)
(* be killed between two calls, and the machine can lose power.            *)
(*                                                                         *)
(* A digest stands for its bytes: what is written under it is right or not *)
(* there (cas_read compares the hash).  Its file lies in a prefix directory *)
(* of cas_root; cas_write syncs the prefix directory, and never cas_root.  *)
(***************************************************************************)
EXTENDS Integers, FiniteSets

CONSTANTS
  Writers,      \* requests and workers
  Digests,      \* ticket artifacts: references, candidates, corpora
  Prefix(_),    \* the prefix directory of a digest: its first two hex digits
  NoOne,        \* nobody holds SQLite's write lock
  MaxFailures   \* bound: writers killed and power failures

ASSUME BlobAssumption ==
  /\ Digests # {}
  /\ NoOne \notin Writers
  /\ MaxFailures \in Nat

VARIABLES
  file,      \* digests whose file is at its CAS path
  synced,    \* digests whose entry in the prefix directory is on disk
  dirs,      \* prefix directories that exist
  rooted,    \* those whose own entry in cas_root is on disk
  staging,   \* digests that have a file in staging/
  row,       \* [Digests -> record]: rows of table blobs
  lock,      \* the writer inside BEGIN IMMEDIATE, or NoOne
  writer,    \* [Writers -> record]
  holdouts,  \* digests registered as the holdout of a reference
  trains,    \* digests registered as the training data of a reference
  killedOn,  \* history: digests some writer was killed while writing
  unsynced,  \* history: files a writer left there without the directory fsync
  failures   \* kills and power failures so far

fsVars == <<file, synced, dirs, rooted, staging>>

histVars == <<killedOn, unsynced, failures>>

blobVars == <<fsVars, row, lock, writer, holdouts, trains, histVars>>
-----------------------------------------------------------------------------
(* The tags blob_allowed_roles tells apart.  The tag that a PUT itself adds *)
(* is never read and left out.                                             *)
Tags == {"reference", "corpus", "candidate"}
PutTags == {}

NoRow == [committed |-> FALSE, uploader |-> "none", tags |-> {}]

(* A PUT by a producer, a PUT by anyone else, an object of a transaction. *)
Kinds == {"producer", "staff", "object"}

AtRest == [pc |-> "idle", digest |-> CHOOSE d \in Digests : TRUE, as |-> "staff"]

(* A project that may hold other digests already, under any prefixes. *)
Init ==
  /\ file = {} /\ synced = {} /\ staging = {}
  /\ dirs \in SUBSET {Prefix(d) : d \in Digests}
  /\ rooted = dirs
  /\ row      = [d \in Digests |-> NoRow]
  /\ lock     = NoOne
  /\ writer   = [w \in Writers |-> AtRest]
  /\ holdouts = {} /\ trains = {}
  /\ killedOn = {} /\ unsynced = {}
  /\ failures = [kills |-> 0, power |-> 0]

Goto(w, pc) == writer' = [writer EXCEPT ![w].pc = pc]

Finish(w) ==
  /\ writer' = [writer EXCEPT ![w] = AtRest]
  /\ lock' = IF lock = w THEN NoOne ELSE lock

-----------------------------------------------------------------------------
(* put_blob starts without the write lock; rpc_finish and its like hold it *)
(* while they write their objects.                                         *)
Begin(w, d, as) ==
  /\ writer[w].pc = "idle"
  /\ as = "object" => lock = NoOne
  /\ lock' = IF as = "object" THEN w ELSE lock
  /\ writer' = [writer EXCEPT ![w] = [pc |-> "exists", digest |-> d, as |-> as]]
  /\ UNCHANGED <<fsVars, row, holdouts, trains, histVars>>

(* if not path.exists(): path.parent.mkdir(exist_ok=True) *)
CheckExists(w) ==
  LET d == writer[w].digest IN
  /\ writer[w].pc = "exists"
  /\ Goto(w, IF d \in file THEN "commit" ELSE "create")
  /\ dirs' = IF d \in file THEN dirs ELSE dirs \cup {Prefix(d)}
  /\ UNCHANGED <<file, synced, rooted, staging, row, lock, holdouts, trains, histVars>>

(* os.open(staging, O_CREAT | O_EXCL) *)
CreateStaging(w) ==
  /\ writer[w].pc = "create"
  /\ writer[w].digest \notin staging
  /\ staging' = staging \cup {writer[w].digest}
  /\ Goto(w, "write")
  /\ UNCHANGED <<file, synced, dirs, rooted, row, lock, holdouts, trains, histVars>>

(* Mutant: FileExistsError is taken for a write already done. *)
StagingTakenIgnored(w) ==
  /\ writer[w].pc = "create"
  /\ writer[w].digest \in staging
  /\ Goto(w, "commit")
  /\ UNCHANGED <<fsVars, row, lock, holdouts, trains, histVars>>

(* FileExistsError: a 500 to the client, a rollback of the transaction. *)
StagingTaken(w) ==
  /\ writer[w].pc = "create"
  /\ writer[w].digest \in staging
  /\ Finish(w)
  /\ UNCHANGED <<fsVars, row, holdouts, trains, histVars>>

(* write, fsync, os.replace *)
WriteAndRename(w) ==
  /\ writer[w].pc = "write"
  /\ staging' = staging \ {writer[w].digest}
  /\ file' = file \cup {writer[w].digest}
  /\ Goto(w, "syncdir")
  /\ UNCHANGED <<synced, dirs, rooted, row, lock, holdouts, trains, histVars>>

(* Mutant: the staging file of a failed write is left behind. *)
WriteFailsNoCleanup(w) ==
  /\ writer[w].pc = "write"
  /\ Finish(w)
  /\ UNCHANGED <<fsVars, row, holdouts, trains, histVars>>

(* A full disk: the staging file is unlinked and the error passed on. *)
WriteFails(w) ==
  /\ writer[w].pc = "write"
  /\ staging' = staging \ {writer[w].digest}
  /\ Finish(w)
  /\ UNCHANGED <<file, synced, dirs, rooted, row, holdouts, trains, histVars>>

(* fsync of path.parent: every entry of that prefix directory, and not the *)
(* entry of the prefix directory itself.                                   *)
SyncDirectory(w) ==
  /\ writer[w].pc = "syncdir"
  /\ synced' = synced \cup {e \in file : Prefix(e) = Prefix(writer[w].digest)}
  /\ unsynced' = unsynced \ synced'
  /\ Goto(w, "commit")
  /\ UNCHANGED <<file, dirs, rooted, staging, row, lock, holdouts, trains, killedOn, failures>>

(* An error of that fsync: the file stays where the rename has put it. *)
SyncFails(w) ==
  /\ writer[w].pc = "syncdir"
  /\ unsynced' = unsynced \cup {writer[w].digest}
  /\ Finish(w)
  /\ UNCHANGED <<fsVars, row, holdouts, trains, killedOn, failures>>

-----------------------------------------------------------------------------
(* Rows *)

(* Mutant: a repeated upload overwrites the tags. *)
UploadedAgain(r, tags) == [r EXCEPT !.tags = tags]

(* Writing a digest that has a row adds tags to it. *)
Uploaded(r, tags) == [r EXCEPT !.tags = r.tags \cup tags]

FirstUploaded(as, tags) == [committed |-> TRUE, uploader |-> as, tags |-> tags]

(* The transaction of put_blob, in which the row is read and written. *)
CommitPut(w) ==
  LET d == writer[w].digest IN
  /\ writer[w].pc = "commit" /\ writer[w].as # "object"
  /\ lock = NoOne
  /\ row' = [row EXCEPT ![d] = IF @.committed THEN Uploaded(@, PutTags)
                               ELSE FirstUploaded(writer[w].as, PutTags)]
  /\ Finish(w)
  /\ UNCHANGED <<fsVars, holdouts, trains, histVars>>

(* COMMIT of a transaction that has stored a corpus *)
CommitObject(w) ==
  LET d == writer[w].digest IN
  /\ writer[w].pc = "commit" /\ writer[w].as = "object"
  /\ row' = [row EXCEPT ![d] = IF @.committed THEN Uploaded(@, {"corpus"})
                               ELSE FirstUploaded("staff", {"corpus"})]
  /\ Finish(w)
  /\ UNCHANGED <<fsVars, holdouts, trains, histVars>>

(* ROLLBACK after an error later in the same transaction *)
RollBack(w) ==
  /\ writer[w].pc = "commit" /\ writer[w].as = "object"
  /\ Finish(w)
  /\ UNCHANGED <<fsVars, row, holdouts, trains, histVars>>

Tagged(d, tag) == [row EXCEPT ![d].tags = @ \cup {tag}]

(* register_reference: both blobs are uploaded, then tagged *)
RegisterReference(t, h) ==
  /\ lock = NoOne
  /\ row[t].committed /\ row[h].committed /\ t # h
  /\ row' = [d \in Digests |->
               IF d \in {t, h} THEN Tagged(d, "reference")[d] ELSE row[d]]
  /\ holdouts' = holdouts \cup {h}
  /\ trains' = trains \cup {t}
  /\ UNCHANGED <<fsVars, lock, writer, histVars>>

(* create_stream makes the training data the genesis corpus. *)
CreateStream(t) ==
  /\ lock = NoOne
  /\ t \in trains
  /\ row' = Tagged(t, "corpus")
  /\ UNCHANGED <<fsVars, lock, writer, holdouts, trains, histVars>>

(* submit_job and rpc_finish tag the candidate if it is uploaded. *)
TagCandidate(d) ==
  /\ lock = NoOne
  /\ row[d].committed
  /\ row' = Tagged(d, "candidate")
  /\ UNCHANGED <<fsVars, lock, writer, holdouts, trains, histVars>>

-----------------------------------------------------------------------------
(* Failures *)

Failing == failures.kills + failures.power < MaxFailures

(* SIGKILL: no finally runs, SQLite rolls back, files stay. *)
Kill(w) ==
  /\ writer[w].pc # "idle"
  /\ Failing
  /\ failures' = [failures EXCEPT !.kills = @ + 1]
  /\ killedOn' = killedOn \cup {writer[w].digest}
  /\ unsynced' = IF writer[w].pc = "syncdir" THEN unsynced \cup {writer[w].digest} ELSE unsynced
  /\ Finish(w)
  /\ UNCHANGED <<fsVars, row, holdouts, trains>>

(* Committed rows are on disk (synchronous=FULL).  A directory entry that  *)
(* was not synced may be: a prefix directory goes with all its files.      *)
PowerLoss ==
  /\ Failing
  /\ failures' = [failures EXCEPT !.power = @ + 1]
  /\ \E gone \in SUBSET (dirs \ rooted), lost \in SUBSET (file \ synced) :
       /\ dirs' = dirs \ gone
       /\ file' = {d \in file \ lost : Prefix(d) \notin gone}
  /\ rooted' = dirs' /\ synced' = file'
  /\ \E left \in SUBSET staging :
       /\ staging' = left
       /\ killedOn' = killedOn \cup left
  /\ writer' = [w \in Writers |-> AtRest]
  /\ lock' = NoOne
  /\ unsynced' = {}
  /\ UNCHANGED <<row, holdouts, trains>>

Next ==
  \/ \E w \in Writers, d \in Digests, as \in Kinds : Begin(w, d, as)
  \/ \E w \in Writers :
       \/ CheckExists(w) \/ CreateStaging(w) \/ StagingTaken(w) \/ WriteAndRename(w)
       \/ WriteFails(w) \/ SyncDirectory(w) \/ SyncFails(w) \/ CommitPut(w)
       \/ CommitObject(w) \/ RollBack(w) \/ Kill(w)
  \/ \E t, h \in Digests : RegisterReference(t, h)
  \/ \E d \in Digests : CreateStream(d) \/ TagCandidate(d)
  \/ PowerLoss

Spec == Init /\ [][Next]_blobVars

-----------------------------------------------------------------------------
(* blob_allowed_roles, of the roles producer and consumer; admins and      *)
(* auditors may read everything.                                           *)
ReadableBy(r) ==
  IF "reference" \in r.tags
    THEN IF "corpus" \in r.tags THEN {"consumer"} ELSE {}
  ELSE IF "corpus" \in r.tags THEN {"consumer"}
  ELSE IF "candidate" \in r.tags \/ r.uploader = "producer" THEN {"producer"}
  ELSE {}

-----------------------------------------------------------------------------
(* Properties *)

Row == [committed : BOOLEAN, uploader : {"none", "producer", "staff"}, tags : SUBSET Tags]

WriterRow == [pc : {"idle", "exists", "create", "write", "syncdir", "commit"},
              digest : Digests, as : Kinds]

Writing(w) == writer[w].pc = "write"

(* Well formed; the write lock belongs to a writer of objects at work; a   *)
(* staging file has one writer at most.                                    *)
TypeOK ==
  /\ file \subseteq Digests /\ synced \subseteq Digests /\ staging \subseteq Digests
  /\ rooted \subseteq dirs
  /\ row \in [Digests -> Row]
  /\ lock \in Writers \cup {NoOne}
  /\ writer \in [Writers -> WriterRow]
  /\ holdouts \subseteq Digests /\ trains \subseteq Digests
  /\ killedOn \subseteq Digests /\ unsynced \subseteq Digests
  /\ failures \in [kills : Nat, power : Nat]
  /\ \A w \in Writers : lock = w <=> writer[w].pc # "idle" /\ writer[w].as = "object"
  /\ \A v, w \in Writers :
       Writing(v) /\ Writing(w) /\ writer[v].digest = writer[w].digest => v = w

(* Write before reference: however writers of one digest overlap, fail and *)
(* are killed, a committed row has its file, and only a power failure takes *)
(* it away (cas_write, put_blob).  It can take the entry of the file while *)
(* a writer is between its rename and its directory fsync, or after one    *)
(* failed or was killed there; and the whole prefix directory, synced or   *)
(* not, as long as cas_root has not got to the disk by itself.             *)
CommittedPresent ==
  \A d \in Digests : row[d].committed =>
    /\ d \notin file => failures.power > 0
    /\ d \in file \ synced =>
         d \in unsynced \/ \E w \in Writers : writer[w].pc = "syncdir" /\ writer[w].digest = d

(* A file in staging/ has a writer at work on it, or a writer of it was    *)
(* killed: an error on the way leaves nothing behind that would make every *)
(* later cas_write of the digest fail on O_EXCL.                           *)
StagingAccounted ==
  \A d \in staging : d \in killedOn \/ \E w \in Writers : Writing(w) /\ writer[w].digest = d

(* A holdout is never readable by producers, whoever uploads it again and  *)
(* whatever else it is used as.                                            *)
HoldoutHidden == \A h \in holdouts : "producer" \notin ReadableBy(row[h])

(* staging file -> fsync -> rename -> fsync directory, and only then may a *)
(* transaction mark the digest committed.                                  *)
CommittedSynced == \A d \in Digests : row[d].committed => d \in synced
=============================================================================
