--------------------------- MODULE BlobStore_proofs ---------------------------
(***************************************************************************)
(* What holds of the blob store for any writers, digests, kills and power  *)
(* failures: type correctness, StagingAccounted, CommittedPresent and      *)
(* HoldoutHidden.                                                          *)
(***************************************************************************)
EXTENDS BlobStore, TLAPS

LEMMA AtRestTyped == AtRest \in WriterRow /\ AtRest.pc = "idle"
  BY BlobAssumption DEF AtRest, WriterRow, Kinds

LEMMA TaggedTyped ==
  ASSUME NEW r \in Row, NEW tag \in Tags
  PROVE  [r EXCEPT !.tags = @ \cup {tag}] \in Row
  BY DEF Row

-----------------------------------------------------------------------------
(* The writers between open(O_EXCL) and rename own their staging file.     *)
WritersStaged == \A w \in Writers : Writing(w) => writer[w].digest \in staging

Staged == TypeOK /\ WritersStaged /\ StagingAccounted

(* Everything in TypeOK that the file system and the writers do not touch. *)
RowsTyped ==
  /\ row \in [Digests -> Row]
  /\ holdouts \subseteq Digests /\ trains \subseteq Digests

FilesTyped ==
  /\ file \subseteq Digests /\ synced \subseteq Digests /\ staging \subseteq Digests
  /\ rooted \subseteq dirs
  /\ killedOn \subseteq Digests /\ unsynced \subseteq Digests
  /\ failures \in [kills : Nat, power : Nat]

WritersTyped ==
  /\ lock \in Writers \cup {NoOne}
  /\ writer \in [Writers -> WriterRow]
  /\ \A w \in Writers : lock = w <=> writer[w].pc # "idle" /\ writer[w].as = "object"

WritersApart ==
  \A v, w \in Writers :
    Writing(v) /\ Writing(w) /\ writer[v].digest = writer[w].digest => v = w

LEMMA TypeParts == TypeOK <=> RowsTyped /\ FilesTyped /\ WritersTyped /\ WritersApart
  BY DEF TypeOK, RowsTyped, FilesTyped, WritersTyped, WritersApart

LEMMA InitStaged == Init => Staged
<1> SUFFICES ASSUME Init PROVE Staged
  OBVIOUS
<1>1. \A w \in Writers : writer[w] = AtRest
  BY DEF Init
<1>2. RowsTyped /\ FilesTyped
  BY DEF Init, RowsTyped, FilesTyped, NoRow, Row
<1>3. WritersTyped
  BY <1>1, AtRestTyped, BlobAssumption DEF Init, WritersTyped
<1>4. WritersApart /\ WritersStaged /\ StagingAccounted
  BY <1>1, AtRestTyped DEF Init, WritersApart, WritersStaged, StagingAccounted, Writing
<1> QED
  BY <1>2, <1>3, <1>4, TypeParts DEF Staged

-----------------------------------------------------------------------------
(* What a step may do to one writer: take the next system call, or end. *)
Moves(w, pc) ==
  /\ writer[w].pc # "idle" /\ pc # "idle"
  /\ pc \in {"exists", "create", "write", "syncdir", "commit"}
  /\ Goto(w, pc) /\ lock' = lock

LEMMA MovesTyped ==
  ASSUME TypeOK, NEW w \in Writers, NEW pc, Moves(w, pc)
  PROVE  /\ WritersTyped'
         /\ writer'[w].pc = pc /\ writer'[w].digest = writer[w].digest
         /\ \A v \in Writers \ {w} : writer'[v] = writer[v]
  BY DEF TypeOK, Moves, Goto, WritersTyped, WriterRow

LEMMA FinishTyped ==
  ASSUME TypeOK, NEW w \in Writers, Finish(w)
  PROVE  /\ WritersTyped'
         /\ writer'[w] = AtRest
         /\ \A v \in Writers \ {w} : writer'[v] = writer[v]
<1>1. writer' \in [Writers -> WriterRow] /\ writer'[w] = AtRest
      /\ \A v \in Writers \ {w} : writer'[v] = writer[v]
  BY AtRestTyped DEF TypeOK, Finish
<1>2. lock' \in Writers \cup {NoOne} /\ lock' # w
  BY BlobAssumption DEF TypeOK, Finish
<1>3. \A v \in Writers \ {w} : lock' = v <=> lock = v
  BY BlobAssumption DEF Finish
<1>4. \A v \in Writers : lock' = v <=> writer'[v].pc # "idle" /\ writer'[v].as = "object"
  BY <1>1, <1>2, <1>3, AtRestTyped DEF TypeOK
<1> QED
  BY <1>1, <1>2, <1>4 DEF WritersTyped

(* A step after which the same writers write the same digests, or one less *)
(* and its staging file is gone or the writer was killed.                  *)
LEMMA StagedKept ==
  ASSUME Staged, NEW w \in Writers,
         RowsTyped', FilesTyped', WritersTyped',
         \A v \in Writers \ {w} : writer'[v] = writer[v],
         Writing(w)' => Writing(w) /\ writer'[w].digest = writer[w].digest,
         killedOn \subseteq killedOn',
         \/ staging' = staging /\ (Writing(w) => Writing(w)' \/ writer[w].digest \in killedOn')
         \/ staging' = staging \ {writer[w].digest} /\ Writing(w) /\ ~Writing(w)'
  PROVE  Staged'
<1>1. WritersApart'
  BY DEF Staged, TypeOK, WritersApart, Writing
<1>2. WritersStaged'
  <2> SUFFICES ASSUME NEW v \in Writers, Writing(v)' PROVE writer'[v].digest \in staging'
    BY DEF WritersStaged
  <2>1. Writing(v) /\ writer'[v].digest = writer[v].digest
    BY DEF Writing
  <2> QED
    BY <2>1 DEF Staged, TypeOK, WritersStaged, Writing
<1>3. StagingAccounted'
  <2> SUFFICES ASSUME NEW d \in staging'
               PROVE  d \in killedOn' \/ \E v \in Writers : Writing(v)' /\ writer'[v].digest = d
    BY DEF StagingAccounted, Writing
  <2>1. d \in staging
    OBVIOUS
  <2>2. CASE d \in killedOn
    BY <2>2
  <2>3. CASE \E v \in Writers : Writing(v) /\ writer[v].digest = d
    <3>1. PICK v \in Writers : Writing(v) /\ writer[v].digest = d
      BY <2>3
    <3>2. CASE v # w
      BY <3>1, <3>2 DEF Writing
    <3>3. CASE v = w
      BY <3>1, <3>3
    <3> QED
      BY <3>2, <3>3
  <2> QED
    BY <2>1, <2>2, <2>3 DEF Staged, StagingAccounted
<1> QED
  BY <1>1, <1>2, <1>3
  DEF Staged, TypeOK, RowsTyped, FilesTyped, WritersTyped, WritersApart

LEMMA StepStaged == Staged /\ [Next]_blobVars => Staged'
<1> SUFFICES ASSUME Staged, [Next]_blobVars PROVE Staged'
  OBVIOUS
<1>0. TypeOK /\ WritersStaged /\ StagingAccounted
  BY DEF Staged
<1> USE <1>0
<1>1. ASSUME NEW w \in Writers, NEW d \in Digests, NEW as \in Kinds, Begin(w, d, as)
      PROVE  Staged'
  <2>1. RowsTyped' /\ FilesTyped'
    BY <1>1 DEF TypeOK, Begin, fsVars, histVars, RowsTyped, FilesTyped
  <2>2. /\ writer' \in [Writers -> WriterRow]
        /\ writer'[w] = [pc |-> "exists", digest |-> d, as |-> as]
        /\ \A v \in Writers \ {w} : writer'[v] = writer[v]
    BY <1>1 DEF TypeOK, Begin, WriterRow
  <2>3. WritersTyped'
    BY <1>1, <2>2, BlobAssumption DEF TypeOK, Begin, WritersTyped
  <2>4. ~Writing(w) /\ ~Writing(w)'
    BY <1>1, <2>2 DEF Begin, Writing
  <2> QED
    BY <1>1, <2>1, <2>2, <2>3, <2>4, StagedKept DEF Begin, fsVars, histVars
<1>2. ASSUME NEW w \in Writers, CheckExists(w) PROVE Staged'
  <2> DEFINE pc == IF writer[w].digest \in file THEN "commit" ELSE "create"
  <2>1. Moves(w, pc) /\ ~Writing(w)
    BY <1>2 DEF CheckExists, Moves, Writing
  <2>2. RowsTyped' /\ FilesTyped'
    BY <1>2 DEF TypeOK, CheckExists, histVars, RowsTyped, FilesTyped
  <2>3. pc # "write"
    OBVIOUS
  <2> HIDE DEF pc
  <2>4. ~Writing(w)'
    BY <2>1, <2>3, MovesTyped DEF Writing
  <2> QED
    BY <1>2, <2>1, <2>2, <2>4, MovesTyped, StagedKept DEF CheckExists, histVars
<1>3. ASSUME NEW w \in Writers, CreateStaging(w) PROVE Staged'
  <2>1. Moves(w, "write") /\ ~Writing(w) /\ writer[w].digest \notin staging
    BY <1>3 DEF CreateStaging, Moves, Writing
  <2>2. RowsTyped' /\ FilesTyped'
    BY <1>3 DEF TypeOK, CreateStaging, histVars, RowsTyped, FilesTyped, WriterRow
  <2>3. /\ WritersTyped' /\ Writing(w)' /\ writer'[w].digest = writer[w].digest
        /\ \A v \in Writers \ {w} : writer'[v] = writer[v]
    BY <2>1, MovesTyped DEF Writing
  <2>4. \A v \in Writers \ {w} : Writing(v)' => writer'[v].digest # writer'[w].digest
    BY <2>1, <2>3 DEF WritersStaged, Writing
  <2>5. WritersApart'
    BY <2>3, <2>4 DEF TypeOK, WritersApart, Writing
  <2>6. WritersStaged'
    BY <1>3, <2>3 DEF CreateStaging, WritersStaged, Writing
  <2>7. StagingAccounted'
    <3> SUFFICES ASSUME NEW d \in staging', d \notin killedOn'
                 PROVE  \E v \in Writers : Writing(v)' /\ writer'[v].digest = d
      BY DEF StagingAccounted, Writing
    <3>1. CASE d = writer[w].digest
      BY <3>1, <2>3
    <3>2. CASE d # writer[w].digest
      <4>1. PICK v \in Writers : Writing(v) /\ writer[v].digest = d
        BY <1>3, <3>2 DEF CreateStaging, histVars, StagingAccounted
      <4> QED
        BY <4>1, <3>2, <2>3 DEF Writing
    <3> QED
      BY <3>1, <3>2
  <2> QED
    BY <2>2, <2>3, <2>5, <2>6, <2>7
    DEF Staged, TypeOK, RowsTyped, FilesTyped, WritersTyped, WritersApart
<1>4. ASSUME NEW w \in Writers, StagingTaken(w) PROVE Staged'
  <2>1. RowsTyped' /\ FilesTyped'
    BY <1>4 DEF TypeOK, StagingTaken, fsVars, histVars, RowsTyped, FilesTyped
  <2>2. Finish(w) /\ ~Writing(w)
    BY <1>4 DEF StagingTaken, Writing
  <2>3. ~Writing(w)'
    BY <2>2, FinishTyped, AtRestTyped DEF Writing
  <2> QED
    BY <1>4, <2>1, <2>2, <2>3, FinishTyped, StagedKept DEF StagingTaken, fsVars, histVars
<1>5. ASSUME NEW w \in Writers, WriteAndRename(w) PROVE Staged'
  <2>1. Moves(w, "syncdir") /\ Writing(w)
    BY <1>5 DEF WriteAndRename, Moves, Writing
  <2>2. RowsTyped' /\ FilesTyped'
    BY <1>5 DEF TypeOK, WriteAndRename, histVars, RowsTyped, FilesTyped, WriterRow
  <2>3. ~Writing(w)'
    BY <2>1, MovesTyped DEF Writing
  <2> QED
    BY <1>5, <2>1, <2>2, <2>3, MovesTyped, StagedKept DEF WriteAndRename, histVars
<1>6. ASSUME NEW w \in Writers, WriteFails(w) PROVE Staged'
  <2>1. RowsTyped' /\ FilesTyped'
    BY <1>6 DEF TypeOK, WriteFails, histVars, RowsTyped, FilesTyped
  <2>2. Finish(w) /\ Writing(w)
    BY <1>6 DEF WriteFails, Writing
  <2>3. ~Writing(w)'
    BY <2>2, FinishTyped, AtRestTyped DEF Writing
  <2> QED
    BY <1>6, <2>1, <2>2, <2>3, FinishTyped, StagedKept DEF WriteFails, histVars
<1>7. ASSUME NEW w \in Writers, SyncDirectory(w) PROVE Staged'
  <2>1. Moves(w, "commit") /\ ~Writing(w)
    BY <1>7 DEF SyncDirectory, Moves, Writing
  <2>2. RowsTyped' /\ FilesTyped'
    BY <1>7 DEF TypeOK, SyncDirectory, RowsTyped, FilesTyped, WriterRow
  <2>3. ~Writing(w)'
    BY <2>1, MovesTyped DEF Writing
  <2> QED
    BY <1>7, <2>1, <2>2, <2>3, MovesTyped, StagedKept DEF SyncDirectory
<1>14. ASSUME NEW w \in Writers, SyncFails(w) PROVE Staged'
  <2>1. RowsTyped' /\ FilesTyped'
    BY <1>14 DEF TypeOK, SyncFails, fsVars, RowsTyped, FilesTyped, WriterRow
  <2>2. Finish(w) /\ ~Writing(w) /\ staging' = staging /\ killedOn' = killedOn
    BY <1>14 DEF SyncFails, fsVars, Writing
  <2>3. ~Writing(w)'
    BY <2>2, FinishTyped, AtRestTyped DEF Writing
  <2> QED
    BY <2>1, <2>2, <2>3, FinishTyped, StagedKept
<1>8. ASSUME NEW w \in Writers, CommitPut(w) \/ CommitObject(w) \/ RollBack(w) PROVE Staged'
  <2>1. FilesTyped' /\ killedOn' = killedOn /\ staging' = staging
    BY <1>8 DEF TypeOK, CommitPut, CommitObject, RollBack, fsVars, histVars, FilesTyped
  <2>2. /\ writer[w].digest \in Digests /\ writer[w].as \in Kinds
        /\ row[writer[w].digest] \in Row
    BY DEF TypeOK, WriterRow
  <2>3. row' \in [Digests -> Row]
    <3>1. CASE CommitPut(w)
      BY <2>2, <3>1
      DEF TypeOK, CommitPut, Uploaded, FirstUploaded, PutTags, Row, Tags, Kinds
    <3>2. CASE CommitObject(w)
      BY <2>2, <3>2
      DEF TypeOK, CommitObject, Uploaded, FirstUploaded, Row, Tags
    <3> QED
      BY <1>8, <3>1, <3>2 DEF TypeOK, RollBack
  <2>4. RowsTyped'
    BY <1>8, <2>3 DEF TypeOK, CommitPut, CommitObject, RollBack, RowsTyped
  <2>5. Finish(w) /\ ~Writing(w)
    BY <1>8 DEF CommitPut, CommitObject, RollBack, Writing
  <2>6. ~Writing(w)'
    BY <2>5, FinishTyped, AtRestTyped DEF Writing
  <2> QED
    BY <2>1, <2>4, <2>5, <2>6, FinishTyped, StagedKept
<1>9. ASSUME NEW w \in Writers, Kill(w) PROVE Staged'
  <2>1. RowsTyped' /\ FilesTyped'
    BY <1>9 DEF TypeOK, Kill, fsVars, RowsTyped, FilesTyped, WriterRow
  <2>2. Finish(w) /\ killedOn' = killedOn \cup {writer[w].digest} /\ staging' = staging
    BY <1>9 DEF Kill, fsVars
  <2>3. ~Writing(w)'
    BY <2>2, FinishTyped, AtRestTyped DEF Writing
  <2> QED
    BY <2>1, <2>2, <2>3, FinishTyped, StagedKept
<1>10. ASSUME NEW t \in Digests, NEW h \in Digests, RegisterReference(t, h) PROVE Staged'
  <2>1. row' \in [Digests -> Row]
    BY <1>10 DEF TypeOK, RegisterReference, Tagged, Row, Tags
  <2> QED
    BY <1>10, <2>1
    DEF RegisterReference, fsVars, histVars, Staged, TypeOK, WritersStaged, StagingAccounted, Writing
<1>11. ASSUME NEW d \in Digests, CreateStream(d) \/ TagCandidate(d) PROVE Staged'
  <2>1. row' \in [Digests -> Row]
    BY <1>11 DEF TypeOK, CreateStream, TagCandidate, Tagged, Row, Tags
  <2> QED
    BY <1>11, <2>1
    DEF CreateStream, TagCandidate, fsVars, histVars, Staged, TypeOK, WritersStaged, StagingAccounted, Writing
<1>12. ASSUME PowerLoss PROVE Staged'
  <2>1. \A w \in Writers : writer'[w] = AtRest
    BY <1>12 DEF PowerLoss
  <2>2. RowsTyped' /\ FilesTyped'
    BY <1>12 DEF TypeOK, PowerLoss, RowsTyped, FilesTyped
  <2>3. writer' \in [Writers -> WriterRow] /\ lock' = NoOne
    BY <1>12, AtRestTyped DEF PowerLoss
  <2>4. WritersTyped'
    BY <2>1, <2>3, AtRestTyped, BlobAssumption DEF WritersTyped
  <2>5. WritersApart' /\ WritersStaged'
    BY <2>1, AtRestTyped DEF WritersApart, WritersStaged, Writing
  <2>6. StagingAccounted'
    BY <1>12 DEF PowerLoss, StagingAccounted
  <2> QED
    BY <2>2, <2>4, <2>5, <2>6
    DEF Staged, TypeOK, RowsTyped, FilesTyped, WritersTyped, WritersApart
<1>13. ASSUME UNCHANGED blobVars PROVE Staged'
  BY <1>13 DEF blobVars, fsVars, histVars, Staged, TypeOK, WritersStaged, StagingAccounted, Writing
<1> QED
  BY <1>1, <1>2, <1>3, <1>4, <1>5, <1>6, <1>7, <1>8, <1>9, <1>10, <1>11, <1>12, <1>13, <1>14 DEF Next

(* Every state is well formed: the write lock belongs to a writer of       *)
(* objects at work, and open(O_EXCL) leaves a staging file one writer      *)
(* (Store.tx, cas_write).                                                  *)
THEOREM BlobTypeCorrect == Spec => []TypeOK
<1>1. Staged => TypeOK
  BY DEF Staged
<1> QED
  BY <1>1, InitStaged, StepStaged, PTL DEF Spec

(* A staging file is being written or its writer was killed: no error path *)
(* of cas_write leaves one behind to fail every later write of the digest. *)
THEOREM StagingAccountedCorrect == Spec => []StagingAccounted
<1>1. Staged => StagingAccounted
  BY DEF Staged
<1> QED
  BY <1>1, InitStaged, StepStaged, PTL DEF Spec

-----------------------------------------------------------------------------
(* A writer that goes on to its directory fsync or its row has seen the    *)
(* file at its path, and without a power failure no file ever leaves.      *)
WriterSawFile ==
  \A w \in Writers : writer[w].pc \in {"syncdir", "commit"} => writer[w].digest \in file

RowsPresent == \A d \in Digests : row[d].committed => d \in file

Syncing(d) == \E w \in Writers : writer[w].pc = "syncdir" /\ writer[w].digest = d

(* A file is synced, about to be, or was left unsynced. *)
SyncAccounted == \A d \in file \ synced : d \in unsynced \/ Syncing(d)

Present ==
  /\ TypeOK /\ WriterSawFile /\ SyncAccounted
  /\ failures.power = 0 => RowsPresent

LEMMA InitPresent == Init => Present
  BY InitStaged, AtRestTyped
  DEF Init, Staged, Present, WriterSawFile, SyncAccounted, RowsPresent, NoRow, AtRest

(* Every step but a power failure. *)
LEMMA StepPowered ==
  ASSUME Present, TypeOK', [Next]_blobVars, ~PowerLoss
  PROVE  Present'
<1>0. TypeOK /\ WriterSawFile
  BY DEF Present
<1>1. ~PowerLoss
  OBVIOUS
<1>2. file \subseteq file'
  BY <1>1 DEF Next, blobVars, fsVars, Begin, CheckExists, CreateStaging, StagingTaken,
       WriteAndRename, WriteFails, SyncDirectory, SyncFails, CommitPut, CommitObject, RollBack,
       Kill, RegisterReference, CreateStream, TagCandidate
<1>3. WriterSawFile'
  <2> SUFFICES ASSUME NEW v \in Writers, writer'[v].pc \in {"syncdir", "commit"}
               PROVE  writer'[v].digest \in file'
    BY DEF WriterSawFile
  <2>1. CASE writer'[v] = writer[v]
    BY <1>0, <1>2, <2>1 DEF WriterSawFile
  <2>2. ASSUME NEW w \in Writers, NEW d \in Digests, NEW as \in Kinds, Begin(w, d, as)
        PROVE  writer'[v] = writer[v]
    BY <1>0, <2>2 DEF Begin, TypeOK
  <2>3. ASSUME NEW w \in Writers, Finish(w) PROVE writer'[v] = writer[v]
    BY <1>0, <2>3, AtRestTyped DEF Finish, TypeOK
  <2>4. ASSUME NEW w \in Writers, CheckExists(w) PROVE writer'[v].digest \in file'
    BY <1>0, <2>4, <2>1 DEF CheckExists, Goto, TypeOK, WriterRow
  <2>5. ASSUME NEW w \in Writers, CreateStaging(w) PROVE writer'[v] = writer[v]
    BY <1>0, <2>5 DEF CreateStaging, Goto, TypeOK, WriterRow
  <2>6. ASSUME NEW w \in Writers, WriteAndRename(w) PROVE writer'[v].digest \in file'
    BY <1>0, <2>6, <2>1 DEF WriteAndRename, Goto, TypeOK, WriterRow
  <2>7. ASSUME NEW w \in Writers, SyncDirectory(w) PROVE writer'[v].digest \in file'
    BY <1>0, <2>7, <2>1 DEF SyncDirectory, Goto, TypeOK, WriterRow, WriterSawFile
  <2> QED
    BY <1>1, <2>1, <2>2, <2>3, <2>4, <2>5, <2>6, <2>7
    DEF Next, blobVars, StagingTaken, WriteFails, SyncFails, CommitPut, CommitObject, RollBack, Kill,
        RegisterReference, CreateStream, TagCandidate
<1>4. ASSUME RowsPresent PROVE RowsPresent'
  <2> SUFFICES ASSUME NEW d \in Digests, row'[d].committed PROVE d \in file'
    BY DEF RowsPresent
  <2>1. CASE row[d].committed
    BY <1>2, <1>4, <2>1 DEF RowsPresent
  <2>2. ASSUME NEW w \in Writers, CommitPut(w) \/ CommitObject(w), ~row[d].committed
        PROVE  d \in file
    <3>1. writer[w].digest \in file
      BY <1>0, <2>2 DEF WriterSawFile, CommitPut, CommitObject
    <3>2. d = writer[w].digest
      BY <1>0, <2>2 DEF TypeOK, CommitPut, CommitObject
    <3> QED
      BY <3>1, <3>2
  <2>3. ASSUME NEW t \in Digests, NEW h \in Digests, RegisterReference(t, h)
        PROVE  row[d].committed
    BY <1>0, <2>3 DEF RegisterReference, Tagged, TypeOK, Row
  <2>4. ASSUME NEW t \in Digests, CreateStream(t) \/ TagCandidate(t)
        PROVE  row[d].committed
    BY <1>0, <2>4 DEF CreateStream, TagCandidate, Tagged, TypeOK, Row
  <2> QED
    BY <1>1, <1>2, <2>1, <2>2, <2>3, <2>4
    DEF Next, blobVars, Begin, CheckExists, CreateStaging, StagingTaken, WriteAndRename,
        WriteFails, SyncDirectory, SyncFails, RollBack, Kill
<1>5. SyncAccounted'
  <2>1. SyncAccounted
    BY DEF Present
  <2>2. ASSUME NEW w \in Writers, WriteAndRename(w) PROVE SyncAccounted'
    <3>1. /\ file' = file \cup {writer[w].digest} /\ synced' = synced /\ unsynced' = unsynced
          /\ writer'[w].pc = "syncdir" /\ writer'[w].digest = writer[w].digest
          /\ \A v \in Writers \ {w} : writer'[v] = writer[v]
          /\ writer[w].pc = "write"
      BY <1>0, <2>2 DEF WriteAndRename, histVars, Goto, TypeOK, WriterRow
    <3> QED
      BY <2>1, <3>1 DEF SyncAccounted, Syncing
  <2>3. ASSUME NEW w \in Writers, SyncDirectory(w) PROVE SyncAccounted'
    <3>1. /\ file' = file /\ synced \cup {writer[w].digest} \subseteq synced'
          /\ unsynced \ synced' \subseteq unsynced'
          /\ \A v \in Writers \ {w} : writer'[v] = writer[v]
      BY <1>0, <2>3 DEF SyncDirectory, Goto, TypeOK, WriterSawFile
    <3> QED
      BY <2>1, <3>1 DEF SyncAccounted, Syncing
  <2>4. ASSUME NEW w \in Writers, Finish(w), file' = file, synced' = synced,
               unsynced \subseteq unsynced',
               writer[w].pc = "syncdir" => writer[w].digest \in unsynced'
        PROVE  SyncAccounted'
    <3>1. \A v \in Writers \ {w} : writer'[v] = writer[v]
      BY <1>0, <2>4 DEF Finish, TypeOK
    <3> QED
      BY <2>1, <2>4, <3>1 DEF SyncAccounted, Syncing
  <2>5. ASSUME NEW w \in Writers, NEW pc, Goto(w, pc), writer[w].pc # "syncdir",
               file' = file, synced' = synced, unsynced' = unsynced
        PROVE  SyncAccounted'
    <3>1. \A v \in Writers \ {w} : writer'[v] = writer[v]
      BY <1>0, <2>5 DEF Goto, TypeOK
    <3> QED
      BY <2>1, <2>5, <3>1 DEF SyncAccounted, Syncing
  <2>6. ASSUME NEW w \in Writers, NEW d \in Digests, NEW as \in Kinds, Begin(w, d, as)
        PROVE  SyncAccounted'
    <3>1. writer[w].pc # "syncdir" /\ \A v \in Writers \ {w} : writer'[v] = writer[v]
      BY <1>0, <2>6 DEF Begin, TypeOK
    <3> QED
      BY <2>1, <2>6, <3>1 DEF Begin, fsVars, histVars, SyncAccounted, Syncing
  <2>7. CASE UNCHANGED <<writer, file, synced, unsynced>>
    BY <2>1, <2>7 DEF SyncAccounted, Syncing
  <2>8. ASSUME NEW w \in Writers, CheckExists(w) \/ CreateStaging(w) PROVE SyncAccounted'
    <3>1. PICK pc : Goto(w, pc)
      BY <2>8 DEF CheckExists, CreateStaging
    <3> QED
      BY <2>5, <2>8, <3>1 DEF CheckExists, CreateStaging, histVars
  <2>9. ASSUME NEW w \in Writers,
               \/ StagingTaken(w) \/ WriteFails(w) \/ SyncFails(w) \/ Kill(w)
               \/ CommitPut(w) \/ CommitObject(w) \/ RollBack(w)
        PROVE  SyncAccounted'
    <3>1. Finish(w) /\ file' = file /\ synced' = synced
      BY <2>9 DEF StagingTaken, WriteFails, SyncFails, Kill, CommitPut, CommitObject, RollBack,
           fsVars
    <3>2. unsynced \subseteq unsynced' /\ (writer[w].pc = "syncdir" => writer[w].digest \in unsynced')
      BY <2>9 DEF StagingTaken, WriteFails, SyncFails, Kill, CommitPut, CommitObject, RollBack,
           histVars
    <3> QED
      BY <2>4, <3>1, <3>2
  <2>10. ASSUME NEW t \in Digests, NEW h \in Digests,
                RegisterReference(t, h) \/ CreateStream(t) \/ TagCandidate(t)
         PROVE  SyncAccounted'
    BY <2>7, <2>10 DEF RegisterReference, CreateStream, TagCandidate, fsVars, histVars
  <2> QED
    BY <1>1, <2>2, <2>3, <2>6, <2>7, <2>8, <2>9, <2>10 DEF Next, blobVars, fsVars, histVars
<1>6. failures'.power = failures.power
  <2>1. ASSUME NEW w \in Writers, Kill(w) PROVE failures'.power = failures.power
    BY <1>0, <2>1 DEF Kill, TypeOK
  <2> QED
    BY <1>1, <2>1
    DEF Next, blobVars, histVars, Begin, CheckExists, CreateStaging, StagingTaken, WriteAndRename,
        WriteFails, SyncDirectory, SyncFails, CommitPut, CommitObject, RollBack, RegisterReference,
        CreateStream, TagCandidate
<1> QED
  BY <1>3, <1>4, <1>5, <1>6 DEF Present

(* A power failure sends every writer away; what is left is on disk. *)
LEMMA PowerLossPresent ==
  ASSUME Present, TypeOK', PowerLoss
  PROVE  Present'
<1>1. WriterSawFile'
  BY AtRestTyped DEF PowerLoss, WriterSawFile
<1>2. SyncAccounted'
  BY DEF PowerLoss, SyncAccounted
<1>3. failures'.power # 0
  BY DEF PowerLoss, Present, TypeOK
<1> QED
  BY <1>1, <1>2, <1>3 DEF Present

(* Write before reference: a committed row has its file, however many      *)
(* writers of one digest overlap, fail and are killed, until the power     *)
(* fails; and its entry is in a directory that was synced, is about to be, *)
(* or was left by a writer that failed or was killed before it got there.  *)
THEOREM CommittedPresentCorrect == Spec => []CommittedPresent
<1>1. Present /\ TypeOK' /\ [Next]_blobVars => Present'
  BY StepPowered, PowerLossPresent
<1>2. Present => CommittedPresent
  BY DEF Present, RowsPresent, SyncAccounted, Syncing, CommittedPresent, TypeOK
<1> QED
  BY <1>1, <1>2, InitPresent, BlobTypeCorrect, PTL DEF Spec

-----------------------------------------------------------------------------
(* Tags are only ever added, and a holdout has been tagged a reference. *)
HoldoutTagged(h) == row[h].committed /\ "reference" \in row[h].tags

HoldoutsTagged == TypeOK /\ \A h \in holdouts : HoldoutTagged(h)

(* A step on rows keeps what is committed and every tag. *)
RowsGrow ==
  \A d \in Digests : HoldoutTagged(d) => HoldoutTagged(d)'

LEMMA StepTagged ==
  ASSUME HoldoutsTagged, TypeOK', [Next]_blobVars
  PROVE  HoldoutsTagged'
<1>0. TypeOK /\ \A h \in holdouts : HoldoutTagged(h)
  BY DEF HoldoutsTagged
<1>1. ASSUME NEW w \in Writers, CommitPut(w) PROVE RowsGrow
  BY <1>0, <1>1 DEF CommitPut, Uploaded, TypeOK, Row, RowsGrow, HoldoutTagged
<1>2. ASSUME NEW w \in Writers, CommitObject(w) PROVE RowsGrow
  BY <1>0, <1>2 DEF CommitObject, Uploaded, TypeOK, Row, RowsGrow, HoldoutTagged
<1>3. ASSUME NEW t \in Digests, NEW h \in Digests, RegisterReference(t, h)
      PROVE  RowsGrow /\ HoldoutTagged(h)' /\ holdouts' = holdouts \cup {h}
  BY <1>0, <1>3 DEF RegisterReference, Tagged, TypeOK, Row, RowsGrow, HoldoutTagged
<1>4. ASSUME NEW d \in Digests, CreateStream(d) \/ TagCandidate(d) PROVE RowsGrow
  BY <1>0, <1>4 DEF CreateStream, TagCandidate, Tagged, TypeOK, Row, RowsGrow, HoldoutTagged
<1>5. CASE row' = row /\ holdouts' = holdouts
  BY <1>0, <1>5 DEF HoldoutsTagged, HoldoutTagged
<1>6. ASSUME RowsGrow, holdouts' = holdouts PROVE HoldoutsTagged'
  BY <1>0, <1>6 DEF HoldoutsTagged, RowsGrow, TypeOK
<1>7. ASSUME NEW h \in Digests, RowsGrow, HoldoutTagged(h)', holdouts' = holdouts \cup {h}
      PROVE  HoldoutsTagged'
  BY <1>0, <1>7 DEF HoldoutsTagged, RowsGrow, TypeOK
<1>8. CASE \E w \in Writers : CommitPut(w) \/ CommitObject(w)
  BY <1>1, <1>2, <1>6, <1>8 DEF CommitPut, CommitObject
<1>9. CASE \E t, h \in Digests : RegisterReference(t, h)
  BY <1>3, <1>7, <1>9
<1>10. CASE \E d \in Digests : CreateStream(d) \/ TagCandidate(d)
  BY <1>4, <1>6, <1>10 DEF CreateStream, TagCandidate
<1> QED
  BY <1>5, <1>8, <1>9, <1>10
  DEF Next, blobVars, Begin, CheckExists, CreateStaging, StagingTaken, WriteAndRename,
      WriteFails, SyncDirectory, SyncFails, RollBack, Kill, PowerLoss

(* A holdout is never readable by producers: the tag it got when it was    *)
(* registered is never taken away and comes first in blob_allowed_roles,   *)
(* whoever uploads the same bytes and whatever else they are used as.      *)
THEOREM HoldoutHiddenCorrect == Spec => []HoldoutHidden
<1>1. Init => HoldoutsTagged
  BY InitStaged DEF Init, Staged, HoldoutsTagged
<1>2. HoldoutsTagged /\ TypeOK' /\ [Next]_blobVars => HoldoutsTagged'
  BY StepTagged
<1>3. HoldoutsTagged => HoldoutHidden
  BY DEF HoldoutsTagged, HoldoutTagged, HoldoutHidden, ReadableBy
<1> QED
  BY <1>1, <1>2, <1>3, BlobTypeCorrect, PTL DEF Spec
=============================================================================
