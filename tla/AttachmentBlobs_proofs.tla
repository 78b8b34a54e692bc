----------------------- MODULE AttachmentBlobs_proofs -----------------------
(***************************************************************************)
(* The safety of AttachmentBlobs for every set of attachments, keys,       *)
(* requests and workers.  IndInv is inductive: one lemma per action, one   *)
(* step per conjunct, each citing the conjuncts it needs.                  *)
(***************************************************************************)
EXTENDS AttachmentBlobs, TLAPS

(* Abbreviations every leaf may expand; none of them carries an argument. *)
USE NoneAssumption
USE DEF At, IdleReq, IdleWorker, IdleClean, ReqPcs, WorkerPcs, TaskStates,
        rowVars, blobVars, taskVars

(* Nothing is stored, referenced, queued or running at the start. *)
LEMMA InitInv == Init => IndInv
<1>. SUFFICES ASSUME Init PROVE IndInv
  OBVIOUS
<1>1. TypeOK  BY DEF Init, TypeOK
<1>2. AttOwnership /\ KeyOwnership /\ KeysAreUsed /\ GuardedReference
  BY DEF Init, AttOwnership, KeyOwnership, KeysAreUsed, GuardedReference, OwnsAtt
<1>3. ReferencedBlobExists /\ DeleteExclusion /\ NoLostCleanup
  BY DEF Init, ReferencedBlobExists, DeleteExclusion, NoLostCleanup, Condemned, RowsWith
<1>. QED  BY <1>1, <1>2, <1>3 DEF IndInv


(* A fresh key is handed out: nobody mentions it yet (KeysAreUsed). *)
LEMMA UploadStoreInv ==
  ASSUME IndInv, NEW r \in Requests, UploadStore(r)
  PROVE  IndInv'
<1>. USE DEF IndInv, UploadStore
<1>1. TypeOK'  BY DEF TypeOK
<1>2. AttOwnership'  BY DEF TypeOK, AttOwnership, OwnsAtt
<1>3. KeyOwnership'  BY DEF TypeOK, KeyOwnership, KeysAreUsed, Fresh
<1>4. KeysAreUsed'  BY DEF TypeOK, KeysAreUsed
<1>5. GuardedReference'  BY DEF TypeOK, GuardedReference, KeysAreUsed
<1>6. ReferencedBlobExists'  BY DEF TypeOK, ReferencedBlobExists
<1>7. DeleteExclusion'  BY DEF TypeOK, DeleteExclusion, KeysAreUsed, RowsWith,
      Condemned
<1>8. NoLostCleanup'  BY DEF TypeOK, NoLostCleanup, RowsWith, Unowned
<1>. QED  BY <1>1, <1>2, <1>3, <1>4, <1>5, <1>6, <1>7, <1>8

(* A fresh id is reserved for the uploaded key. *)
LEMMA UploadCreateInv ==
  ASSUME IndInv, NEW r \in Requests, UploadCreate(r)
  PROVE  IndInv'
<1>. USE DEF IndInv, UploadCreate, TaskLocked, CanRegister
<1>1. TypeOK'  BY DEF TypeOK
<1>2. AttOwnership'  BY DEF TypeOK, AttOwnership, OwnsAtt
<1>3. KeyOwnership'  BY DEF TypeOK, KeyOwnership, Fresh
<1>4. KeysAreUsed'  BY DEF TypeOK, KeysAreUsed
<1>5. GuardedReference'  BY DEF TypeOK, GuardedReference
<1>6. ReferencedBlobExists'  BY DEF TypeOK, ReferencedBlobExists
<1>7. DeleteExclusion'  BY DEF TypeOK, DeleteExclusion, RowsWith, Condemned
<1>8. NoLostCleanup'  BY DEF TypeOK, NoLostCleanup, RowsWith, Unowned
<1>. QED  BY <1>1, <1>2, <1>3, <1>4, <1>5, <1>6, <1>7, <1>8

(* The reference of a key only this request knows becomes visible. *)
LEMMA FinalizeCommitInv ==
  ASSUME IndInv, NEW r \in Requests, FinalizeCommit(r)
  PROVE  IndInv'
<1>. USE DEF IndInv, FinalizeCommit, PublishReference, Registered
<1>1. TypeOK'  BY DEF TypeOK, AttOwnership, KeyOwnership, Fresh, OwnsAtt
<1>2. AttOwnership'  BY DEF TypeOK, AttOwnership, OwnsAtt
<1>3. KeyOwnership'  BY DEF TypeOK, KeyOwnership, Fresh
<1>4. KeysAreUsed'  BY DEF TypeOK, KeysAreUsed
<1>5. GuardedReference'  BY DEF TypeOK, GuardedReference, AttOwnership,
      KeyOwnership, Fresh, OwnsAtt
<1>6. ReferencedBlobExists'  BY DEF TypeOK, ReferencedBlobExists,
      AttOwnership, KeyOwnership, Fresh, OwnsAtt
<1>7. DeleteExclusion'  BY DEF TypeOK, DeleteExclusion, AttOwnership,
      KeyOwnership, Fresh, OwnsAtt, RowsWith, Condemned
<1>8. NoLostCleanup'  BY DEF TypeOK, NoLostCleanup, AttOwnership,
      KeyOwnership, Fresh, OwnsAtt, RowsWith, Unowned
<1>. QED  BY <1>1, <1>2, <1>3, <1>4, <1>5, <1>6, <1>7, <1>8

(* The transaction rolls back; the request keeps its key for the cleanup. *)
LEMMA FinalizeFailInv ==
  ASSUME IndInv, NEW r \in Requests, FinalizeFail(r)
  PROVE  IndInv'
<1>. USE DEF IndInv, FinalizeFail
<1>1. TypeOK'  BY DEF TypeOK
<1>2. AttOwnership'  BY DEF TypeOK, AttOwnership, OwnsAtt
<1>3. KeyOwnership'  BY DEF TypeOK, KeyOwnership, Fresh
<1>4. KeysAreUsed'  BY DEF TypeOK, KeysAreUsed
<1>5. GuardedReference'  BY DEF TypeOK, GuardedReference, KeyOwnership, Fresh
<1>6. ReferencedBlobExists'  BY DEF TypeOK, ReferencedBlobExists
<1>7. DeleteExclusion'  BY DEF TypeOK, DeleteExclusion, RowsWith, Condemned
<1>8. NoLostCleanup'  BY DEF TypeOK, NoLostCleanup, RowsWith, Unowned
<1>. QED  BY <1>1, <1>2, <1>3, <1>4, <1>5, <1>6, <1>7, <1>8

(* The key passes from the request to the undecided transaction. *)
LEMMA FinalizeInDoubtInv ==
  ASSUME IndInv, NEW r \in Requests, FinalizeInDoubt(r)
  PROVE  IndInv'
<1>. USE DEF IndInv, FinalizeInDoubt
<1>1. TypeOK'  BY DEF TypeOK, AttOwnership, KeyOwnership, Fresh, OwnsAtt
<1>2. AttOwnership'  BY DEF TypeOK, AttOwnership, OwnsAtt
<1>3. KeyOwnership'  BY DEF TypeOK, KeyOwnership, Fresh
<1>4. KeysAreUsed'  BY DEF TypeOK, KeysAreUsed, KeyOwnership, Fresh
<1>5. GuardedReference'  BY DEF TypeOK, GuardedReference, KeyOwnership, Fresh
<1>6. ReferencedBlobExists'  BY DEF TypeOK, ReferencedBlobExists
<1>7. DeleteExclusion'  BY DEF TypeOK, DeleteExclusion, RowsWith, Condemned
<1>8. NoLostCleanup'  BY DEF TypeOK, NoLostCleanup, RowsWith, Unowned
<1>. QED  BY <1>1, <1>2, <1>3, <1>4, <1>5, <1>6, <1>7, <1>8

(* The request gives its key to the task table. *)
LEMMA EnqueueCleanupInv ==
  ASSUME IndInv, NEW r \in Requests, EnqueueCleanup(r)
  PROVE  IndInv'
<1>. USE DEF IndInv, EnqueueCleanup, TaskLocked, QueueBlobDelete
<1>1. TypeOK'  BY DEF TypeOK, GuardedReference
<1>2. AttOwnership'  BY DEF TypeOK, AttOwnership, OwnsAtt
<1>3. KeyOwnership'  BY DEF TypeOK, KeyOwnership, Fresh
<1>4. KeysAreUsed'  BY DEF TypeOK, KeysAreUsed
<1>5. GuardedReference'  BY DEF TypeOK, GuardedReference
<1>6. ReferencedBlobExists'  BY DEF TypeOK, ReferencedBlobExists
<1>7. DeleteExclusion'  BY DEF TypeOK, DeleteExclusion, GuardedReference,
      RowsWith, Condemned
<1>8. NoLostCleanup'  BY DEF TypeOK, NoLostCleanup, RowsWith, Unowned
<1>. QED  BY <1>1, <1>2, <1>3, <1>4, <1>5, <1>6, <1>7, <1>8

(* The request drops its key: it is recorded as an orphan. *)
LEMMA EnqueueCleanupFailsInv ==
  ASSUME IndInv, NEW r \in Requests, EnqueueCleanupFails(r)
  PROVE  IndInv'
<1>. USE DEF IndInv, EnqueueCleanupFails
<1>1. TypeOK'  BY DEF TypeOK, GuardedReference
<1>2. AttOwnership'  BY DEF TypeOK, AttOwnership, OwnsAtt
<1>3. KeyOwnership'  BY DEF TypeOK, KeyOwnership, Fresh
<1>4. KeysAreUsed'  BY DEF TypeOK, KeysAreUsed
<1>5. GuardedReference'  BY DEF TypeOK, GuardedReference
<1>6. ReferencedBlobExists'  BY DEF TypeOK, ReferencedBlobExists
<1>7. DeleteExclusion'  BY DEF TypeOK, DeleteExclusion, RowsWith, Condemned
<1>8. NoLostCleanup'  BY DEF TypeOK, NoLostCleanup, RowsWith, Unowned
<1>. QED  BY <1>1, <1>2, <1>3, <1>4, <1>5, <1>6, <1>7, <1>8

(* A row appears without a key. *)
LEMMA SourceUrlCreateInv ==
  ASSUME IndInv, NEW r \in Requests, SourceUrlCreate(r)
  PROVE  IndInv'
<1>. USE DEF IndInv, SourceUrlCreate
<1>1. TypeOK'  BY DEF TypeOK
<1>2. AttOwnership'  BY DEF TypeOK, AttOwnership, OwnsAtt
<1>3. KeyOwnership'  BY DEF TypeOK, KeyOwnership, Fresh
<1>4. KeysAreUsed'  BY DEF TypeOK, KeysAreUsed
<1>5. GuardedReference'  BY DEF TypeOK, GuardedReference, AttOwnership,
      OwnsAtt
<1>6. ReferencedBlobExists'  BY DEF TypeOK, ReferencedBlobExists,
      AttOwnership, OwnsAtt
<1>7. DeleteExclusion'  BY DEF TypeOK, DeleteExclusion, AttOwnership, OwnsAtt,
      RowsWith, Condemned
<1>8. NoLostCleanup'  BY DEF TypeOK, NoLostCleanup, RowsWith, Unowned
<1>. QED  BY <1>1, <1>2, <1>3, <1>4, <1>5, <1>6, <1>7, <1>8

(* The request stops before it has a key. *)
LEMMA SourceUrlFailInv ==
  ASSUME IndInv, NEW r \in Requests, SourceUrlFail(r)
  PROVE  IndInv'
<1>. USE DEF IndInv, SourceUrlFail
<1>1. TypeOK'  BY DEF TypeOK
<1>2. AttOwnership'  BY DEF TypeOK, AttOwnership, OwnsAtt
<1>3. KeyOwnership'  BY DEF TypeOK, KeyOwnership, Fresh
<1>4. KeysAreUsed'  BY DEF TypeOK, KeysAreUsed
<1>5. GuardedReference'  BY DEF TypeOK, GuardedReference
<1>6. ReferencedBlobExists'  BY DEF TypeOK, ReferencedBlobExists
<1>7. DeleteExclusion'  BY DEF TypeOK, DeleteExclusion, RowsWith, Condemned
<1>8. NoLostCleanup'  BY DEF TypeOK, NoLostCleanup, RowsWith, Unowned
<1>. QED  BY <1>1, <1>2, <1>3, <1>4, <1>5, <1>6, <1>7, <1>8

(* A fresh key is handed out for an existing row. *)
LEMMA SourceUrlStoreInv ==
  ASSUME IndInv, NEW r \in Requests, SourceUrlStore(r)
  PROVE  IndInv'
<1>. USE DEF IndInv, SourceUrlStore
<1>1. TypeOK'  BY DEF TypeOK
<1>2. AttOwnership'  BY DEF TypeOK, AttOwnership, OwnsAtt
<1>3. KeyOwnership'  BY DEF TypeOK, KeyOwnership, KeysAreUsed, Fresh
<1>4. KeysAreUsed'  BY DEF TypeOK, KeysAreUsed
<1>5. GuardedReference'  BY DEF TypeOK, GuardedReference, KeysAreUsed
<1>6. ReferencedBlobExists'  BY DEF TypeOK, ReferencedBlobExists
<1>7. DeleteExclusion'  BY DEF TypeOK, DeleteExclusion, KeysAreUsed, RowsWith,
      Condemned
<1>8. NoLostCleanup'  BY DEF TypeOK, NoLostCleanup, RowsWith, Unowned
<1>. QED  BY <1>1, <1>2, <1>3, <1>4, <1>5, <1>6, <1>7, <1>8

(* The row is locked and its key registered. *)
LEMMA SourceUrlUpdateInv ==
  ASSUME IndInv, NEW r \in Requests, SourceUrlUpdate(r)
  PROVE  IndInv'
<1>. USE DEF IndInv, SourceUrlUpdate, RowLocked, TaskLocked, CanRegister
<1>1. TypeOK'  BY DEF TypeOK
<1>2. AttOwnership'  BY DEF TypeOK, AttOwnership, OwnsAtt
<1>3. KeyOwnership'  BY DEF TypeOK, KeyOwnership, Fresh
<1>4. KeysAreUsed'  BY DEF TypeOK, KeysAreUsed
<1>5. GuardedReference'  BY DEF TypeOK, GuardedReference
<1>6. ReferencedBlobExists'  BY DEF TypeOK, ReferencedBlobExists
<1>7. DeleteExclusion'  BY DEF TypeOK, DeleteExclusion, RowsWith, Condemned
<1>8. NoLostCleanup'  BY DEF TypeOK, NoLostCleanup, RowsWith, Unowned
<1>. QED  BY <1>1, <1>2, <1>3, <1>4, <1>5, <1>6, <1>7, <1>8

(* Linking touches neither keys nor tasks. *)
LEMMA LinkAttachmentToEntryInv ==
  ASSUME IndInv, NEW r \in Requests, LinkAttachmentToEntry(r)
  PROVE  IndInv'
<1>. USE DEF IndInv, LinkAttachmentToEntry, RowLocked
<1>1. TypeOK'  BY DEF TypeOK
<1>2. AttOwnership'  BY DEF TypeOK, AttOwnership, OwnsAtt
<1>3. KeyOwnership'  BY DEF TypeOK, KeyOwnership, Fresh
<1>4. KeysAreUsed'  BY DEF TypeOK, KeysAreUsed
<1>5. GuardedReference'  BY DEF TypeOK, GuardedReference
<1>6. ReferencedBlobExists'  BY DEF TypeOK, ReferencedBlobExists
<1>7. DeleteExclusion'  BY DEF TypeOK, DeleteExclusion, RowsWith, Condemned
<1>8. NoLostCleanup'  BY DEF TypeOK, NoLostCleanup, RowsWith, Unowned
<1>. QED  BY <1>1, <1>2, <1>3, <1>4, <1>5, <1>6, <1>7, <1>8

(* The clone takes the guard of its source's key, or gives up. *)
LEMMA CloneRegisterInv ==
  ASSUME IndInv, NEW r \in Requests, CloneRegister(r)
  PROVE  IndInv'
<1>. USE DEF IndInv, CloneRegister, TaskLocked, CanRegister
<1>1. TypeOK'  BY DEF TypeOK
<1>2. AttOwnership'  BY DEF TypeOK, AttOwnership, OwnsAtt
<1>3. KeyOwnership'  BY DEF TypeOK, KeyOwnership, Fresh
<1>4. KeysAreUsed'  BY DEF TypeOK, KeysAreUsed
<1>5. GuardedReference'  BY DEF TypeOK, GuardedReference
<1>6. ReferencedBlobExists'  BY DEF TypeOK, ReferencedBlobExists
<1>7. DeleteExclusion'  BY DEF TypeOK, DeleteExclusion, RowsWith, Condemned
<1>8. NoLostCleanup'  BY DEF TypeOK, NoLostCleanup, RowsWith, Unowned
<1>. QED  BY <1>1, <1>2, <1>3, <1>4, <1>5, <1>6, <1>7, <1>8

(* The source is seen again under the guard: its key is referenced. *)
LEMMA CloneRevalidateInv ==
  ASSUME IndInv, NEW r \in Requests, CloneRevalidate(r)
  PROVE  IndInv'
<1>. USE DEF IndInv, CloneRevalidate
<1>1. TypeOK'  BY DEF TypeOK
<1>2. AttOwnership'  BY DEF TypeOK, AttOwnership, OwnsAtt
<1>3. KeyOwnership'  BY DEF TypeOK, KeyOwnership, Fresh
<1>4. KeysAreUsed'  BY DEF TypeOK, KeysAreUsed
<1>5. GuardedReference'  BY DEF TypeOK, GuardedReference
<1>6. ReferencedBlobExists'  BY DEF TypeOK, ReferencedBlobExists
<1>7. DeleteExclusion'  BY DEF TypeOK, DeleteExclusion, AttOwnership,
      GuardedReference, OwnsAtt, RowsWith, Condemned
<1>8. NoLostCleanup'  BY DEF TypeOK, NoLostCleanup, RowsWith, Unowned
<1>. QED  BY <1>1, <1>2, <1>3, <1>4, <1>5, <1>6, <1>7, <1>8

(* The clone's reference becomes visible; its source keeps the content alive. *)
LEMMA CloneCommitInv ==
  ASSUME IndInv, NEW r \in Requests, CloneCommit(r)
  PROVE  IndInv'
<1>. USE DEF IndInv, CloneCommit, PublishReference, Registered
<1>1. TypeOK'  BY DEF TypeOK, AttOwnership, GuardedReference, OwnsAtt
<1>2. AttOwnership'  BY DEF TypeOK, AttOwnership, OwnsAtt
<1>3. KeyOwnership'  BY DEF TypeOK, KeyOwnership, Fresh
<1>4. KeysAreUsed'  BY DEF TypeOK, KeysAreUsed
<1>5. GuardedReference'  BY DEF TypeOK, GuardedReference, AttOwnership,
      OwnsAtt
<1>6. ReferencedBlobExists'  BY DEF TypeOK, ReferencedBlobExists,
      AttOwnership, GuardedReference, OwnsAtt
<1>7. DeleteExclusion'  BY DEF TypeOK, DeleteExclusion, AttOwnership,
      GuardedReference, OwnsAtt, RowsWith, Condemned
<1>8. NoLostCleanup'  BY DEF TypeOK, NoLostCleanup, AttOwnership,
      GuardedReference, OwnsAtt, RowsWith, Unowned
<1>. QED  BY <1>1, <1>2, <1>3, <1>4, <1>5, <1>6, <1>7, <1>8

(* A delete locks its row, or gives up. *)
LEMMA DeleteLockInv ==
  ASSUME IndInv, NEW r \in Requests, DeleteLock(r)
  PROVE  IndInv'
<1>. USE DEF IndInv, DeleteLock, RowLocked
<1>1. TypeOK'  BY DEF TypeOK
<1>2. AttOwnership'  BY DEF TypeOK, AttOwnership, OwnsAtt
<1>3. KeyOwnership'  BY DEF TypeOK, KeyOwnership, Fresh
<1>4. KeysAreUsed'  BY DEF TypeOK, KeysAreUsed
<1>5. GuardedReference'  BY DEF TypeOK, GuardedReference
<1>6. ReferencedBlobExists'  BY DEF TypeOK, ReferencedBlobExists
<1>7. DeleteExclusion'  BY DEF TypeOK, DeleteExclusion, RowsWith, Condemned
<1>8. NoLostCleanup'  BY DEF TypeOK, NoLostCleanup, RowsWith, Unowned
<1>. QED  BY <1>1, <1>2, <1>3, <1>4, <1>5, <1>6, <1>7, <1>8

(* The row goes and its key is queued in the same commit. *)
LEMMA DeleteCommitInv ==
  ASSUME IndInv, NEW r \in Requests, DeleteCommit(r)
  PROVE  IndInv'
<1>. USE DEF IndInv, DeleteCommit, DeleteRow, TaskLocked, QueueBlobDelete
<1>1. TypeOK'  BY DEF TypeOK, GuardedReference
<1>2. AttOwnership'  BY DEF TypeOK, AttOwnership, OwnsAtt
<1>3. KeyOwnership'  BY DEF TypeOK, KeyOwnership, GuardedReference, Fresh
<1>4. KeysAreUsed'  BY DEF TypeOK, KeysAreUsed, GuardedReference
<1>5. GuardedReference'  BY DEF TypeOK, GuardedReference
<1>6. ReferencedBlobExists'  BY DEF TypeOK, ReferencedBlobExists
<1>7. DeleteExclusion'  BY DEF TypeOK, DeleteExclusion, GuardedReference,
      RowsWith, Condemned
<1>8. NoLostCleanup'  BY DEF TypeOK, NoLostCleanup, RowsWith, Unowned
<1>. QED  BY <1>1, <1>2, <1>3, <1>4, <1>5, <1>6, <1>7, <1>8

(* A crash loses a key nobody else owns: it is recorded as an orphan. *)
LEMMA RequestCrashInv ==
  ASSUME IndInv, NEW r \in Requests, RequestCrash(r)
  PROVE  IndInv'
<1>. USE DEF IndInv, RequestCrash, Unowned
<1>1. TypeOK'  BY DEF TypeOK, KeyOwnership, GuardedReference, Fresh
<1>2. AttOwnership'  BY DEF TypeOK, AttOwnership, OwnsAtt
<1>3. KeyOwnership'  BY DEF TypeOK, KeyOwnership, Fresh
<1>4. KeysAreUsed'  BY DEF TypeOK, KeysAreUsed
<1>5. GuardedReference'  BY DEF TypeOK, GuardedReference
<1>6. ReferencedBlobExists'  BY DEF TypeOK, ReferencedBlobExists
<1>7. DeleteExclusion'  BY DEF TypeOK, DeleteExclusion, RowsWith, Condemned
<1>8. NoLostCleanup'  BY DEF TypeOK, NoLostCleanup, RowsWith
<1>. QED  BY <1>1, <1>2, <1>3, <1>4, <1>5, <1>6, <1>7, <1>8

(* The append reads the row it wants to link or clone. *)
LEMMA AppendReadInv ==
  ASSUME IndInv, NEW r \in Requests, NEW a \in Atts, AppendRead(r, a)
  PROVE  IndInv'
<1>. USE DEF IndInv, AppendRead
<1>1. TypeOK'  BY DEF TypeOK
<1>2. AttOwnership'  BY DEF TypeOK, AttOwnership, OwnsAtt
<1>3. KeyOwnership'  BY DEF TypeOK, KeyOwnership, AttOwnership, OwnsAtt, Fresh
<1>4. KeysAreUsed'  BY DEF TypeOK, KeysAreUsed
<1>5. GuardedReference'  BY DEF TypeOK, GuardedReference
<1>6. ReferencedBlobExists'  BY DEF TypeOK, ReferencedBlobExists
<1>7. DeleteExclusion'  BY DEF TypeOK, DeleteExclusion, RowsWith, Condemned
<1>8. NoLostCleanup'  BY DEF TypeOK, NoLostCleanup, RowsWith, Unowned
<1>. QED  BY <1>1, <1>2, <1>3, <1>4, <1>5, <1>6, <1>7, <1>8

(* The authorization read changes nothing but the request. *)
LEMMA DeleteReadInv ==
  ASSUME IndInv, NEW r \in Requests, NEW a \in Atts, DeleteRead(r, a)
  PROVE  IndInv'
<1>. USE DEF IndInv, DeleteRead
<1>1. TypeOK'  BY DEF TypeOK
<1>2. AttOwnership'  BY DEF TypeOK, AttOwnership, OwnsAtt
<1>3. KeyOwnership'  BY DEF TypeOK, KeyOwnership, Fresh
<1>4. KeysAreUsed'  BY DEF TypeOK, KeysAreUsed
<1>5. GuardedReference'  BY DEF TypeOK, GuardedReference
<1>6. ReferencedBlobExists'  BY DEF TypeOK, ReferencedBlobExists
<1>7. DeleteExclusion'  BY DEF TypeOK, DeleteExclusion, RowsWith, Condemned
<1>8. NoLostCleanup'  BY DEF TypeOK, NoLostCleanup, RowsWith, Unowned
<1>. QED  BY <1>1, <1>2, <1>3, <1>4, <1>5, <1>6, <1>7, <1>8

(* The admin delete locks any row. *)
LEMMA AdminDeleteLockInv ==
  ASSUME IndInv, NEW r \in Requests, NEW a \in Atts, AdminDeleteLock(r, a)
  PROVE  IndInv'
<1>. USE DEF IndInv, AdminDeleteLock, RowLocked
<1>1. TypeOK'  BY DEF TypeOK
<1>2. AttOwnership'  BY DEF TypeOK, AttOwnership, OwnsAtt
<1>3. KeyOwnership'  BY DEF TypeOK, KeyOwnership, Fresh
<1>4. KeysAreUsed'  BY DEF TypeOK, KeysAreUsed
<1>5. GuardedReference'  BY DEF TypeOK, GuardedReference
<1>6. ReferencedBlobExists'  BY DEF TypeOK, ReferencedBlobExists
<1>7. DeleteExclusion'  BY DEF TypeOK, DeleteExclusion, RowsWith, Condemned
<1>8. NoLostCleanup'  BY DEF TypeOK, NoLostCleanup, RowsWith, Unowned
<1>. QED  BY <1>1, <1>2, <1>3, <1>4, <1>5, <1>6, <1>7, <1>8

(* The count under the task lock decides the fate of the key. *)
LEMMA PrepareCountInv ==
  ASSUME IndInv, NEW w \in Workers, PrepareCount(w)
  PROVE  IndInv'
<1>. USE DEF IndInv, PrepareCount, RowsWith, TaskLocked
<1>1. TypeOK'  BY DEF TypeOK
<1>2. AttOwnership'  BY DEF TypeOK, AttOwnership, OwnsAtt
<1>3. KeyOwnership'  BY DEF TypeOK, KeyOwnership, Fresh
<1>4. KeysAreUsed'  BY DEF TypeOK, KeysAreUsed
<1>5. GuardedReference'  BY DEF TypeOK, GuardedReference
<1>6. ReferencedBlobExists'  BY DEF TypeOK, ReferencedBlobExists
<1>7. DeleteExclusion'  BY DEF TypeOK, DeleteExclusion, KeyOwnership,
      GuardedReference, Fresh, Condemned
<1>8. NoLostCleanup'  BY DEF TypeOK, NoLostCleanup, Unowned
<1>. QED  BY <1>1, <1>2, <1>3, <1>4, <1>5, <1>6, <1>7, <1>8

(* A referenced key gets its guard back. *)
LEMMA PrepareRetainInv ==
  ASSUME IndInv, NEW w \in Workers, PrepareRetain(w)
  PROVE  IndInv'
<1>. USE DEF IndInv, PrepareRetain, Registered
<1>1. TypeOK'  BY DEF TypeOK
<1>2. AttOwnership'  BY DEF TypeOK, AttOwnership, OwnsAtt
<1>3. KeyOwnership'  BY DEF TypeOK, KeyOwnership, Fresh
<1>4. KeysAreUsed'  BY DEF TypeOK, KeysAreUsed
<1>5. GuardedReference'  BY DEF TypeOK, GuardedReference
<1>6. ReferencedBlobExists'  BY DEF TypeOK, ReferencedBlobExists
<1>7. DeleteExclusion'  BY DEF TypeOK, DeleteExclusion, AttOwnership,
      GuardedReference, OwnsAtt, RowsWith, Condemned
<1>8. NoLostCleanup'  BY DEF TypeOK, NoLostCleanup, AttOwnership,
      GuardedReference, OwnsAtt, RowsWith, Unowned
<1>. QED  BY <1>1, <1>2, <1>3, <1>4, <1>5, <1>6, <1>7, <1>8

(* The decision to delete is committed: nothing else changes. *)
LEMMA PrepareCommitInv ==
  ASSUME IndInv, NEW w \in Workers, PrepareCommit(w)
  PROVE  IndInv'
<1>. USE DEF IndInv, PrepareCommit
<1>1. TypeOK'  BY DEF TypeOK
<1>2. AttOwnership'  BY DEF TypeOK, AttOwnership, OwnsAtt
<1>3. KeyOwnership'  BY DEF TypeOK, KeyOwnership, Fresh
<1>4. KeysAreUsed'  BY DEF TypeOK, KeysAreUsed
<1>5. GuardedReference'  BY DEF TypeOK, GuardedReference
<1>6. ReferencedBlobExists'  BY DEF TypeOK, ReferencedBlobExists
<1>7. DeleteExclusion'  BY DEF TypeOK, DeleteExclusion, RowsWith, Condemned
<1>8. NoLostCleanup'  BY DEF TypeOK, NoLostCleanup, RowsWith, Unowned
<1>. QED  BY <1>1, <1>2, <1>3, <1>4, <1>5, <1>6, <1>7, <1>8

(* The provider drops content that DeleteExclusion says is unreferenced. *)
LEMMA ProviderDeleteInv ==
  ASSUME IndInv, NEW w \in Workers, ProviderDelete(w)
  PROVE  IndInv'
<1>. USE DEF IndInv, ProviderDelete
<1>1. TypeOK'  BY DEF TypeOK
<1>2. AttOwnership'  BY DEF TypeOK, AttOwnership, OwnsAtt
<1>3. KeyOwnership'  BY DEF TypeOK, KeyOwnership, Fresh
<1>4. KeysAreUsed'  BY DEF TypeOK, KeysAreUsed
<1>5. GuardedReference'  BY DEF TypeOK, GuardedReference
<1>6. ReferencedBlobExists'  BY DEF TypeOK, ReferencedBlobExists,
      DeleteExclusion, RowsWith, Condemned
<1>7. DeleteExclusion'  BY DEF TypeOK, DeleteExclusion, RowsWith, Condemned
<1>8. NoLostCleanup'  BY DEF TypeOK, NoLostCleanup, RowsWith, Unowned
<1>. QED  BY <1>1, <1>2, <1>3, <1>4, <1>5, <1>6, <1>7, <1>8

(* The delete outlives its caller. *)
LEMMA ProviderTimeoutInv ==
  ASSUME IndInv, NEW w \in Workers, ProviderTimeout(w)
  PROVE  IndInv'
<1>. USE DEF IndInv, ProviderTimeout
<1>1. TypeOK'  BY DEF TypeOK, GuardedReference
<1>2. AttOwnership'  BY DEF TypeOK, AttOwnership, OwnsAtt
<1>3. KeyOwnership'  BY DEF TypeOK, KeyOwnership, Fresh
<1>4. KeysAreUsed'  BY DEF TypeOK, KeysAreUsed, GuardedReference
<1>5. GuardedReference'  BY DEF TypeOK, GuardedReference
<1>6. ReferencedBlobExists'  BY DEF TypeOK, ReferencedBlobExists
<1>7. DeleteExclusion'  BY DEF TypeOK, DeleteExclusion, RowsWith, Condemned
<1>8. NoLostCleanup'  BY DEF TypeOK, NoLostCleanup, RowsWith, Unowned
<1>. QED  BY <1>1, <1>2, <1>3, <1>4, <1>5, <1>6, <1>7, <1>8

(* The task row goes with its content; overlapping attempts lose theirs. *)
LEMMA CompleteInv ==
  ASSUME IndInv, NEW w \in Workers, Complete(w)
  PROVE  IndInv'
<1>. USE DEF IndInv, Complete, TaskLocked
<1>1. TypeOK'
  <2>. DEFINE W == [pc : WorkerPcs, key : Keys \cup {NoKey}, live : BOOLEAN]
  <2>1. worker[w].key \in Keys  BY DEF GuardedReference
  <2>2. \A v \in Workers :
          /\ worker[v] \in W
          /\ [pc |-> worker[v].pc, key |-> worker[v].key, live |-> FALSE] \in W
    BY DEF TypeOK
  <2>3. IdleWorker \in W  OBVIOUS
  <2>4. worker' \in [Workers -> W]
    <3>. HIDE DEF W, IdleWorker
    <3>1. worker \in [Workers -> W]  BY DEF TypeOK, W
    <3>2. CASE worker[w].live
      BY <3>2, <2>2, <2>3
    <3>3. CASE ~worker[w].live
      BY <3>3, <3>1, <2>3
    <3>. QED  BY <3>2, <3>3
  <2>5. task' \in [Keys -> TaskStates] /\ ready' \subseteq Keys  BY <2>1 DEF TypeOK
  <2>. QED  BY <2>4, <2>5 DEF TypeOK
<1>2. AttOwnership'  BY DEF TypeOK, AttOwnership, OwnsAtt
<1>3. KeyOwnership'  BY DEF TypeOK, KeyOwnership, Fresh
<1>4. KeysAreUsed'  BY DEF TypeOK, KeysAreUsed
<1>5. GuardedReference'  BY DEF TypeOK, GuardedReference
<1>6. ReferencedBlobExists'  BY DEF TypeOK, ReferencedBlobExists
<1>7. DeleteExclusion'  BY DEF TypeOK, DeleteExclusion, GuardedReference,
      RowsWith, Condemned
<1>8. NoLostCleanup'  BY DEF TypeOK, NoLostCleanup, GuardedReference,
      RowsWith, Unowned
<1>. QED  BY <1>1, <1>2, <1>3, <1>4, <1>5, <1>6, <1>7, <1>8

(* The attempt turns to FailTask. *)
LEMMA WorkerErrorInv ==
  ASSUME IndInv, NEW w \in Workers, WorkerError(w)
  PROVE  IndInv'
<1>. USE DEF IndInv, WorkerError
<1>1. TypeOK'  BY DEF TypeOK
<1>2. AttOwnership'  BY DEF TypeOK, AttOwnership, OwnsAtt
<1>3. KeyOwnership'  BY DEF TypeOK, KeyOwnership, Fresh
<1>4. KeysAreUsed'  BY DEF TypeOK, KeysAreUsed
<1>5. GuardedReference'  BY DEF TypeOK, GuardedReference
<1>6. ReferencedBlobExists'  BY DEF TypeOK, ReferencedBlobExists
<1>7. DeleteExclusion'  BY DEF TypeOK, DeleteExclusion, RowsWith, Condemned
<1>8. NoLostCleanup'  BY DEF TypeOK, NoLostCleanup, RowsWith, Unowned
<1>. QED  BY <1>1, <1>2, <1>3, <1>4, <1>5, <1>6, <1>7, <1>8

(* The task is postponed and stays claimed. *)
LEMMA FailTaskInv ==
  ASSUME IndInv, NEW w \in Workers, FailTask(w)
  PROVE  IndInv'
<1>. USE DEF IndInv, FailTask, TaskLocked
<1>1. TypeOK'  BY DEF TypeOK
<1>2. AttOwnership'  BY DEF TypeOK, AttOwnership, OwnsAtt
<1>3. KeyOwnership'  BY DEF TypeOK, KeyOwnership, Fresh
<1>4. KeysAreUsed'  BY DEF TypeOK, KeysAreUsed
<1>5. GuardedReference'  BY DEF TypeOK, GuardedReference
<1>6. ReferencedBlobExists'  BY DEF TypeOK, ReferencedBlobExists
<1>7. DeleteExclusion'  BY DEF TypeOK, DeleteExclusion, RowsWith, Condemned
<1>8. NoLostCleanup'  BY DEF TypeOK, NoLostCleanup, RowsWith, Unowned
<1>. QED  BY <1>1, <1>2, <1>3, <1>4, <1>5, <1>6, <1>7, <1>8

(* A crashed worker leaves its task to the lease. *)
LEMMA WorkerCrashInv ==
  ASSUME IndInv, NEW w \in Workers, WorkerCrash(w)
  PROVE  IndInv'
<1>. USE DEF IndInv, WorkerCrash
<1>1. TypeOK'  BY DEF TypeOK
<1>2. AttOwnership'  BY DEF TypeOK, AttOwnership, OwnsAtt
<1>3. KeyOwnership'  BY DEF TypeOK, KeyOwnership, Fresh
<1>4. KeysAreUsed'  BY DEF TypeOK, KeysAreUsed
<1>5. GuardedReference'  BY DEF TypeOK, GuardedReference
<1>6. ReferencedBlobExists'  BY DEF TypeOK, ReferencedBlobExists
<1>7. DeleteExclusion'  BY DEF TypeOK, DeleteExclusion, RowsWith, Condemned
<1>8. NoLostCleanup'  BY DEF TypeOK, NoLostCleanup, RowsWith, Unowned
<1>. QED  BY <1>1, <1>2, <1>3, <1>4, <1>5, <1>6, <1>7, <1>8

(* A queued task, or a claimed one whose lease ran out, is taken. *)
LEMMA ClaimInv ==
  ASSUME IndInv, NEW w \in Workers, NEW k \in Keys, Claim(w, k)
  PROVE  IndInv'
<1>. USE DEF IndInv, Claim, TaskLocked
<1>1. TypeOK'  BY DEF TypeOK
<1>2. AttOwnership'  BY DEF TypeOK, AttOwnership, OwnsAtt
<1>3. KeyOwnership'  BY DEF TypeOK, KeyOwnership, Fresh
<1>4. KeysAreUsed'  BY DEF TypeOK, KeysAreUsed
<1>5. GuardedReference'  BY DEF TypeOK, GuardedReference
<1>6. ReferencedBlobExists'  BY DEF TypeOK, ReferencedBlobExists
<1>7. DeleteExclusion'  BY DEF TypeOK, DeleteExclusion, RowsWith, Condemned
<1>8. NoLostCleanup'  BY DEF TypeOK, NoLostCleanup, RowsWith, Unowned
<1>. QED  BY <1>1, <1>2, <1>3, <1>4, <1>5, <1>6, <1>7, <1>8

(* The cleanup lists its candidates. *)
LEMMA CleanupListInv ==
  ASSUME IndInv, CleanupList
  PROVE  IndInv'
<1>. USE DEF IndInv, CleanupList
<1>1. TypeOK'  BY DEF TypeOK
<1>2. AttOwnership'  BY DEF TypeOK, AttOwnership, OwnsAtt
<1>3. KeyOwnership'  BY DEF TypeOK, KeyOwnership, Fresh
<1>4. KeysAreUsed'  BY DEF TypeOK, KeysAreUsed
<1>5. GuardedReference'  BY DEF TypeOK, GuardedReference
<1>6. ReferencedBlobExists'  BY DEF TypeOK, ReferencedBlobExists
<1>7. DeleteExclusion'  BY DEF TypeOK, DeleteExclusion, RowsWith, Condemned
<1>8. NoLostCleanup'  BY DEF TypeOK, NoLostCleanup, RowsWith, Unowned
<1>. QED  BY <1>1, <1>2, <1>3, <1>4, <1>5, <1>6, <1>7, <1>8

(* The cleanup deletes a row and queues its key. *)
LEMMA CleanupCommitInv ==
  ASSUME IndInv, CleanupCommit
  PROVE  IndInv'
<1>. USE DEF IndInv, CleanupCommit, DeleteRow, TaskLocked, QueueBlobDelete
<1>1. TypeOK'  BY DEF TypeOK
<1>2. AttOwnership'  BY DEF TypeOK, AttOwnership, OwnsAtt
<1>3. KeyOwnership'  BY DEF TypeOK, KeyOwnership, Fresh
<1>4. KeysAreUsed'  BY DEF TypeOK, KeysAreUsed
<1>5. GuardedReference'  BY DEF TypeOK, GuardedReference
<1>6. ReferencedBlobExists'  BY DEF TypeOK, ReferencedBlobExists
<1>7. DeleteExclusion'  BY DEF TypeOK, DeleteExclusion, GuardedReference,
      KeysAreUsed, AttOwnership, OwnsAtt, RowsWith, Condemned
<1>8. NoLostCleanup'  BY DEF TypeOK, NoLostCleanup, RowsWith, Unowned
<1>. QED  BY <1>1, <1>2, <1>3, <1>4, <1>5, <1>6, <1>7, <1>8

(* The cleanup forgets its list. *)
LEMMA CleanupCrashInv ==
  ASSUME IndInv, CleanupCrash
  PROVE  IndInv'
<1>. USE DEF IndInv, CleanupCrash
<1>1. TypeOK'  BY DEF TypeOK
<1>2. AttOwnership'  BY DEF TypeOK, AttOwnership, OwnsAtt
<1>3. KeyOwnership'  BY DEF TypeOK, KeyOwnership, Fresh
<1>4. KeysAreUsed'  BY DEF TypeOK, KeysAreUsed
<1>5. GuardedReference'  BY DEF TypeOK, GuardedReference
<1>6. ReferencedBlobExists'  BY DEF TypeOK, ReferencedBlobExists
<1>7. DeleteExclusion'  BY DEF TypeOK, DeleteExclusion, RowsWith, Condemned
<1>8. NoLostCleanup'  BY DEF TypeOK, NoLostCleanup, RowsWith, Unowned
<1>. QED  BY <1>1, <1>2, <1>3, <1>4, <1>5, <1>6, <1>7, <1>8

(* The cleanup locks the next row. *)
LEMMA CleanupLockInv ==
  ASSUME IndInv, NEW a \in Atts, CleanupLock(a)
  PROVE  IndInv'
<1>. USE DEF IndInv, CleanupLock, RowLocked
<1>1. TypeOK'  BY DEF TypeOK
<1>2. AttOwnership'  BY DEF TypeOK, AttOwnership, OwnsAtt
<1>3. KeyOwnership'  BY DEF TypeOK, KeyOwnership, Fresh
<1>4. KeysAreUsed'  BY DEF TypeOK, KeysAreUsed
<1>5. GuardedReference'  BY DEF TypeOK, GuardedReference
<1>6. ReferencedBlobExists'  BY DEF TypeOK, ReferencedBlobExists
<1>7. DeleteExclusion'  BY DEF TypeOK, DeleteExclusion, RowsWith, Condemned
<1>8. NoLostCleanup'  BY DEF TypeOK, NoLostCleanup, RowsWith, Unowned
<1>. QED  BY <1>1, <1>2, <1>3, <1>4, <1>5, <1>6, <1>7, <1>8

(* Time passes for a row. *)
LEMMA ExpireInv ==
  ASSUME IndInv, NEW a \in Atts, Expire(a)
  PROVE  IndInv'
<1>. USE DEF IndInv, Expire
<1>1. TypeOK'  BY DEF TypeOK
<1>2. AttOwnership'  BY DEF TypeOK, AttOwnership, OwnsAtt
<1>3. KeyOwnership'  BY DEF TypeOK, KeyOwnership, Fresh
<1>4. KeysAreUsed'  BY DEF TypeOK, KeysAreUsed
<1>5. GuardedReference'  BY DEF TypeOK, GuardedReference
<1>6. ReferencedBlobExists'  BY DEF TypeOK, ReferencedBlobExists
<1>7. DeleteExclusion'  BY DEF TypeOK, DeleteExclusion, RowsWith, Condemned
<1>8. NoLostCleanup'  BY DEF TypeOK, NoLostCleanup, RowsWith, Unowned
<1>. QED  BY <1>1, <1>2, <1>3, <1>4, <1>5, <1>6, <1>7, <1>8

(* Time passes for a task. *)
LEMMA RetryDueInv ==
  ASSUME IndInv, NEW k \in Keys, RetryDue(k)
  PROVE  IndInv'
<1>. USE DEF IndInv, RetryDue
<1>1. TypeOK'  BY DEF TypeOK
<1>2. AttOwnership'  BY DEF TypeOK, AttOwnership, OwnsAtt
<1>3. KeyOwnership'  BY DEF TypeOK, KeyOwnership, Fresh
<1>4. KeysAreUsed'  BY DEF TypeOK, KeysAreUsed
<1>5. GuardedReference'  BY DEF TypeOK, GuardedReference
<1>6. ReferencedBlobExists'  BY DEF TypeOK, ReferencedBlobExists
<1>7. DeleteExclusion'  BY DEF TypeOK, DeleteExclusion, RowsWith, Condemned
<1>8. NoLostCleanup'  BY DEF TypeOK, NoLostCleanup, RowsWith, Unowned
<1>. QED  BY <1>1, <1>2, <1>3, <1>4, <1>5, <1>6, <1>7, <1>8

(* A late provider delete hits content DeleteExclusion says is unreferenced. *)
LEMMA LateDeleteInv ==
  ASSUME IndInv, NEW k \in Keys, LateDelete(k)
  PROVE  IndInv'
<1>. USE DEF IndInv, LateDelete
<1>1. TypeOK'  BY DEF TypeOK
<1>2. AttOwnership'  BY DEF TypeOK, AttOwnership, OwnsAtt
<1>3. KeyOwnership'  BY DEF TypeOK, KeyOwnership, Fresh
<1>4. KeysAreUsed'  BY DEF TypeOK, KeysAreUsed
<1>5. GuardedReference'  BY DEF TypeOK, GuardedReference
<1>6. ReferencedBlobExists'  BY DEF TypeOK, ReferencedBlobExists,
      DeleteExclusion, RowsWith, Condemned
<1>7. DeleteExclusion'  BY DEF TypeOK, DeleteExclusion, RowsWith, Condemned
<1>8. NoLostCleanup'  BY DEF TypeOK, NoLostCleanup, RowsWith, Unowned
<1>. QED  BY <1>1, <1>2, <1>3, <1>4, <1>5, <1>6, <1>7, <1>8

(* An undecided transaction turns out committed. *)
LEMMA DoubtCommitsInv ==
  ASSUME IndInv, NEW d \in doubt, DoubtCommits(d)
  PROVE  IndInv'
<1>. USE DEF IndInv, DoubtCommits, PublishReference, Registered
<1>1. TypeOK'  BY DEF TypeOK, AttOwnership, KeyOwnership, Fresh, OwnsAtt
<1>2. AttOwnership'  BY DEF TypeOK, AttOwnership, OwnsAtt
<1>3. KeyOwnership'  BY DEF TypeOK, KeyOwnership, Fresh
<1>4. KeysAreUsed'  BY DEF TypeOK, KeysAreUsed
<1>5. GuardedReference'  BY DEF TypeOK, GuardedReference, AttOwnership,
      KeyOwnership, Fresh, OwnsAtt
<1>6. ReferencedBlobExists'  BY DEF TypeOK, ReferencedBlobExists,
      KeyOwnership, Fresh
<1>7. DeleteExclusion'  BY DEF TypeOK, DeleteExclusion, RowsWith, Condemned
<1>8. NoLostCleanup'  BY DEF TypeOK, NoLostCleanup, AttOwnership,
      KeyOwnership, Fresh, OwnsAtt, RowsWith, Unowned
<1>. QED  BY <1>1, <1>2, <1>3, <1>4, <1>5, <1>6, <1>7, <1>8

(* An undecided transaction turns out rolled back. *)
LEMMA DoubtAbortsInv ==
  ASSUME IndInv, NEW d \in doubt, DoubtAborts(d)
  PROVE  IndInv'
<1>. USE DEF IndInv, DoubtAborts
<1>1. TypeOK'  BY DEF TypeOK
<1>2. AttOwnership'  BY DEF TypeOK, AttOwnership, OwnsAtt
<1>3. KeyOwnership'  BY DEF TypeOK, KeyOwnership, Fresh
<1>4. KeysAreUsed'  BY DEF TypeOK, KeysAreUsed
<1>5. GuardedReference'  BY DEF TypeOK, GuardedReference
<1>6. ReferencedBlobExists'  BY DEF TypeOK, ReferencedBlobExists
<1>7. DeleteExclusion'  BY DEF TypeOK, DeleteExclusion, RowsWith, Condemned
<1>8. NoLostCleanup'  BY DEF TypeOK, NoLostCleanup, RowsWith, Unowned
<1>. QED  BY <1>1, <1>2, <1>3, <1>4, <1>5, <1>6, <1>7, <1>8

-----------------------------------------------------------------------------
(* A stuttering step changes nothing the invariant reads. *)
LEMMA StutterInv == ASSUME IndInv, UNCHANGED vars PROVE IndInv'
<1>. USE DEF IndInv, vars
<1>1. TypeOK' /\ AttOwnership' /\ KeysAreUsed'
  BY DEF TypeOK, AttOwnership, OwnsAtt, KeysAreUsed
<1>2. KeyOwnership' /\ GuardedReference'
  BY DEF KeyOwnership, Fresh, GuardedReference
<1>3. ReferencedBlobExists' /\ DeleteExclusion' /\ NoLostCleanup'
  BY DEF ReferencedBlobExists, DeleteExclusion, Condemned, RowsWith, NoLostCleanup, Unowned
<1>. QED  BY <1>1, <1>2, <1>3

(* Every step of every process preserves the invariant. *)
LEMMA NextInv == IndInv /\ [Next]_vars => IndInv'
<1>. SUFFICES ASSUME IndInv, [Next]_vars PROVE IndInv'
  OBVIOUS
<1>1. CASE \E r \in Requests : RequestStep(r)
  <2>. PICK r \in Requests : RequestStep(r)
    BY <1>1
  <2>. QED
    BY UploadStoreInv, UploadCreateInv, FinalizeCommitInv, FinalizeFailInv,
       FinalizeInDoubtInv, EnqueueCleanupInv, EnqueueCleanupFailsInv,
       SourceUrlCreateInv, SourceUrlFailInv, SourceUrlStoreInv, SourceUrlUpdateInv,
       LinkAttachmentToEntryInv, CloneRegisterInv, CloneRevalidateInv, CloneCommitInv,
       DeleteLockInv, DeleteCommitInv, RequestCrashInv, AppendReadInv, DeleteReadInv,
       AdminDeleteLockInv
    DEF RequestStep
<1>2. CASE \E w \in Workers : WorkerStep(w)
  <2>. PICK w \in Workers : WorkerStep(w)
    BY <1>2
  <2>. QED
    BY ClaimInv, PrepareCountInv, PrepareRetainInv, PrepareCommitInv, ProviderDeleteInv,
       ProviderTimeoutInv, CompleteInv, WorkerErrorInv, FailTaskInv, WorkerCrashInv
    DEF WorkerStep
<1>3. CASE CleanupStep
  BY <1>3, CleanupListInv, CleanupCommitInv, CleanupCrashInv, CleanupLockInv DEF CleanupStep
<1>4. CASE Environment
  BY <1>4, ExpireInv, RetryDueInv, LateDeleteInv, DoubtCommitsInv, DoubtAbortsInv
  DEF Environment
<1>5. CASE UNCHANGED vars
  BY <1>5, StutterInv
<1>. QED  BY <1>1, <1>2, <1>3, <1>4, <1>5 DEF Next

(* The whole invariant holds in every reachable state. *)
LEMMA Invariance == Spec => []IndInv
  BY InitInv, NextInv, PTL DEF Spec

(* Every variable keeps its shape, whatever the sets of attachments, keys,  *)
(* requests and workers.                                                    *)
THEOREM TypeCorrect == Spec => []TypeOK
<1>1. IndInv => TypeOK  BY DEF IndInv
<1>. QED  BY <1>1, Invariance, PTL

(* A committed row that names a storage key has its content: the guard of   *)
(* RegisterAttachmentBlobReference and PrepareAttachmentBlobDelete suffices *)
(* however uploads, clones, deletes, cleanups and worker attempts overlap.  *)
THEOREM ReferencesAreSafe == Spec => []ReferencedBlobExists
<1>1. IndInv => ReferencedBlobExists  BY DEF IndInv
<1>. QED  BY <1>1, Invariance, PTL

(* From the count of PrepareAttachmentBlobDelete to the last late effect of *)
(* the provider call, no row, transaction or upload holds the key.          *)
THEOREM DeletionIsExclusive == Spec => []DeleteExclusion
<1>1. IndInv => DeleteExclusion  BY DEF IndInv
<1>. QED  BY <1>1, Invariance, PTL

(* Content is referenced, in the hands of its request, queued for deletion, *)
(* or a recorded orphan of a crash or of a failed cleanup request.          *)
THEOREM CleanupIsNotLost == Spec => []NoLostCleanup
<1>1. IndInv => NoLostCleanup  BY DEF IndInv
<1>. QED  BY <1>1, Invariance, PTL
-----------------------------------------------------------------------------
(* Only a handful of actions touch what BlobStore sees; the others stutter. *)

(* A commit that publishes a reference is BlobStore's Reference step. *)
LEMMA PublishIsReference ==
  ASSUME NEW a \in Atts, NEW k \in blobs, akey[a] = NoKey, TypeOK,
         PublishReference(a, k), UNCHANGED blobVars
  PROVE  Blob!Next
<1>1. k \in Keys  BY DEF TypeOK
<1>2. Blob!Reference(a, k)  BY DEF PublishReference, Blob!Reference
<1>. QED  BY <1>1, <1>2 DEF Blob!Next

(* Deleting a row is BlobStore's Unreference step, or a stutter without a key. *)
LEMMA DeleteRowIsUnreference ==
  ASSUME TypeOK, NEW a \in Atts, DeleteRow(a), UNCHANGED blobVars
  PROVE  [Blob!Next]_Blob!vars
<1>1. CASE akey[a] = NoKey
  <2>1. akey' = akey  BY <1>1 DEF TypeOK, DeleteRow
  <2>. QED  BY <2>1 DEF Blob!vars
<1>2. CASE akey[a] # NoKey
  <2>1. Blob!Unreference(a)  BY <1>2 DEF DeleteRow, Blob!Unreference
  <2>. QED  BY <2>1 DEF Blob!Next
<1>. QED  BY <1>1, <1>2

(* A provider delete, prompt or late, is BlobStore's Remove step: the key it *)
(* hits is condemned, so DeleteExclusion says that no row references it.     *)
LEMMA CondemnedIsRemovable ==
  ASSUME IndInv, NEW k \in Keys, Condemned(k),
         blobs' = blobs \ {k}, UNCHANGED <<usedKeys, akey>>
  PROVE  [Blob!Next]_Blob!vars
<1>1. \A a \in Atts : akey[a] # k
  <2>1. RowsWith(k) = {}  BY DEF IndInv, DeleteExclusion
  <2>2. \A a \in Atts \ rows : akey[a] = NoKey  BY DEF IndInv, AttOwnership
  <2>. QED  BY <2>1, <2>2 DEF RowsWith
<1>2. CASE k \in blobs
  <2>1. Blob!Remove(k)  BY <1>1, <1>2 DEF Blob!Remove
  <2>. QED  BY <2>1 DEF Blob!Next
<1>3. CASE k \notin blobs
  BY <1>3 DEF Blob!vars
<1>. QED  BY <1>2, <1>3

(* Every step of the detailed protocol is a step of BlobStore or a stutter. *)
LEMMA StepRefines == IndInv /\ [Next]_vars => [Blob!Next]_Blob!vars
<1>. SUFFICES ASSUME IndInv, [Next]_vars PROVE [Blob!Next]_Blob!vars
  OBVIOUS
<1>. USE DEF IndInv
<1>1. ASSUME NEW r \in Requests, RequestStep(r) PROVE [Blob!Next]_Blob!vars
  <2>1. CASE UploadStore(r) \/ SourceUrlStore(r)
    <3>. PICK k \in Keys \ usedKeys : /\ blobs' = blobs \cup {k}
                                     /\ usedKeys' = usedKeys \cup {k}
      BY <2>1 DEF UploadStore, SourceUrlStore
    <3>1. Blob!Put(k)  BY <2>1 DEF Blob!Put, UploadStore, SourceUrlStore
    <3>. QED  BY <3>1 DEF Blob!Next
  <2>2. CASE FinalizeCommit(r)
    <3>1. req[r].att \in Atts /\ akey[req[r].att] = NoKey
      BY <2>2 DEF FinalizeCommit, AttOwnership, OwnsAtt, TypeOK
    <3>2. req[r].key \in blobs  BY <2>2 DEF FinalizeCommit, KeyOwnership, Fresh
    <3>. QED  BY <2>2, <3>1, <3>2, PublishIsReference DEF FinalizeCommit
  <2>3. CASE CloneCommit(r)
    <3>1. req[r].att \in Atts /\ akey[req[r].att] = NoKey
      BY <2>3 DEF CloneCommit, AttOwnership, OwnsAtt, TypeOK
    <3>2. req[r].key \in Keys /\ \E a \in Atts : akey[a] = req[r].key
      BY <2>3 DEF CloneCommit, GuardedReference
    <3>3. req[r].key \in blobs
      BY <3>2 DEF AttOwnership, ReferencedBlobExists
    <3>. QED  BY <2>3, <3>1, <3>3, PublishIsReference DEF CloneCommit
  <2>4. CASE DeleteCommit(r)
    <3>1. req[r].att \in Atts  BY <2>4 DEF DeleteCommit, GuardedReference
    <3>. QED  BY <2>4, <3>1, DeleteRowIsUnreference DEF DeleteCommit
  <2>5. CASE UNCHANGED <<blobs, usedKeys, akey>>
    BY <2>5 DEF Blob!vars
  <2>. QED
    BY <1>1, <2>1, <2>2, <2>3, <2>4, <2>5
    DEF RequestStep, UploadCreate, FinalizeFail, FinalizeInDoubt, EnqueueCleanup,
        EnqueueCleanupFails, SourceUrlCreate, SourceUrlFail, SourceUrlUpdate,
        LinkAttachmentToEntry, CloneRegister, CloneRevalidate, DeleteLock, RequestCrash,
        AppendRead, DeleteRead, AdminDeleteLock
<1>2. ASSUME NEW w \in Workers, WorkerStep(w) PROVE [Blob!Next]_Blob!vars
  <2>1. CASE ProviderDelete(w)
    <3>1. worker[w].key \in Keys /\ Condemned(worker[w].key)
      BY <2>1 DEF ProviderDelete, GuardedReference, Condemned
    <3>. QED  BY <2>1, <3>1, CondemnedIsRemovable DEF ProviderDelete
  <2>2. CASE UNCHANGED <<blobs, usedKeys, akey>>
    BY <2>2 DEF Blob!vars
  <2>. QED
    BY <1>2, <2>1, <2>2
    DEF WorkerStep, Claim, PrepareCount, PrepareRetain, PrepareCommit, ProviderTimeout,
        Complete, WorkerError, FailTask, WorkerCrash
<1>3. ASSUME CleanupStep PROVE [Blob!Next]_Blob!vars
  <2>1. CASE CleanupCommit
    <3>1. clean.att \in Atts  BY <2>1 DEF CleanupCommit, TypeOK
    <3>. QED  BY <2>1, <3>1, DeleteRowIsUnreference DEF CleanupCommit
  <2>2. CASE UNCHANGED <<blobs, usedKeys, akey>>
    BY <2>2 DEF Blob!vars
  <2>. QED
    BY <1>3, <2>1, <2>2 DEF CleanupStep, CleanupList, CleanupCrash, CleanupLock
<1>4. ASSUME Environment PROVE [Blob!Next]_Blob!vars
  <2>1. ASSUME NEW k \in Keys, LateDelete(k) PROVE [Blob!Next]_Blob!vars
    <3>1. Condemned(k)  BY <2>1 DEF LateDelete, Condemned
    <3>. QED  BY <2>1, <3>1, CondemnedIsRemovable DEF LateDelete
  <2>2. ASSUME NEW d \in doubt, DoubtCommits(d) PROVE [Blob!Next]_Blob!vars
    <3>1. d.att \in Atts /\ akey[d.att] = NoKey  BY DEF TypeOK, AttOwnership
    <3>2. d.key \in blobs  BY DEF KeyOwnership, Fresh
    <3>. QED  BY <2>2, <3>1, <3>2, PublishIsReference DEF DoubtCommits
  <2>3. CASE UNCHANGED <<blobs, usedKeys, akey>>
    BY <2>3 DEF Blob!vars
  <2>. QED
    BY <1>4, <2>1, <2>2, <2>3 DEF Environment, Expire, RetryDue, DoubtAborts
<1>5. CASE UNCHANGED vars
  BY <1>5 DEF vars, Blob!vars
<1>. QED  BY <1>1, <1>2, <1>3, <1>4, <1>5 DEF Next

(* The statement-level protocol implements BlobStore: content is referenced *)
(* only while it exists and removed only while nothing references it.       *)
THEOREM BlobStoreRefinement == Spec => ImplementsBlobStore
<1>1. Init => Blob!Init  BY DEF Init, Blob!Init
<1>. QED  BY <1>1, Invariance, StepRefines, PTL DEF Spec, ImplementsBlobStore, Blob!Spec
=============================================================================
