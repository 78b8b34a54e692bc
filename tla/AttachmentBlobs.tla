-------------------------- MODULE AttachmentBlobs --------------------------
(***************************************************************************)
(* Attachments: metadata rows in PostgreSQL, content in a blob provider,   *)
(* and one "attachment_blob_delete" task row per storage key that guards   *)
(* the two against each other (registry/store/attachment_tasks.go,         *)
(* plugin/store/postgres/postgres.go, service/taskprocessor.go,            *)
(* service/attachment_cleanup.go, plugin/route/attachments).               *)
(*                                                                         *)
(* A request handler, a task worker and the cleanup job each run their     *)
(* database transactions statement by statement at READ COMMITTED: a       *)
(* statement reads what is committed, a row or task lock is held to the    *)
(* end of its transaction, writes appear at the commit.  An open           *)
(* transaction is the program counter of its process, so the locks are     *)
(* derived (RowLocked, TaskLocked) and crashing rolls back by itself.      *)
(***************************************************************************)
EXTENDS FiniteSets

CONSTANTS Atts,      \* attachment ids (fresh uuids: an id is used once)
          Keys,      \* storage keys (fresh per Store call: used once)
          Requests,  \* request goroutines: uploads, downloads, appends, deletes
          Workers,   \* task processors, possibly on several instances
          NoAtt, NoKey

ASSUME NoneAssumption == NoAtt \notin Atts /\ NoKey \notin Keys

VARIABLES
    rows,       \* committed attachment rows
    usedAtts,   \* ids given to a row, committed or not
    akey,       \* storage_key of each attachment
    linked,     \* attachments whose entry_id is set
    expired,    \* attachments whose expires_at has passed
    blobs,      \* keys whose content exists in the provider
    usedKeys,   \* keys the provider handed out
    lateDeletes,\* keys with a provider delete that outlived its caller
    task,       \* state of the task row of each key, "none" when absent
    ready,      \* keys whose task has retry_at <= now
    req,        \* request goroutines
    doubt,      \* transactions whose COMMIT outcome the client never learned
    worker,     \* task processors
    clean,      \* the cleanup job: ids still to delete, id locked by its tx
    orphans     \* history: keys whose cleanup request itself was lost

rowVars == <<rows, usedAtts, akey, linked, expired>>
blobVars == <<blobs, usedKeys, lateDeletes>>
taskVars == <<task, ready>>
vars == <<rowVars, blobVars, taskVars, req, doubt, worker, clean, orphans>>

ReqPcs == {"idle", "stored", "creating", "downloading", "fetched", "updating",
           "cleanup", "linkRead", "cloneRead", "cloneRegistered", "cloning",
           "deleteRead", "deleteLocked"}

WorkerPcs == {"idle", "claimed", "referenced", "unreferenced", "deleting",
              "completing", "failing"}

TaskStates == {"none", "referenced", "queued", "claimed"}

(* Every variable has its shape; a keyless or idle process holds no key. *)
TypeOK ==
    /\ rows \subseteq usedAtts /\ usedAtts \subseteq Atts
    /\ akey \in [Atts -> Keys \cup {NoKey}]
    /\ linked \subseteq Atts /\ expired \subseteq Atts
    /\ blobs \subseteq usedKeys /\ usedKeys \subseteq Keys
    /\ lateDeletes \subseteq Keys
    /\ task \in [Keys -> TaskStates]
    /\ ready \subseteq Keys
    /\ req \in [Requests -> [pc : ReqPcs, att : Atts \cup {NoAtt}, key : Keys \cup {NoKey}]]
    /\ doubt \subseteq [att : Atts, key : Keys]
    /\ worker \in [Workers -> [pc : WorkerPcs, key : Keys \cup {NoKey}, live : BOOLEAN]]
    /\ clean \in [todo : SUBSET Atts, att : Atts \cup {NoAtt}]
    /\ orphans \subseteq Keys

At(pc, a, k) == [pc |-> pc, att |-> a, key |-> k]
IdleReq == At("idle", NoAtt, NoKey)
IdleWorker == [pc |-> "idle", key |-> NoKey, live |-> FALSE]
IdleClean == [todo |-> {}, att |-> NoAtt]

Init ==
    /\ rows = {} /\ usedAtts = {} /\ linked = {} /\ expired = {}
    /\ akey = [a \in Atts |-> NoKey]
    /\ blobs = {} /\ usedKeys = {} /\ lateDeletes = {}
    /\ task = [k \in Keys |-> "none"]
    /\ ready = {}
    /\ req = [r \in Requests |-> IdleReq]
    /\ doubt = {}
    /\ worker = [w \in Workers |-> IdleWorker]
    /\ clean = IdleClean
    /\ orphans = {}

-----------------------------------------------------------------------------
(* Locks held by open transactions. *)

(* FOR UPDATE or an uncommitted UPDATE/DELETE of attachment a. *)
RowLocked(a) ==
    \/ \E r \in Requests : req[r].att = a /\ req[r].pc \in {"updating", "deleteLocked"}
    \/ \E d \in doubt : d.att = a
    \/ clean.att = a

(* An uncommitted upsert of the task named after k (the unique index on    *)
(* task_name makes a second upsert wait), or PrepareAttachmentBlobDelete's *)
(* FOR UPDATE.                                                             *)
TaskLocked_NoForUpdate(k) ==
    \/ \E r \in Requests : /\ req[r].key = k
                           /\ req[r].pc \in {"creating", "updating", "cloneRegistered", "cloning"}
    \/ \E d \in doubt : d.key = k

TaskLocked(k) ==
    \/ \E r \in Requests : /\ req[r].key = k
                           /\ req[r].pc \in {"creating", "updating", "cloneRegistered", "cloning"}
    \/ \E d \in doubt : d.key = k
    \/ \E w \in Workers : worker[w].key = k /\ worker[w].pc \in {"referenced", "unreferenced"}

(* Rows a statement counts for a storage key. *)
RowsWith(k) == {a \in rows : akey[a] = k}

-----------------------------------------------------------------------------
(* Task table. *)

(* RegisterAttachmentBlobReference succeeds unless a deletion is claimed. *)
CanRegister(k) == task[k] # "claimed"

Registered(k) == /\ task' = [task EXCEPT ![k] = "referenced"]
                 /\ ready' = ready \ {k}

(* QueueAttachmentBlobDelete: inserts or re-arms, never touches a pending one. *)
QueueBlobDelete(k) ==
    IF task[k] \in {"none", "referenced"}
      THEN /\ task' = [task EXCEPT ![k] = "queued"]
           /\ ready' = ready \cup {k}
      ELSE UNCHANGED taskVars

-----------------------------------------------------------------------------
(* Multipart upload: the content first, then its metadata row. *)

(* attachStore.Store returned a fresh storage key. *)
UploadStore(r) ==
    /\ req[r].pc = "idle"
    /\ \E k \in Keys \ usedKeys :
         /\ blobs' = blobs \cup {k}
         /\ usedKeys' = usedKeys \cup {k}
         /\ req' = [req EXCEPT ![r] = At("stored", NoAtt, k)]
    /\ UNCHANGED <<rowVars, lateDeletes, taskVars, doubt, worker, clean, orphans>>

(* CreateAttachment registers the reference and inserts the row, uncommitted. *)
UploadCreate_StaleId(r) ==
    /\ req[r].pc = "stored"
    /\ CanRegister(req[r].key) /\ ~TaskLocked(req[r].key)
    /\ \E a \in Atts : req' = [req EXCEPT ![r] = At("creating", a, @.key)]
    /\ UNCHANGED <<rowVars, blobVars, taskVars, doubt, worker, clean, orphans>>

UploadCreate(r) ==
    /\ req[r].pc = "stored"
    /\ CanRegister(req[r].key) /\ ~TaskLocked(req[r].key)
    /\ \E a \in Atts \ usedAtts :
         /\ usedAtts' = usedAtts \cup {a}
         /\ req' = [req EXCEPT ![r] = At("creating", a, @.key)]
    /\ UNCHANGED <<rows, akey, linked, expired, blobVars, taskVars, doubt, worker, clean, orphans>>

(* What the commit of a transaction that references k from row a publishes. *)
PublishReference(a, k) ==
    /\ rows' = rows \cup {a}
    /\ akey' = [akey EXCEPT ![a] = k]
    /\ Registered(k)

FinalizeCommit(r) ==
    /\ req[r].pc \in {"creating", "updating"}
    /\ PublishReference(req[r].att, req[r].key)
    /\ req' = [req EXCEPT ![r] = IdleReq]
    /\ UNCHANGED <<usedAtts, linked, expired, blobVars, doubt, worker, clean, orphans>>

(* The transaction rolled back: the handler goes on to enqueue the cleanup. *)
FinalizeFail(r) ==
    /\ req[r].pc \in {"stored", "creating", "fetched", "updating"}
    /\ req' = [req EXCEPT ![r] = At("cleanup", NoAtt, @.key)]
    /\ UNCHANGED <<rowVars, blobVars, taskVars, doubt, worker, clean, orphans>>

(* COMMIT was sent but the connection died: the handler sees an error while *)
(* the server still holds the transaction and will decide it on its own.    *)
FinalizeInDoubt(r) ==
    /\ req[r].pc \in {"creating", "updating"}
    /\ doubt' = doubt \cup {[att |-> req[r].att, key |-> req[r].key]}
    /\ req' = [req EXCEPT ![r] = At("cleanup", NoAtt, @.key)]
    /\ UNCHANGED <<rowVars, blobVars, taskVars, worker, clean, orphans>>

DoubtCommits(d) ==
    /\ d \in doubt
    /\ PublishReference(d.att, d.key)
    /\ doubt' = doubt \ {d}
    /\ UNCHANGED <<usedAtts, linked, expired, blobVars, req, worker, clean, orphans>>

DoubtAborts(d) ==
    /\ d \in doubt
    /\ doubt' = doubt \ {d}
    /\ UNCHANGED <<rowVars, blobVars, taskVars, req, worker, clean, orphans>>

(* EnqueueAttachmentBlobDeleteAfterFinalizationFailure *)
EnqueueCleanup(r) ==
    /\ req[r].pc = "cleanup"
    /\ ~TaskLocked(req[r].key)
    /\ QueueBlobDelete(req[r].key)
    /\ req' = [req EXCEPT ![r] = IdleReq]
    /\ UNCHANGED <<rowVars, blobVars, doubt, worker, clean, orphans>>

(* Its five seconds ran out, or the database refused: only a log line is left. *)
EnqueueCleanupFails(r) ==
    /\ req[r].pc = "cleanup"
    /\ req' = [req EXCEPT ![r] = IdleReq]
    /\ orphans' = orphans \cup {req[r].key}
    /\ UNCHANGED <<rowVars, blobVars, taskVars, doubt, worker, clean>>

-----------------------------------------------------------------------------
(* Source-URL upload: the row first ("downloading"), its content later. *)

SourceUrlCreate(r) ==
    /\ req[r].pc = "idle"
    /\ \E a \in Atts \ usedAtts :
         /\ usedAtts' = usedAtts \cup {a}
         /\ rows' = rows \cup {a}
         /\ req' = [req EXCEPT ![r] = At("downloading", a, NoKey)]
    /\ UNCHANGED <<akey, linked, expired, blobVars, taskVars, doubt, worker, clean, orphans>>

(* Download or Store failed: the row is marked failed and keeps no key. *)
SourceUrlFail(r) ==
    /\ req[r].pc = "downloading"
    /\ req' = [req EXCEPT ![r] = IdleReq]
    /\ UNCHANGED <<rowVars, blobVars, taskVars, doubt, worker, clean, orphans>>

SourceUrlStore(r) ==
    /\ req[r].pc = "downloading"
    /\ \E k \in Keys \ usedKeys :
         /\ blobs' = blobs \cup {k}
         /\ usedKeys' = usedKeys \cup {k}
         /\ req' = [req EXCEPT ![r] = At("fetched", @.att, k)]
    /\ UNCHANGED <<rowVars, lateDeletes, taskVars, doubt, worker, clean, orphans>>

(* UpdateAttachment: the row must still be there when its lock is obtained; *)
(* otherwise the transaction fails (FinalizeFail).                          *)
SourceUrlUpdate(r) ==
    /\ req[r].pc = "fetched"
    /\ req[r].att \in rows
    /\ ~RowLocked(req[r].att)
    /\ CanRegister(req[r].key) /\ ~TaskLocked(req[r].key)
    /\ req' = [req EXCEPT ![r].pc = "updating"]
    /\ UNCHANGED <<rowVars, blobVars, taskVars, doubt, worker, clean, orphans>>

-----------------------------------------------------------------------------
(* Appending an entry that names an attachment (resolveAttachmentRefs):     *)
(* an unlinked one is linked, a linked one is cloned and the clone linked.  *)

AppendRead(r, a) ==
    /\ req[r].pc = "idle"
    /\ a \in rows
    /\ \/ /\ a \notin linked
          /\ req' = [req EXCEPT ![r] = At("linkRead", a, NoKey)]
       \/ /\ a \in linked /\ akey[a] # NoKey
          /\ req' = [req EXCEPT ![r] = At("cloneRead", a, akey[a])]
    /\ UNCHANGED <<rowVars, blobVars, taskVars, doubt, worker, clean, orphans>>

(* LinkAttachmentToEntry sets entry_id only where it is null; the append   *)
(* rolls back when the row is gone or belongs to another entry.            *)
LinkAttachmentToEntry(r) ==
    /\ req[r].pc = "linkRead"
    /\ ~RowLocked(req[r].att)
    /\ linked' = IF req[r].att \in rows THEN linked \cup {req[r].att} ELSE linked
    /\ req' = [req EXCEPT ![r] = IdleReq]
    /\ UNCHANGED <<rows, usedAtts, akey, expired, blobVars, taskVars, doubt, worker, clean, orphans>>

(* CloneAttachment upserts the guard; a claimed one is a conflict. *)
CloneRegister(r) ==
    /\ req[r].pc = "cloneRead"
    /\ ~TaskLocked(req[r].key)
    /\ req' = [req EXCEPT ![r] = IF CanRegister(req[r].key)
                                   THEN At("cloneRegistered", @.att, @.key)
                                   ELSE IdleReq]
    /\ UNCHANGED <<rowVars, blobVars, taskVars, doubt, worker, clean, orphans>>

(* The source is read again under the guard; without it the clone rolls back. *)
CloneRevalidate_NoReread(r) ==
    /\ req[r].pc = "cloneRegistered"
    /\ \E a \in Atts \ usedAtts :
         /\ usedAtts' = usedAtts \cup {a}
         /\ req' = [req EXCEPT ![r] = At("cloning", a, @.key)]
    /\ UNCHANGED <<rows, akey, linked, expired, blobVars, taskVars, doubt, worker, clean, orphans>>

CloneRevalidate(r) ==
    /\ req[r].pc = "cloneRegistered"
    /\ \/ /\ req[r].att \in rows
          /\ \E a \in Atts \ usedAtts :
               /\ usedAtts' = usedAtts \cup {a}
               /\ req' = [req EXCEPT ![r] = At("cloning", a, @.key)]
       \/ /\ req[r].att \notin rows
          /\ req' = [req EXCEPT ![r] = IdleReq]
          /\ UNCHANGED usedAtts
    /\ UNCHANGED <<rows, akey, linked, expired, blobVars, taskVars, doubt, worker, clean, orphans>>

(* The append that made the clone links it in the same transaction. *)
CloneCommit(r) ==
    /\ req[r].pc = "cloning"
    /\ PublishReference(req[r].att, req[r].key)
    /\ linked' = linked \cup {req[r].att}
    /\ req' = [req EXCEPT ![r] = IdleReq]
    /\ UNCHANGED <<usedAtts, expired, blobVars, doubt, worker, clean, orphans>>

-----------------------------------------------------------------------------
(* Deleting metadata: the row goes and its content is queued, in one tx. *)

(* DeleteAttachment's authorization read takes no lock. *)
DeleteRead(r, a) ==
    /\ req[r].pc = "idle"
    /\ a \in rows
    /\ req' = [req EXCEPT ![r] = At("deleteRead", a, NoKey)]
    /\ UNCHANGED <<rowVars, blobVars, taskVars, doubt, worker, clean, orphans>>

(* Its second, locking read: gone is NotFound, linked is a conflict. *)
DeleteLock(r) ==
    /\ req[r].pc = "deleteRead"
    /\ ~RowLocked(req[r].att)
    /\ req' = [req EXCEPT ![r] = IF req[r].att \in rows \ linked
                                   THEN At("deleteLocked", @.att, @.key)
                                   ELSE IdleReq]
    /\ UNCHANGED <<rowVars, blobVars, taskVars, doubt, worker, clean, orphans>>

(* AdminDeleteAttachment from the admin API locks any row, linked or not. *)
AdminDeleteLock(r, a) ==
    /\ req[r].pc = "idle"
    /\ a \in rows
    /\ ~RowLocked(a)
    /\ req' = [req EXCEPT ![r] = At("deleteLocked", a, NoKey)]
    /\ UNCHANGED <<rowVars, blobVars, taskVars, doubt, worker, clean, orphans>>

(* Delete the row under its lock, queue its key if it has one, commit. *)
DeleteRow(a) ==
    /\ rows' = rows \ {a}
    /\ akey' = [akey EXCEPT ![a] = NoKey]
    /\ linked' = linked \ {a}
    /\ expired' = expired \ {a}
    /\ IF akey[a] = NoKey
         THEN UNCHANGED taskVars
         ELSE ~TaskLocked(akey[a]) /\ QueueBlobDelete(akey[a])

DeleteCommit(r) ==
    /\ req[r].pc = "deleteLocked"
    /\ DeleteRow(req[r].att)
    /\ req' = [req EXCEPT ![r] = IdleReq]
    /\ UNCHANGED <<usedAtts, blobVars, doubt, worker, clean, orphans>>

(* expires_at passes. *)
Expire(a) ==
    /\ a \in rows \ expired
    /\ expired' = expired \cup {a}
    /\ UNCHANGED <<rows, usedAtts, akey, linked, blobVars, taskVars, req, doubt, worker, clean, orphans>>

(* AttachmentCleanupService lists the expired attachments in a read         *)
(* transaction and keeps those it saw unlinked ...                          *)
CleanupList ==
    /\ clean = IdleClean
    /\ clean' = [clean EXCEPT !.todo = (rows \cap expired) \ linked]
    /\ clean'.todo # {}
    /\ UNCHANGED <<rowVars, blobVars, taskVars, req, doubt, worker, orphans>>

(* ... then AdminDeleteAttachment runs for each in a transaction of its own. *)
CleanupLock(a) ==
    /\ a \in clean.todo /\ clean.att = NoAtt
    /\ ~RowLocked(a)
    /\ clean' = [todo |-> clean.todo \ {a}, att |-> IF a \in rows THEN a ELSE NoAtt]
    /\ UNCHANGED <<rowVars, blobVars, taskVars, req, doubt, worker, orphans>>

CleanupCommit ==
    /\ clean.att # NoAtt
    /\ DeleteRow(clean.att)
    /\ clean' = [clean EXCEPT !.att = NoAtt]
    /\ UNCHANGED <<usedAtts, blobVars, req, doubt, worker, orphans>>

-----------------------------------------------------------------------------
(* The task processor. *)

(* A lease or a retry delay runs out; no clock, so it may race the attempt. *)
RetryDue(k) ==
    /\ task[k] \in {"queued", "claimed"} /\ k \notin ready
    /\ ready' = ready \cup {k}
    /\ UNCHANGED <<rowVars, blobVars, task, req, doubt, worker, clean, orphans>>

(* ClaimReadyTasks, FOR UPDATE SKIP LOCKED. *)
Claim_QueuedOnly(w, k) ==
    /\ worker[w].pc = "idle"
    /\ task[k] = "queued" /\ k \in ready /\ ~TaskLocked(k)
    /\ task' = [task EXCEPT ![k] = "claimed"]
    /\ ready' = ready \ {k}
    /\ worker' = [worker EXCEPT ![w] = [pc |-> "claimed", key |-> k, live |-> TRUE]]
    /\ UNCHANGED <<rowVars, blobVars, req, doubt, clean, orphans>>

Claim(w, k) ==
    /\ worker[w].pc = "idle"
    /\ task[k] \in {"queued", "claimed"} /\ k \in ready /\ ~TaskLocked(k)
    /\ task' = [task EXCEPT ![k] = "claimed"]
    /\ ready' = ready \ {k}
    /\ worker' = [worker EXCEPT ![w] = [pc |-> "claimed", key |-> k, live |-> TRUE]]
    /\ UNCHANGED <<rowVars, blobVars, req, doubt, clean, orphans>>

(* PrepareAttachmentBlobDelete locks the task it claimed and counts rows; a *)
(* task that is gone or no longer claimed is an error.                      *)
PrepareCount_NoCount(w) ==
    /\ worker[w].pc = "claimed"
    /\ ~TaskLocked(worker[w].key)
    /\ worker' = [worker EXCEPT ![w].pc =
         IF ~worker[w].live \/ task[worker[w].key] # "claimed" THEN "failing" ELSE "unreferenced"]
    /\ UNCHANGED <<rowVars, blobVars, taskVars, req, doubt, clean, orphans>>

PrepareCount(w) ==
    /\ worker[w].pc = "claimed"
    /\ ~TaskLocked(worker[w].key)
    /\ worker' = [worker EXCEPT ![w].pc =
         IF ~worker[w].live \/ task[worker[w].key] # "claimed" THEN "failing"
         ELSE IF RowsWith(worker[w].key) # {} THEN "referenced" ELSE "unreferenced"]
    /\ UNCHANGED <<rowVars, blobVars, taskVars, req, doubt, clean, orphans>>

(* A key still referenced gets its guard back and the task is retained. *)
PrepareRetain(w) ==
    /\ worker[w].pc = "referenced"
    /\ Registered(worker[w].key)
    /\ worker' = [worker EXCEPT ![w] = IdleWorker]
    /\ UNCHANGED <<rowVars, blobVars, req, doubt, clean, orphans>>

PrepareCommit(w) ==
    /\ worker[w].pc = "unreferenced"
    /\ worker' = [worker EXCEPT ![w].pc = "deleting"]
    /\ UNCHANGED <<rowVars, blobVars, taskVars, req, doubt, clean, orphans>>

(* The provider deletes; deleting what is already gone succeeds. *)
ProviderDelete(w) ==
    /\ worker[w].pc = "deleting"
    /\ blobs' = blobs \ {worker[w].key}
    /\ worker' = [worker EXCEPT ![w].pc = "completing"]
    /\ UNCHANGED <<rowVars, usedKeys, lateDeletes, taskVars, req, doubt, clean, orphans>>

(* The call times out or fails on the way back: it may still take effect. *)
ProviderTimeout(w) ==
    /\ worker[w].pc = "deleting"
    /\ lateDeletes' = lateDeletes \cup {worker[w].key}
    /\ worker' = [worker EXCEPT ![w].pc = "failing"]
    /\ UNCHANGED <<rowVars, blobs, usedKeys, taskVars, req, doubt, clean, orphans>>

LateDelete(k) ==
    /\ k \in lateDeletes
    /\ blobs' = blobs \ {k}
    /\ lateDeletes' = lateDeletes \ {k}
    /\ UNCHANGED <<rowVars, usedKeys, taskVars, req, doubt, worker, clean, orphans>>

(* CompleteAttachmentBlobDelete deletes the task row by id; a row that is   *)
(* gone is a completion error, which leaves everything to the lease.        *)
Complete(w) ==
    /\ worker[w].pc = "completing"
    /\ IF worker[w].live
         THEN /\ ~TaskLocked(worker[w].key)
              /\ task' = [task EXCEPT ![worker[w].key] = "none"]
              /\ ready' = ready \ {worker[w].key}
              /\ worker' = [v \in Workers |->
                   IF v = w THEN IdleWorker
                   ELSE IF worker[v].key = worker[w].key THEN [pc |-> worker[v].pc, key |-> worker[v].key, live |-> FALSE]
                   ELSE worker[v]]
         ELSE /\ worker' = [worker EXCEPT ![w] = IdleWorker]
              /\ UNCHANGED taskVars
    /\ UNCHANGED <<rowVars, blobVars, req, doubt, clean, orphans>>

(* A statement of the attempt failed (database error or attempt timeout). *)
WorkerError(w) ==
    /\ worker[w].pc \in {"claimed", "referenced", "unreferenced", "deleting"}
    /\ worker' = [worker EXCEPT ![w].pc = "failing"]
    /\ UNCHANGED <<rowVars, blobVars, taskVars, req, doubt, clean, orphans>>

(* FailTask postpones the task and leaves its state alone. *)
FailTask_Requeue(w) ==
    /\ worker[w].pc = "failing"
    /\ ~worker[w].live \/ ~TaskLocked(worker[w].key)
    /\ IF worker[w].live
         THEN /\ ready' = ready \ {worker[w].key}
              /\ task' = [task EXCEPT ![worker[w].key] = "queued"]
         ELSE UNCHANGED taskVars
    /\ worker' = [worker EXCEPT ![w] = IdleWorker]
    /\ UNCHANGED <<rowVars, blobVars, req, doubt, clean, orphans>>

FailTask(w) ==
    /\ worker[w].pc = "failing"
    /\ ~worker[w].live \/ ~TaskLocked(worker[w].key)
    /\ ready' = IF worker[w].live THEN ready \ {worker[w].key} ELSE ready
    /\ worker' = [worker EXCEPT ![w] = IdleWorker]
    /\ UNCHANGED <<rowVars, blobVars, task, req, doubt, clean, orphans>>

-----------------------------------------------------------------------------
(* Crashes: what was not committed is gone, the task table survives. *)

(* Phases in which stored content has no durable owner. *)
Unowned(r) == req[r].pc \in {"stored", "creating", "fetched", "updating", "cleanup"}

RequestCrash(r) ==
    /\ req[r].pc # "idle"
    /\ orphans' = IF Unowned(r) THEN orphans \cup {req[r].key} ELSE orphans
    /\ req' = [req EXCEPT ![r] = IdleReq]
    /\ UNCHANGED <<rowVars, blobVars, taskVars, doubt, worker, clean>>

WorkerCrash(w) ==
    /\ worker[w].pc # "idle"
    /\ worker' = [worker EXCEPT ![w] = IdleWorker]
    /\ UNCHANGED <<rowVars, blobVars, taskVars, req, doubt, clean, orphans>>

CleanupCrash ==
    /\ clean # IdleClean
    /\ clean' = IdleClean
    /\ UNCHANGED <<rowVars, blobVars, taskVars, req, doubt, worker, orphans>>

-----------------------------------------------------------------------------
RequestStep(r) ==
    \/ UploadStore(r) \/ UploadCreate(r)
    \/ FinalizeCommit(r) \/ FinalizeFail(r) \/ FinalizeInDoubt(r)
    \/ EnqueueCleanup(r) \/ EnqueueCleanupFails(r)
    \/ SourceUrlCreate(r) \/ SourceUrlFail(r) \/ SourceUrlStore(r) \/ SourceUrlUpdate(r)
    \/ LinkAttachmentToEntry(r)
    \/ CloneRegister(r) \/ CloneRevalidate(r) \/ CloneCommit(r)
    \/ DeleteLock(r) \/ DeleteCommit(r) \/ RequestCrash(r)
    \/ \E a \in Atts : AppendRead(r, a) \/ DeleteRead(r, a) \/ AdminDeleteLock(r, a)

WorkerStep(w) ==
    \/ \E k \in Keys : Claim(w, k)
    \/ PrepareCount(w) \/ PrepareRetain(w) \/ PrepareCommit(w)
    \/ ProviderDelete(w) \/ ProviderTimeout(w) \/ Complete(w)
    \/ WorkerError(w) \/ FailTask(w) \/ WorkerCrash(w)

CleanupStep == CleanupList \/ CleanupCommit \/ CleanupCrash
               \/ \E a \in Atts : CleanupLock(a)

Environment == \/ \E a \in Atts : Expire(a)
               \/ \E k \in Keys : RetryDue(k) \/ LateDelete(k)
               \/ \E d \in doubt : DoubtCommits(d) \/ DoubtAborts(d)

Next == \/ \E r \in Requests : RequestStep(r)
        \/ \E w \in Workers : WorkerStep(w)
        \/ CleanupStep
        \/ Environment

Spec == Init /\ [][Next]_vars

-----------------------------------------------------------------------------
(* Properties. *)

(* A committed attachment row that names a storage key has its content: no  *)
(* interleaving of uploads, clones, deletes, cleanup and (overlapping, late *)
(* or repeated) worker attempts deletes a blob some row still references.   *)
ReferencedBlobExists ==
    \A a \in rows : akey[a] # NoKey => akey[a] \in blobs

(* Once a worker decided that a key is unreferenced, and for as long as its *)
(* provider call or its late effect may still happen, no row, no open       *)
(* transaction and no unfinished upload holds that key; while the worker's  *)
(* task row exists it stays claimed, which keeps new references out.        *)
Condemned(k) ==
    \/ k \in lateDeletes
    \/ \E w \in Workers : worker[w].key = k /\ worker[w].pc \in {"unreferenced", "deleting", "completing"}

DeleteExclusion ==
    /\ \A k \in Keys : Condemned(k) =>
         /\ RowsWith(k) = {}
         /\ \A d \in doubt : d.key # k
         /\ \A r \in Requests : req[r].key = k =>
              req[r].pc \notin {"stored", "creating", "fetched", "updating", "cloning"}
    /\ \A w \in Workers :
         worker[w].live /\ worker[w].pc \in {"unreferenced", "deleting", "completing"}
           => task[worker[w].key] = "claimed"

(* Content is never forgotten: every blob is referenced by a row, or still  *)
(* in the hands of the request that stored it, or scheduled for deletion,   *)
(* or its request crashed or failed to write the cleanup task.              *)
NoLostCleanup ==
    \A k \in blobs :
      \/ RowsWith(k) # {}
      \/ \E r \in Requests : req[r].key = k /\ Unowned(r)
      \/ task[k] \in {"queued", "claimed"}
      \/ k \in orphans

(* The rows, the provider and nothing else: what BlobStore promises. *)
Blob == INSTANCE BlobStore WITH refs <- akey

(* Every step references existing content, removes unreferenced content,    *)
(* or changes neither: the detailed protocol implements BlobStore.          *)
ImplementsBlobStore == Blob!Spec

-----------------------------------------------------------------------------
(* The inductive invariant behind ReferencedBlobExists, DeleteExclusion,    *)
(* NoLostCleanup and the refinement.                                        *)

(* An id names one row: whoever is still to commit a reference from it is   *)
(* alone with it, and until then it references nothing.                     *)
OwnsAtt(r) == req[r].pc \in {"creating", "cloning", "downloading", "fetched", "updating"}

AttOwnership ==
    /\ \A a \in Atts \ rows : akey[a] = NoKey
    /\ \A r \in Requests : OwnsAtt(r) =>
         /\ req[r].att \in usedAtts /\ akey[req[r].att] = NoKey
         /\ \A s \in Requests \ {r} : OwnsAtt(s) => req[s].att # req[r].att
         /\ \A d \in doubt : d.att # req[r].att
    /\ \A d \in doubt : d.att \in usedAtts /\ akey[d.att] = NoKey
    /\ \A d, e \in doubt : d.att = e.att => d = e
    /\ \A s \in Requests : req[s].pc \in {"cloneRead", "cloneRegistered"} =>
         /\ req[s].att \in usedAtts
         /\ \A r \in Requests : OwnsAtt(r) => req[r].att # req[s].att
         /\ \A d \in doubt : d.att # req[s].att

(* A key only its uploader knows: content there, nothing else about it. *)
Fresh(k) ==
    /\ k \in blobs /\ k \notin lateDeletes
    /\ task[k] = "none"
    /\ \A a \in Atts : akey[a] # k
    /\ \A w \in Workers : worker[w].key # k

KeyOwnership ==
    /\ \A r \in Requests : req[r].pc \in {"stored", "creating", "fetched", "updating"} =>
         /\ Fresh(req[r].key)
         /\ \A s \in Requests \ {r} : req[s].key # req[r].key
         /\ \A d \in doubt : d.key # req[r].key
    /\ \A d \in doubt :
         /\ Fresh(d.key)
         /\ \A r \in Requests : req[r].key = d.key => req[r].pc = "cleanup"
    /\ \A d, e \in doubt : d.key = e.key => d = e

(* Nothing mentions a key the provider has not handed out. *)
KeysAreUsed ==
    /\ \A a \in Atts : akey[a] \in usedKeys \cup {NoKey}
    /\ \A r \in Requests : req[r].key \in usedKeys \cup {NoKey}
    /\ \A d \in doubt : d.key \in usedKeys
    /\ \A w \in Workers : worker[w].key \in usedKeys \cup {NoKey}
    /\ lateDeletes \subseteq usedKeys
    /\ \A k \in Keys : task[k] # "none" => k \in usedKeys

(* Under its guard a clone has a live source, and so has a retained key. *)
GuardedReference ==
    /\ \A r \in Requests :
         /\ req[r].pc \in {"linkRead", "deleteRead", "deleteLocked"} => req[r].att \in Atts
         /\ req[r].pc \in {"cleanup", "cloneRead", "cloneRegistered", "cloning"} => req[r].key \in Keys
         /\ req[r].pc \in {"cloneRead", "cloneRegistered"} /\ req[r].att \in rows
              => akey[req[r].att] = req[r].key
         /\ req[r].pc = "cloning" => \E a \in Atts : akey[a] = req[r].key
    /\ \A w \in Workers :
         /\ worker[w].pc # "idle" => worker[w].key \in Keys
         /\ worker[w].pc = "referenced" => \E a \in Atts : akey[a] = worker[w].key
         /\ worker[w].pc = "completing" => worker[w].key \notin blobs

IndInv == /\ TypeOK /\ AttOwnership /\ KeyOwnership /\ KeysAreUsed /\ GuardedReference
          /\ ReferencedBlobExists /\ DeleteExclusion /\ NoLostCleanup

-----------------------------------------------------------------------------
(* Fairness: the task processor polls forever and its database answers; a   *)
(* provider that is asked again and again eventually answers. Requests may  *)
(* stop anywhere, and crashes and errors may go on forever, but not at the  *)
(* same statement every time.                                               *)
Fairness ==
    /\ \A d \in [att : Atts, key : Keys] : WF_vars(DoubtCommits(d) \/ DoubtAborts(d))
    /\ \A r \in Requests :
         WF_vars(/\ TaskLocked(req[r].key)
                 /\ \/ FinalizeCommit(r) \/ FinalizeFail(r)
                    \/ CloneRevalidate(r) \/ CloneCommit(r) \/ RequestCrash(r))
    /\ \A k \in Keys : WF_vars(RetryDue(k))
    /\ \A w \in Workers :
         /\ \A k \in Keys : SF_vars(Claim(w, k))
         /\ WF_vars(FailTask(w))
         /\ SF_vars(PrepareCount(w))
         /\ SF_vars(PrepareRetain(w) \/ PrepareCommit(w))
         /\ SF_vars(ProviderDelete(w))
         /\ SF_vars(Complete(w))

FairSpec == Spec /\ Fairness

(* A deletion that was queued or claimed does not stay so for ever: the     *)
(* content and the task go, or the worker finds the key referenced again.   *)
DeletionSettles ==
    \A k \in Keys : task[k] \in {"queued", "claimed"}
                      ~> (task[k] = "referenced" \/ (task[k] = "none" /\ k \notin blobs))
=============================================================================
