---------------------------- MODULE FileLifecycle ----------------------------
(***************************************************************************)
(* Uploaded files: a row in the table file_uploads and an object in        *)
(* Cloudflare R2, which no transaction ties together.  Clients upload       *)
(* straight to the storage with a presigned URL; the server issues the URL, *)
(* marks the row, and deletes.  Jobs of the queue file-cleanup, on every    *)
(* replica, collect what was left behind.                                   *)
(*                                                                         *)
(* An action is the code between two awaits: one query, or one storage     *)
(* command.  TypeORM's save() looks the row up and inserts it again when it *)
(* is gone, which is why a save can bring a deleted row back.               *)
(*                                                                         *)
(* The generic POST /file-uploads is left out: what the CRUD library does   *)
(* with the context its hooks fill is not in this repository.               *)
(***************************************************************************)
EXTENDS Naturals, FiniteSets

CONSTANTS
    Files,      \* uploads; numbers, because the storage lists keys in order
    Requests,   \* REST requests in progress at one time
    Workers,    \* replicas, each with one job of the queue at a time
    Folders,    \* folders of the storage settings, "temp" and "uploads" among them
    ListLimit,  \* keys a listing returns (100)
    BatchLimit, \* rows a loop of the job visits (100; 50 orphans)
    NoFile      \* "none"

ASSUME FileAssumption ==
    /\ Files \subseteq Nat
    /\ NoFile \notin Files
    /\ {ListLimit, BatchLimit} \subseteq Nat \ {0}

VARIABLES
    row,        \* status of the row, "none" without one
    object,     \* files whose key has an object in the storage
    folder,     \* folder of the row, and prefix of the key
    age,        \* how long ago the URL was issued and the row created
    putting,    \* uploads under way
    req,        \* where each request is, and on which file
    phase,      \* where each worker's job is
    todo,       \* what the loop of the job has still to visit
    current,    \* file whose object the job deleted, the row being next
    doubtful,   \* history: completed without an object, or while it was being deleted
    leaked      \* history: object left, by a failure or a late upload, without a row

files == <<row, object, folder, age, putting>>
jobs == <<phase, todo, current>>
history == <<doubtful, leaked>>
vars == <<files, req, jobs, history>>

Statuses == {"none", "pending", "completed", "failed"}

(* Ages, in order.  A URL is valid for five minutes. *)
NotIssued == 0
UrlValid == 1
UrlExpired == 2
DayOld == 3
WeekOld == 4

Steps == {"cancelDelete", "cancelFind", "cancelSave", "completeSave",
          "destroyRow", "destroyObject"}

Idle == [step |-> "idle", file |-> NoFile]

Phases == {"idle", "failed", "temp", "listed", "orphans"}

TypeOK ==
    /\ row \in [Files -> Statuses]
    /\ object \subseteq Files
    /\ folder \in [Files -> Folders]
    /\ age \in [Files -> NotIssued .. WeekOld]
    /\ putting \subseteq Files
    /\ req \in [Requests -> [step : Steps, file : Files] \cup {Idle}]
    /\ phase \in [Workers -> Phases]
    /\ todo \in [Workers -> SUBSET Files]
    /\ current \in [Workers -> Files \cup {NoFile}]
    /\ doubtful \subseteq Files
    /\ leaked \subseteq Files

Init ==
    /\ row = [f \in Files |-> "none"]
    /\ object = {}
    /\ folder \in [Files -> Folders]
    /\ age = [f \in Files |-> NotIssued]
    /\ putting = {}
    /\ req = [r \in Requests |-> Idle]
    /\ phase = [w \in Workers |-> "idle"]
    /\ todo = [w \in Workers |-> {}]
    /\ current = [w \in Workers |-> NoFile]
    /\ doubtful = {}
    /\ leaked = {}

(***************************************************************************)
(* Uploading.                                                              *)
(***************************************************************************)

(* POST presigned-url: the row is saved before the URL is answered. *)
GetPresignedUploadUrl(f) ==
    /\ age[f] = NotIssued
    /\ row' = [row EXCEPT ![f] = "pending"]
    /\ age' = [age EXCEPT ![f] = UrlValid]
    /\ UNCHANGED <<object, folder, putting, req, jobs, history>>

(* The client's PUT begins while the URL is valid, and may end later. *)
PutBegins(f) ==
    /\ age[f] = UrlValid
    /\ putting' = putting \cup {f}
    /\ UNCHANGED <<row, object, folder, age, req, jobs, history>>

PutEnds(f) ==
    /\ f \in putting
    /\ putting' = putting \ {f}
    /\ \/ /\ object' = object \cup {f}
          /\ leaked' = IF row[f] = "none" THEN leaked \cup {f} ELSE leaked
       \/ UNCHANGED <<object, leaked>>
    /\ UNCHANGED <<row, folder, age, req, jobs, doubtful>>

(* No upload lasts a day. *)
TimePasses(f) ==
    /\ age[f] \in UrlValid .. DayOld
    /\ age[f] >= UrlExpired => f \notin putting
    /\ age' = [age EXCEPT ![f] = @ + 1]
    /\ UNCHANGED <<row, object, folder, putting, req, jobs, history>>

(***************************************************************************)
(* Requests.  The owner check only tells whose request it is.              *)
(***************************************************************************)
Begin(r, f, step) ==
    /\ req[r] = Idle
    /\ req' = [req EXCEPT ![r] = [step |-> step, file |-> f]]

GoOn(r, from, to) ==
    /\ req[r].step = from
    /\ req' = [req EXCEPT ![r].step = to]

Finish(r, from) ==
    /\ req[r].step = from
    /\ req' = [req EXCEPT ![r] = Idle]

DeleteObject(f) ==
    /\ object' = object \ {f}
    /\ leaked' = leaked \ {f}

(* Variant: the status is not looked at. *)
CancelAnything(r, f) ==
    /\ row[f] # "none"
    /\ Begin(r, f, "cancelDelete")
    /\ UNCHANGED <<files, jobs, history>>

(* DELETE :id/cancel reads the row and refuses a completed upload. *)
CancelUpload(r, f) ==
    /\ row[f] \in {"pending", "failed"}
    /\ Begin(r, f, "cancelDelete")
    /\ UNCHANGED <<files, jobs, history>>

(* A failure of the storage is logged and the cancellation goes on. *)
CancelDelete(r) ==
    /\ GoOn(r, "cancelDelete", "cancelFind")
    /\ DeleteObject(req[r].file) \/ UNCHANGED <<object, leaked>>
    /\ UNCHANGED <<row, folder, age, putting, jobs, doubtful>>

(* updateStatus reads the row again, without looking at its status ... *)
CancelFind(r) ==
    /\ \/ Finish(r, "cancelFind") /\ row[req[r].file] = "none"
       \/ GoOn(r, "cancelFind", "cancelSave") /\ row[req[r].file] # "none"
    /\ UNCHANGED <<files, jobs, history>>

(* Variant: a status the enum has not. *)
CancelSaveCancelled(r) ==
    /\ Finish(r, "cancelSave")
    /\ row' = [row EXCEPT ![req[r].file] = "cancelled"]
    /\ UNCHANGED <<object, folder, age, putting, jobs, history>>

(* ... and saves it as failed. *)
CancelSave(r) ==
    /\ Finish(r, "cancelSave")
    /\ row' = [row EXCEPT ![req[r].file] = "failed"]
    /\ UNCHANGED <<object, folder, age, putting, jobs, history>>

(* POST complete: the row must exist and have the key; neither its status *)
(* nor the storage is asked.                                               *)
CompleteUpload(r, f) ==
    /\ row[f] # "none"
    /\ Begin(r, f, "completeSave")
    /\ UNCHANGED <<files, jobs, history>>

(* Somebody who found the file deletable is about to delete its object. *)
BeingDeleted(f) ==
    \/ \E r \in Requests : /\ req[r].file = f
                           /\ req[r].step \in {"cancelDelete", "destroyObject"}
    \/ \E w \in Workers : /\ f \in todo[w]
                          /\ phase[w] \in {"failed", "orphans"}

CompleteSave(r) ==
    LET f == req[r].file IN
    /\ Finish(r, "completeSave")
    /\ row' = [row EXCEPT ![f] = "completed"]
    /\ doubtful' = IF f \notin object \/ BeingDeleted(f)
                   THEN doubtful \cup {f} ELSE doubtful \ {f}
    /\ UNCHANGED <<object, folder, age, putting, jobs, leaked>>

(* DELETE :id: the library reads the row and asks beforeDestroy ... *)
Destroy(r, f) ==
    /\ row[f] # "none"
    /\ Begin(r, f, "destroyRow")
    /\ UNCHANGED <<files, jobs, history>>

(* ... removes it ... *)
DestroyRow(r) ==
    /\ GoOn(r, "destroyRow", "destroyObject")
    /\ row' = [row EXCEPT ![req[r].file] = "none"]
    /\ UNCHANGED <<object, folder, age, putting, jobs, history>>

(* The object is left without a row by something that went wrong. *)
Leak(f) ==
    leaked' = IF f \in object /\ row[f] = "none" THEN leaked \cup {f} ELSE leaked

(* ... and afterDestroy starts the deletion of the object.  Nobody waits for *)
(* it; its failure is logged.                                                *)
DestroyObject(r) ==
    LET f == req[r].file IN
    /\ Finish(r, "destroyObject")
    /\ \/ DeleteObject(f)
       \/ Leak(f) /\ UNCHANGED object
    /\ UNCHANGED <<row, folder, age, putting, jobs, doubtful>>

(* An error of the database, or the end of the process. *)
RequestDies(r) ==
    /\ req[r] # Idle
    /\ req' = [req EXCEPT ![r] = Idle]
    /\ IF req[r].step = "destroyObject"
       THEN Leak(req[r].file) ELSE UNCHANGED leaked
    /\ UNCHANGED <<files, jobs, doubtful>>

(***************************************************************************)
(* The job cleanup-large-files.  The job cleanup-failed-uploads is its      *)
(* first loop, and so a job that ends early.                               *)
(***************************************************************************)
(* Variant: pending for failed. *)
Unfinished == {f \in Files : row[f] = "pending" /\ age[f] >= DayOld}

Failed == {f \in Files : row[f] = "failed" /\ age[f] >= DayOld}

OldTemp == {f \in Files : row[f] # "none" /\ folder[f] = "temp" /\ age[f] >= WeekOld}

(* listFiles: the first keys with the prefix, as many as a listing returns. *)
FirstKeys(keys) ==
    {f \in keys : Cardinality({g \in keys : g < f}) < ListLimit}

Listing == FirstKeys({f \in object : folder[f] = "uploads"})

(* Variant: only completed rows count. *)
OrphansOfCompleted(keys) == {f \in keys : row[f] # "completed"}

(* Of the keys listed, those the table does not have. *)
Orphans(keys) == {f \in keys : row[f] = "none"}

(* As many as a batch holds, of those there are. *)
Batches(S) ==
    {T \in SUBSET S : \/ T = S /\ Cardinality(S) <= BatchLimit
                      \/ Cardinality(T) = BatchLimit}

Enter(w, from, to, lists) ==
    /\ phase[w] = from
    /\ todo[w] = {} /\ current[w] = NoFile
    /\ phase' = [phase EXCEPT ![w] = to]
    /\ \E list \in lists : todo' = [todo EXCEPT ![w] = list]
    /\ UNCHANGED <<files, req, current, history>>

StartJob(w) == Enter(w, "idle", "failed", Batches(Failed))

FindTemp(w) == Enter(w, "failed", "temp", Batches(OldTemp))

ListStorage(w) == Enter(w, "temp", "listed", {Listing})

(* The table is read after the storage. *)
ReadKeys(w) ==
    /\ phase[w] = "listed"
    /\ phase' = [phase EXCEPT ![w] = "orphans"]
    /\ \E list \in Batches(Orphans(todo[w])) : todo' = [todo EXCEPT ![w] = list]
    /\ UNCHANGED <<files, req, current, history>>

Visit(w, f, in) ==
    /\ phase[w] \in in
    /\ f \in todo[w] /\ current[w] = NoFile
    /\ todo' = [todo EXCEPT ![w] = @ \ {f}]

(* The first two loops: the object ... *)
CleanObject(w, f) ==
    /\ Visit(w, f, {"failed", "temp"})
    /\ DeleteObject(f)
    /\ current' = [current EXCEPT ![w] = f]
    /\ UNCHANGED <<row, folder, age, putting, req, phase, doubtful>>

(* Variant: the row is removed although the object could not be. *)
CleanFailsAnyway(w, f) ==
    /\ Visit(w, f, {"failed", "temp", "orphans"})
    /\ current' = [current EXCEPT ![w] = IF phase[w] = "orphans" THEN NoFile ELSE f]
    /\ UNCHANGED <<files, req, phase, history>>

(* ... whose failure saves the row, too ... *)
CleanFails(w, f) ==
    /\ Visit(w, f, {"failed", "temp", "orphans"})
    /\ UNCHANGED <<files, req, phase, current, history>>

(* ... then the row, whatever its status is by now. *)
CleanRow(w) ==
    /\ current[w] # NoFile
    /\ current' = [current EXCEPT ![w] = NoFile]
    /\ row' = [row EXCEPT ![current[w]] = "none"]
    /\ UNCHANGED <<object, folder, age, putting, req, phase, todo, history>>

CleanRowFails(w) ==
    /\ current[w] # NoFile
    /\ current' = [current EXCEPT ![w] = NoFile]
    /\ UNCHANGED <<files, req, phase, todo, history>>

(* The last loop. *)
CleanOrphan(w, f) ==
    /\ Visit(w, f, {"orphans"})
    /\ DeleteObject(f)
    /\ UNCHANGED <<row, folder, age, putting, req, phase, current, doubtful>>

JobDone(w) == Enter(w, "orphans", "idle", {{}})

(* The job has failed, its worker has died, or it was the shorter job.  The *)
(* next one of the schedule starts anew.                                    *)
JobEnds(w) ==
    /\ phase[w] # "idle"
    /\ phase' = [phase EXCEPT ![w] = "idle"]
    /\ todo' = [todo EXCEPT ![w] = {}]
    /\ current' = [current EXCEPT ![w] = NoFile]
    /\ UNCHANGED <<files, req, history>>

(***************************************************************************)
(* The specification.                                                      *)
(***************************************************************************)
Upload(f) ==
    GetPresignedUploadUrl(f) \/ PutBegins(f) \/ PutEnds(f) \/ TimePasses(f)

Request(r) ==
    \/ \E f \in Files : CancelUpload(r, f) \/ CompleteUpload(r, f) \/ Destroy(r, f)
    \/ CancelDelete(r) \/ CancelFind(r) \/ CancelSave(r)
    \/ CompleteSave(r)
    \/ DestroyRow(r) \/ DestroyObject(r)
    \/ RequestDies(r)

Job(w) ==
    \/ StartJob(w) \/ FindTemp(w) \/ ListStorage(w) \/ ReadKeys(w)
    \/ \E f \in Files : CleanObject(w, f) \/ CleanFails(w, f) \/ CleanOrphan(w, f)
    \/ CleanRow(w) \/ CleanRowFails(w)
    \/ JobDone(w) \/ JobEnds(w)

Next ==
    \/ \E f \in Files : Upload(f)
    \/ \E r \in Requests : Request(r)
    \/ \E w \in Workers : Job(w)

Spec == Init /\ [][Next]_vars

(* The schedule starts a job again and again, on some worker, and neither the *)
(* storage nor the database nor the worker fails it at the same point for     *)
(* ever.  Nothing is assumed of clients and requests.                         *)
JobFairness(w) ==
    /\ WF_vars(StartJob(w)) /\ SF_vars(FindTemp(w))
    /\ SF_vars(ListStorage(w)) /\ SF_vars(ReadKeys(w))
    /\ WF_vars(JobDone(w))
    /\ \A f \in Files : /\ SF_vars(CleanObject(w, f)) /\ SF_vars(CleanOrphan(w, f))
                        /\ SF_vars(current[w] = f /\ CleanRow(w))

FairSpec == Spec /\ \A w \in Workers : JobFairness(w)

(***************************************************************************)
(* Properties.                                                             *)
(***************************************************************************)

(* A completed file without its object was completed while the object was   *)
(* missing or about to be deleted, or is an old one in "temp".  No other    *)
(* order of cancellation, deletion and cleanup loses a completed upload.    *)
LossExplained ==
    \A f \in Files :
        row[f] = "completed" /\ f \notin object =>
            f \in doubtful \/ (folder[f] = "temp" /\ age[f] = WeekOld)

(* An object without a row waits for the deletion that removed its row, or   *)
(* that deletion failed, or the upload ended after it.                       *)
LeftoversExplained ==
    \A f \in Files :
        f \in object /\ row[f] = "none" =>
            \/ f \in leaked
            \/ \E r \in Requests : req[r] = [step |-> "destroyObject", file |-> f]

(* The cleaner of orphans, which reads the storage first and the table later, *)
(* has no upload in its list that is pending or completed, unless a save       *)
(* brought the row back.                                                       *)
CleanerSparesLive ==
    \A w \in Workers : \A f \in todo[w] :
        phase[w] = "orphans" /\ row[f] \in {"pending", "completed"} => f \in doubtful

(* A row that stays failed for a day is removed, however often the storage or *)
(* the table fails it, if no more rows of its kind wait than a batch holds.   *)
FailedCollected ==
    \A f \in Files : LET stale == row[f] = "failed" /\ age[f] >= DayOld
                   IN  stale ~> ~stale

===============================================================================
