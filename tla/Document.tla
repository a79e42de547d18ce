------------------------------ MODULE Document ------------------------------
(***************************************************************************)
(* An uploaded document: its row, its file in S3, and the requests and RQ  *)
(* jobs that read the row and later save every column of it.               *)
(*                                                                         *)
(* A request is one transaction: what it writes is seen by others when it  *)
(* commits, but the job it queues may start at once, and also runs if the  *)
(* transaction is rolled back.  Jobs that scan commit each save; a job that *)
(* deletes is one transaction.  Django's save() of a row that is gone      *)
(* inserts it again.                                                       *)
(*                                                                         *)
(* There are two kinds of documents: those of BaseEntityDocumentModelViewSet *)
(* are hidden by the status deletion_pending, those of                     *)
(* GenericDocumentViewSet by the archived flag of their GenericDocument.   *)
(***************************************************************************)
EXTENDS Bounds

CONSTANTS Requests, Jobs,  \* web requests, and slots for RQ jobs
          Kinds            \* the kinds of documents, "entity" and "generic"

VARIABLES kind,      \* the kind of the document
          row,       \* its Document row
          file,      \* what is in S3
          entity,    \* whether the row that owns the Document exists
          archived,  \* the flag of the GenericDocument
          req, job,  \* what requests and jobs are doing
          calls,     \* how many callbacks there were
          asked,     \* whether a deletion was committed
          crashed    \* whether a job was ever cut short

vars == <<kind, row, file, entity, archived, req, job, calls, asked, crashed>>

NOT_SCANNED == "not_virus_scanned"
SCHEDULED == "virus_scanning_scheduled"
IN_PROGRESS == "virus_scanning_in_progress"
FAILED == "virus_scanning_failed"
SCANNED == "virus_scanned"
PENDING == "deletion_pending"
UploadStatus ==
  {NOT_SCANNED, SCHEDULED, IN_PROGRESS, FAILED, SCANNED, PENDING}

\* scan_initiated_on, scanned_on and av_clean of the row.
Rows == [status : UploadStatus, initiated : BOOLEAN, scanned : BOOLEAN,
         clean : {"unknown", "clean", "malware"}]

NewRow == [status |-> NOT_SCANNED, initiated |-> FALSE, scanned |-> FALSE,
           clean |-> "unknown"]

Gone == [status |-> "gone"]

NoRequest == [op |-> "none", pc |-> "idle", copy |-> NewRow]

NoJob == [task |-> "none", pc |-> "free", left |-> 0, copy |-> NewRow,
          result |-> "none"]

Init ==
  /\ kind \in Kinds
  /\ row = NewRow /\ file = "none" /\ entity = TRUE /\ archived = FALSE
  /\ req = [r \in Requests |-> NoRequest]
  /\ job = [j \in Jobs |-> NoJob]
  /\ calls = 0 /\ asked = FALSE /\ crashed = FALSE

\* The UPDATE of a request locks the row until it commits.
RowFree == \A r \in Requests : req[r].pc # "commit"

-----------------------------------------------------------------------------
(* Clients and their requests *)

\* The client uploads once, with the URL it got when the document was made,
\* and not after asking for the deletion.
Upload ==
  /\ file = "none" /\ entity /\ ~asked
  /\ \A r \in Requests : req[r].op # "delete"
  /\ file' \in {"clean", "malware"}
  /\ UNCHANGED <<kind, row, entity, archived, req, job, calls, asked, crashed>>

Visible ==
  entity /\ IF kind = "entity" THEN row.status # PENDING ELSE ~archived

\* get_object() finds what owns the Document, whose row is read later.
Visit(r, op) ==
  /\ req[r].pc = "idle" /\ Visible
  /\ op = "upload" => calls < MaxCalls
  /\ op = "delete" => ~asked
  /\ calls' = IF op = "upload" THEN calls + 1 ELSE calls
  /\ req' = [req EXCEPT ![r] = [NoRequest EXCEPT !.op = op, !.pc = "read"]]
  /\ UNCHANGED <<kind, row, file, entity, archived, job, asked, crashed>>

Read(r) ==
  /\ req[r].pc = "read" /\ row # Gone
  /\ req' = [req EXCEPT ![r].pc = "write", ![r].copy = row]
  /\ UNCHANGED <<kind, row, file, entity, archived, job, calls, asked, crashed>>

Enqueue(j, task) ==
  /\ job[j].pc = "free"
  /\ job' = [job EXCEPT ![j] = [NoJob EXCEPT !.task = task, !.pc = "queued",
                                             !.left = MaxRetries]]

\* Mutant: a document is scanned as often as the client calls back.
AlwaysScanned(d) == TRUE

NotInitiated(d) == ~d.initiated

\* Document.schedule_av_scan: the scan is queued before the status is committed.
ScheduleScan(r) ==
  /\ req[r].op = "upload" /\ req[r].pc = "write" /\ NotInitiated(req[r].copy)
  /\ RowFree
  /\ \E j \in Jobs : Enqueue(j, "scan")
  /\ req' = [req EXCEPT ![r].pc = "commit", ![r].copy.status = SCHEDULED]
  /\ UNCHANGED <<kind, row, file, entity, archived, calls, asked, crashed>>

SkipScan(r) ==
  /\ req[r].op = "upload" /\ req[r].pc = "write" /\ ~NotInitiated(req[r].copy)
  /\ req' = [req EXCEPT ![r] = NoRequest]
  /\ UNCHANGED <<kind, row, file, entity, archived, job, calls, asked, crashed>>

\* perform_destroy and GenericDocumentViewSet.destroy.
MarkDeletionPending(r) ==
  /\ req[r].op = "delete" /\ req[r].pc = "write" /\ RowFree
  /\ \E j \in Jobs : Enqueue(j, "delete")
  /\ req' = [req EXCEPT ![r].pc = "commit", ![r].copy.status = PENDING]
  /\ UNCHANGED <<kind, row, file, entity, archived, calls, asked, crashed>>

\* The whole row is written. The callback of an entity document retrieves the
\* entity once more, and is rolled back if that is gone.
Commit(r) ==
  LET deletes == req[r].op = "delete" IN
  /\ req[r].pc = "commit"
  /\ entity \/ deletes \/ kind = "generic"
  /\ row' = req[r].copy
  /\ archived' = (archived \/ (deletes /\ kind = "generic"))
  /\ asked' = (asked \/ deletes)
  /\ req' = [req EXCEPT ![r] = NoRequest]
  /\ UNCHANGED <<kind, file, entity, job, calls, crashed>>

\* The request fails: nothing is left of it but the job it may have queued.
Abort(r) ==
  /\ req[r].pc # "idle"
  /\ req' = [req EXCEPT ![r] = NoRequest]
  /\ UNCHANGED <<kind, row, file, entity, archived, job, calls, asked, crashed>>

-----------------------------------------------------------------------------
(* Jobs *)

\* Mutant: the number of retries left is not looked at.
FailedJobAlways(j) ==
  [NoJob EXCEPT !.task = job[j].task, !.pc = "queued", !.left = job[j].left - 1]

\* The job raised, or its worker died: RQ queues it again, or gives it up.
FailedJob(j) ==
  IF job[j].left = 0 THEN NoJob
  ELSE [NoJob EXCEPT !.task = job[j].task, !.pc = "queued",
                     !.left = job[j].left - 1]

\* The advisory lock of the document is held for the whole scan.
Scanning(j) == job[j].pc \in {"mark", "scan", "save"}

Scannable(d) == d # Gone /\ ~d.scanned /\ ~d.initiated

StartScan(j) ==
  /\ job[j].task = "scan" /\ job[j].pc = "queued"
  /\ \A i \in Jobs : ~Scanning(i)
  /\ job' = [job EXCEPT ![j] =
               IF Scannable(row) THEN [job[j] EXCEPT !.pc = "mark", !.copy = row]
                                 ELSE NoJob]
  /\ UNCHANGED <<kind, row, file, entity, archived, req, calls, asked, crashed>>

MarkScanInitiated(j) ==
  /\ job[j].pc = "mark" /\ RowFree
  /\ row' = [job[j].copy EXCEPT !.initiated = TRUE, !.status = IN_PROGRESS]
  /\ job' = [job EXCEPT ![j].pc = "scan", ![j].copy = row']
  /\ UNCHANGED <<kind, file, entity, archived, req, calls, asked, crashed>>

\* The file is streamed from S3 to the virus scanner; either may fail.
DownloadAndScan(j) ==
  /\ job[j].pc = "scan"
  /\ \E result \in {"failed"} \cup ({file} \cap {"clean", "malware"}) :
       job' = [job EXCEPT ![j].pc = "save", ![j].result = result]
  /\ UNCHANGED <<kind, row, file, entity, archived, req, calls, asked, crashed>>

MarkAsScanned(j) ==
  /\ job[j].pc = "save" /\ job[j].result # "failed" /\ RowFree
  /\ row' = [job[j].copy EXCEPT !.scanned = TRUE, !.clean = job[j].result,
                                !.status = SCANNED]
  /\ job' = [job EXCEPT ![j] = NoJob]
  /\ UNCHANGED <<kind, file, entity, archived, req, calls, asked, crashed>>

\* Mutant: the exception is not caught, and the status stays.
MarkNothing(j) ==
  /\ job[j].pc = "save" /\ job[j].result = "failed"
  /\ job' = [job EXCEPT ![j] = FailedJob(j)]
  /\ UNCHANGED <<kind, row, file, entity, archived, req, calls, asked, crashed>>

MarkScanFailed(j) ==
  /\ job[j].pc = "save" /\ job[j].result = "failed" /\ RowFree
  /\ row' = [job[j].copy EXCEPT !.status = FAILED]
  /\ job' = [job EXCEPT ![j] = FailedJob(j)]
  /\ UNCHANGED <<kind, file, entity, archived, req, calls, asked, crashed>>

\* Mutant: perform_delete_document does not look at the status.
Exists(d) == d # Gone

\* perform_delete_document refuses unless the row says deletion_pending.
Deletable(d) == d.status = PENDING

StartDelete(j) ==
  /\ job[j].task = "delete" /\ job[j].pc = "queued"
  /\ job' = [job EXCEPT ![j] = IF Deletable(row)
                               THEN [job[j] EXCEPT !.pc = "erase"]
                               ELSE FailedJob(j)]
  /\ UNCHANGED <<kind, row, file, entity, archived, req, calls, asked, crashed>>

EraseFile(j) ==
  /\ job[j].pc = "erase"
  /\ file' = "erased"
  /\ job' = [job EXCEPT ![j].pc = "drop"]
  /\ UNCHANGED <<kind, row, entity, archived, req, calls, asked, crashed>>

\* Mutant: the refusal is ignored, and the row is deleted.
IgnoreFailure(j) ==
  /\ job[j].pc = "erase"
  /\ job' = [job EXCEPT ![j].pc = "drop"]
  /\ UNCHANGED <<kind, row, file, entity, archived, req, calls, asked, crashed>>

\* S3 refuses: the job is tried again.
FailToErase(j) ==
  /\ job[j].pc = "erase"
  /\ job' = [job EXCEPT ![j] = FailedJob(j)]
  /\ UNCHANGED <<kind, row, file, entity, archived, req, calls, asked, crashed>>

\* document.delete() cascades to the row that owns the document.
DropRow(j) ==
  /\ job[j].pc = "drop" /\ RowFree
  /\ row' = Gone /\ entity' = FALSE
  /\ job' = [job EXCEPT ![j] = NoJob]
  /\ UNCHANGED <<kind, file, archived, req, calls, asked, crashed>>

\* A worker dies: its locks are released and its open transaction undone.
Crash(j) ==
  /\ job[j].pc \notin {"free", "queued"}
  /\ job' = [job EXCEPT ![j] = FailedJob(j)]
  /\ crashed' = TRUE
  /\ UNCHANGED <<kind, row, file, entity, archived, req, calls, asked>>

-----------------------------------------------------------------------------
RequestStep(r) ==
  \/ Read(r) \/ ScheduleScan(r) \/ SkipScan(r) \/ MarkDeletionPending(r)
  \/ Commit(r) \/ Abort(r)

JobStep(j) ==
  \/ StartScan(j) \/ MarkScanInitiated(j) \/ DownloadAndScan(j)
  \/ MarkAsScanned(j) \/ MarkScanFailed(j)
  \/ StartDelete(j) \/ EraseFile(j) \/ FailToErase(j) \/ DropRow(j)

Next ==
  \/ Upload
  \/ \E r \in Requests : (\E op \in {"upload", "delete"} : Visit(r, op))
                         \/ RequestStep(r)
  \/ \E j \in Jobs : JobStep(j) \/ Crash(j)

Spec == Init /\ [][Next]_vars

\* Requests end, by a timeout at the latest; workers take queued jobs; and who
\* waits for a lock of PostgreSQL gets it, whoever else asks for it.
Fairness ==
  /\ \A r \in Requests : WF_vars(RequestStep(r))
  /\ \A j \in Jobs : SF_vars(JobStep(j))

FairSpec == Spec /\ Fairness

-----------------------------------------------------------------------------
(* Properties *)

TypeOK ==
  /\ kind \in Kinds
  /\ row \in Rows \cup {Gone}
  /\ file \in {"none", "clean", "malware", "erased"}
  /\ entity \in BOOLEAN /\ archived \in BOOLEAN
  /\ asked \in BOOLEAN /\ crashed \in BOOLEAN
  /\ calls \in 0..MaxCalls
  /\ req \in [Requests -> [op : {"none", "upload", "delete"},
                           pc : {"idle", "read", "write", "commit"},
                           copy : Rows]]
  /\ job \in [Jobs -> [task : {"none", "scan", "delete"},
                       pc : {"free", "queued", "mark", "scan", "save",
                             "erase", "drop"},
                       left : 0..MaxRetries, copy : Rows,
                       result : {"none", "clean", "malware", "failed"}]]

\* The dates, the verdict and the status of a row belong together.
Coherent(d) ==
  /\ d.status \in {NOT_SCANNED, SCHEDULED} => ~d.initiated
  /\ d.status \in {IN_PROGRESS, FAILED} => d.initiated /\ ~d.scanned
  /\ d.status = SCANNED => d.scanned
  /\ d.scanned = (d.clean # "unknown")
  /\ d.scanned => d.initiated

\* The status, the dates and the verdict of a document never come from
\* different moments of its life, and a verdict is the one of its own file,
\* though requests and jobs save whole rows from copies they took earlier
\* (documents/models.py, _update_status).
DocumentConsistent ==
  row # Gone => Coherent(row) /\ (row.scanned => file \in {row.clean, "erased"})

\* Nothing of a document is erased unless its deletion was asked for and
\* committed, also when the request that queued the job was rolled back
\* (documents/utils.py, perform_delete_document).
ErasedOnlyIfAsked == file = "erased" \/ ~entity => asked

\* A document that is gone leaves no file behind in S3, wherever the deletion
\* was cut short: the file is deleted first (documents/utils.py).
NoFileLeft == ~entity => file = "erased"

Waiting == row.status \in {SCHEDULED, IN_PROGRESS}
AwaitsScan == Waiting /\ calls = 1 /\ ~asked
ScanIsOver == ~Waiting \/ calls > 1 \/ asked \/ crashed

\* A document whose client called back once, and did not ask for its deletion,
\* does not wait for its scan for ever, unless a worker died
\* (documents/tasks.py, virus_scan_document).
ScanEnds == AwaitsScan ~> ScanIsOver

=============================================================================
