--------------------------- MODULE DocumentProofs ---------------------------
(***************************************************************************)
(* What Document guarantees for any number of requests, jobs, callbacks    *)
(* and retries.                                                            *)
(*                                                                         *)
(* Requests and jobs save whole rows from copies, so the invariant says of *)
(* every copy in flight what the theorems say of the row, and of a job     *)
(* what the state of the document was that let it start.                   *)
(***************************************************************************)
EXTENDS Document, TLAPS

RequestType == [op : {"none", "upload", "delete"},
                pc : {"idle", "read", "write", "commit"}, copy : Rows]

JobType == [task : {"none", "scan", "delete"},
            pc : {"free", "queued", "mark", "scan", "save", "erase", "drop"},
            left : 0..MaxRetries, copy : Rows,
            result : {"none", "clean", "malware", "failed"}]

\* A version of the row, for the file there is.
Fits(d, f) == Coherent(d) /\ (d.scanned => f \in {d.clean, "erased"})

\* What is known of a request and of a job, for the file there is and whether
\* the deletion was asked for.
RequestFits(st, f, a) ==
  /\ Fits(st.copy, f)
  /\ st.copy.status = PENDING => a \/ (st.op = "delete" /\ st.pc = "commit")

JobFits(st, f, a) ==
  /\ Fits(st.copy, f)
  /\ st.copy.status = PENDING => a
  /\ st.pc # "free" => st.task # "none"
  /\ st.pc = "mark" => ~st.copy.scanned /\ ~st.copy.initiated
  /\ st.pc \in {"scan", "save"} => ~st.copy.scanned /\ st.copy.initiated
  /\ st.pc = "save" => st.result = "failed" \/ (st.result # "none" /\ f \in {st.result, "erased"})
  /\ st.pc \in {"erase", "drop"} => a
  /\ st.pc = "drop" => f = "erased"

RowFits == row # Gone => Fits(row, file) /\ (row.status = PENDING => asked)

IInv ==
  /\ TypeOK
  /\ RowFits
  /\ \A r \in Requests : RequestFits(req[r], file, asked)
  /\ \A j \in Jobs : JobFits(job[j], file, asked)
  /\ NoFileLeft
  /\ ErasedOnlyIfAsked

-----------------------------------------------------------------------------
LEMMA StatusDiffer ==
  /\ NOT_SCANNED \in UploadStatus /\ SCHEDULED \in UploadStatus
  /\ IN_PROGRESS \in UploadStatus /\ FAILED \in UploadStatus
  /\ SCANNED \in UploadStatus /\ PENDING \in UploadStatus
  /\ PENDING \notin {NOT_SCANNED, SCHEDULED, IN_PROGRESS, FAILED, SCANNED}
  /\ SCANNED \notin {NOT_SCANNED, SCHEDULED, IN_PROGRESS, FAILED}
  /\ {IN_PROGRESS, FAILED} \cap {NOT_SCANNED, SCHEDULED} = {}
BY DEF UploadStatus, NOT_SCANNED, SCHEDULED, IN_PROGRESS, FAILED, SCANNED, PENDING

LEMMA NewRowFits ==
  /\ NewRow \in Rows
  /\ NewRow.status # PENDING
  /\ \A f : Fits(NewRow, f)
<1>1. NewRow \in Rows
  BY DEF NewRow, Rows, UploadStatus
<1>2. Coherent(NewRow)
  BY DEF NewRow, Coherent, NOT_SCANNED, SCHEDULED, IN_PROGRESS, FAILED, SCANNED
<1>3. ~NewRow.scanned /\ NewRow.status = NOT_SCANNED
  BY DEF NewRow
<1>4. QED
  BY <1>1, <1>2, <1>3, StatusDiffer DEF Fits

LEMMA IdleFits ==
  /\ NoRequest \in RequestType
  /\ NoJob \in JobType
  /\ \A f, a : RequestFits(NoRequest, f, a) /\ JobFits(NoJob, f, a)
<1>1. NoRequest.copy = NewRow /\ NoRequest \in RequestType
  BY NewRowFits DEF NoRequest, RequestType
<1>2. NoJob.copy = NewRow /\ NoJob.pc = "free" /\ NoJob \in JobType
  BY NewRowFits, BoundsAssumption DEF NoJob, JobType
<1>3. QED
  BY <1>1, <1>2, NewRowFits DEF RequestFits, JobFits

\* A queued job has no copy yet.
LEMMA QueuedFits ==
  ASSUME NEW task \in {"scan", "delete"}, NEW left \in 0..MaxRetries, NEW f, NEW a
  PROVE  /\ [NoJob EXCEPT !.task = task, !.pc = "queued", !.left = left] \in JobType
         /\ JobFits([NoJob EXCEPT !.task = task, !.pc = "queued", !.left = left], f, a)
<1> DEFINE st == [NoJob EXCEPT !.task = task, !.pc = "queued", !.left = left]
<1>1. st.copy = NewRow /\ st.pc = "queued" /\ st.task # "none"
  BY DEF NoJob
<1>2. st \in JobType
  BY NewRowFits DEF NoJob, JobType
<1> HIDE DEF st
<1>3. JobFits(st, f, a)
  BY <1>1, NewRowFits DEF JobFits
<1>4. QED
  BY <1>2, <1>3 DEF st

LEMMA FailedFits ==
  ASSUME NEW j \in Jobs, job[j] \in JobType, job[j].task # "none", NEW f, NEW a
  PROVE  FailedJob(j) \in JobType /\ JobFits(FailedJob(j), f, a)
<1>1. CASE job[j].left = 0
  BY <1>1, IdleFits DEF FailedJob
<1>2. CASE job[j].left # 0
  <2>1. job[j].left - 1 \in 0..MaxRetries
    BY <1>2, BoundsAssumption DEF JobType
  <2>2. job[j].task \in {"scan", "delete"}
    BY DEF JobType
  <2>3. QED
    BY <1>2, <2>1, <2>2, QueuedFits DEF FailedJob
<1>3. QED
  BY <1>1, <1>2

LEMMA InitInv == Init => IInv
<1> SUFFICES ASSUME Init PROVE IInv
  OBVIOUS
<1>1. TypeOK
  <2>1. /\ req \in [Requests -> RequestType] /\ job \in [Jobs -> JobType]
        /\ row \in Rows
    BY NewRowFits, IdleFits DEF Init
  <2>2. calls \in 0..MaxCalls
    BY BoundsAssumption DEF Init
  <2>3. QED
    BY <2>1, <2>2 DEF Init, TypeOK, RequestType, JobType
<1>2. RowFits
  BY NewRowFits DEF Init, RowFits
<1>3. /\ \A r \in Requests : RequestFits(req[r], file, asked)
      /\ \A j \in Jobs : JobFits(job[j], file, asked)
  BY IdleFits DEF Init
<1>4. NoFileLeft /\ ErasedOnlyIfAsked
  BY DEF Init, NoFileLeft, ErasedOnlyIfAsked
<1>5. QED
  BY <1>1, <1>2, <1>3, <1>4 DEF IInv

-----------------------------------------------------------------------------
(* Steps *)

\* Facts that steps have in common.
LEMMA Types ==
  ASSUME TypeOK
  PROVE  /\ req \in [Requests -> RequestType] /\ job \in [Jobs -> JobType]
         /\ kind \in Kinds /\ row \in Rows \cup {Gone}
         /\ file \in {"none", "clean", "malware", "erased"}
         /\ entity \in BOOLEAN /\ archived \in BOOLEAN
         /\ asked \in BOOLEAN /\ crashed \in BOOLEAN /\ calls \in 0..MaxCalls
BY DEF TypeOK, RequestType, JobType

LEMMA GoneIsNoRow == \A d \in Rows : d # Gone
<1> SUFFICES ASSUME NEW d \in Rows, d = Gone PROVE FALSE
  OBVIOUS
<1>1. d.status = "gone"
  BY DEF Gone
<1>2. d.status \in UploadStatus
  BY DEF Rows
<1>3. QED
  BY <1>1, <1>2 DEF UploadStatus, NOT_SCANNED, SCHEDULED, IN_PROGRESS, FAILED,
                    SCANNED, PENDING

\* A step of one request, that leaves the row, the file and jobs alone.
LEMMA RequestStepInv ==
  ASSUME IInv, NEW r \in Requests, NEW st \in RequestType,
         req' = [req EXCEPT ![r] = st], RequestFits(st, file, asked),
         UNCHANGED <<kind, row, file, entity, archived, job, asked, crashed>>,
         calls' \in 0..MaxCalls
  PROVE  IInv'
<1>1. req \in [Requests -> RequestType]
  BY Types DEF IInv
<1>2. req' \in [Requests -> RequestType]
  BY <1>1
<1>3. TypeOK'
  BY <1>2 DEF IInv, TypeOK, RequestType
<1>4. \A q \in Requests : req'[q] = IF q = r THEN st ELSE req[q]
  BY <1>1
<1>5. QED
  BY <1>3, <1>4 DEF IInv, RowFits, NoFileLeft, ErasedOnlyIfAsked

\* A request queues a job and is about to commit a row.
LEMMA EnqueueInv ==
  ASSUME IInv, NEW r \in Requests, NEW task \in {"scan", "delete"},
         \E j \in Jobs : Enqueue(j, task),
         NEW st \in RequestType, RequestFits(st, file, asked),
         req' = [req EXCEPT ![r] = st],
         UNCHANGED <<kind, row, file, entity, archived, calls, asked, crashed>>
  PROVE  IInv'
<1>1. req \in [Requests -> RequestType] /\ job \in [Jobs -> JobType]
  BY Types DEF IInv
<1>2. PICK j \in Jobs : job' = [job EXCEPT ![j] = [NoJob EXCEPT
                          !.task = task, !.pc = "queued", !.left = MaxRetries]]
  BY DEF Enqueue
<1> DEFINE new == [NoJob EXCEPT !.task = task, !.pc = "queued", !.left = MaxRetries]
<1>3. MaxRetries \in 0..MaxRetries
  BY BoundsAssumption
<1>4. new \in JobType /\ JobFits(new, file, asked)
  BY <1>3, QueuedFits
<1>5. job' = [job EXCEPT ![j] = new]
  BY <1>2
<1> HIDE DEF new
<1>6. req' \in [Requests -> RequestType] /\ job' \in [Jobs -> JobType]
  BY <1>1, <1>4, <1>5
<1>7. TypeOK'
  BY <1>6 DEF IInv, TypeOK, RequestType, JobType
<1>8. \A q \in Requests : req'[q] = IF q = r THEN st ELSE req[q]
  BY <1>1
<1>9. \A i \in Jobs : job'[i] = IF i = j THEN new ELSE job[i]
  BY <1>1, <1>5
<1>10. QED
  BY <1>4, <1>7, <1>8, <1>9 DEF IInv, RowFits, NoFileLeft, ErasedOnlyIfAsked

\* A step of one job, that saves a row at most.
LEMMA JobStepInv ==
  ASSUME IInv, NEW j \in Jobs, NEW st \in JobType,
         job' = [job EXCEPT ![j] = st], JobFits(st, file, asked),
         UNCHANGED <<kind, file, entity, archived, req, calls, asked>>,
         crashed' \in BOOLEAN,
         \/ row' = row
         \/ row' \in Rows /\ Fits(row', file) /\ (row'.status = PENDING => asked)
  PROVE  IInv'
<1>1. job \in [Jobs -> JobType]
  BY Types DEF IInv
<1>2. job' \in [Jobs -> JobType]
  BY <1>1
<1>3. TypeOK'
  BY <1>2 DEF IInv, TypeOK, JobType
<1>4. \A i \in Jobs : job'[i] = IF i = j THEN st ELSE job[i]
  BY <1>1
<1>5. RowFits'
  BY DEF IInv, RowFits
<1>6. QED
  BY <1>3, <1>4, <1>5 DEF IInv, NoFileLeft, ErasedOnlyIfAsked

\* Nothing that fits stops fitting when a file is uploaded or erased, or when
\* the deletion is asked for.
LEMMA FitsLater ==
  ASSUME NEW d \in Rows, NEW f, NEW g, f = "none" \/ g = "erased", Fits(d, f)
  PROVE  Fits(d, g)
<1>1. d.scanned => d.clean \in {"clean", "malware"}
  BY DEF Fits, Coherent, Rows
<1>2. QED
  BY <1>1 DEF Fits

LEMMA UploadInv == IInv /\ Upload => IInv'
<1> SUFFICES ASSUME IInv, Upload PROVE IInv'
  OBVIOUS
<1>1. /\ file = "none" /\ entity /\ file' \in {"clean", "malware"}
      /\ UNCHANGED <<kind, row, entity, archived, req, job, calls, asked, crashed>>
  BY DEF Upload
<1>2. TypeOK'
  BY <1>1 DEF IInv, TypeOK
<1>3. RowFits'
  BY <1>1, Types, FitsLater DEF IInv, RowFits
<1>4. \A r \in Requests : RequestFits(req[r], file, asked)'
  <2>1. SUFFICES ASSUME NEW r \in Requests PROVE RequestFits(req[r], file, asked)'
    OBVIOUS
  <2>2. req[r].copy \in Rows
    BY Types DEF IInv, RequestType
  <2>3. QED
    BY <1>1, <2>2, FitsLater DEF IInv, RequestFits
<1>5. \A j \in Jobs : JobFits(job[j], file, asked)'
  <2>1. SUFFICES ASSUME NEW j \in Jobs PROVE JobFits(job[j], file, asked)'
    OBVIOUS
  <2>2. job[j] \in JobType /\ job[j].copy \in Rows
    BY Types DEF IInv, JobType
  <2>3. JobFits(job[j], file, asked)
    BY DEF IInv
  <2>4. Fits(job[j].copy, file')
    BY <1>1, <2>2, <2>3, FitsLater DEF JobFits
  <2>5. QED
    BY <1>1, <2>2, <2>3, <2>4 DEF JobFits, JobType
<1>6. NoFileLeft' /\ ErasedOnlyIfAsked'
  BY <1>1 DEF NoFileLeft, ErasedOnlyIfAsked
<1>7. QED
  BY <1>2, <1>3, <1>4, <1>5, <1>6 DEF IInv

\* What jobs save.
LEMMA MarkedRows ==
  ASSUME NEW d \in Rows, NEW f, Fits(d, f), ~d.scanned
  PROVE  /\ LET m == [d EXCEPT !.initiated = TRUE, !.status = IN_PROGRESS]
            IN  m \in Rows /\ Fits(m, f) /\ m.status # PENDING
                /\ ~m.scanned /\ m.initiated
         /\ d.initiated =>
              LET m == [d EXCEPT !.status = FAILED]
              IN  m \in Rows /\ Fits(m, f) /\ m.status # PENDING
         /\ \A v \in {"clean", "malware"} : d.initiated /\ f \in {v, "erased"} =>
              LET m == [d EXCEPT !.scanned = TRUE, !.clean = v, !.status = SCANNED]
              IN  m \in Rows /\ Fits(m, f) /\ m.status # PENDING
<1> USE DEF Rows
<1>1. /\ [d EXCEPT !.initiated = TRUE, !.status = IN_PROGRESS] \in Rows
      /\ [d EXCEPT !.status = FAILED] \in Rows
      /\ \A v \in {"clean", "malware"} :
           [d EXCEPT !.scanned = TRUE, !.clean = v, !.status = SCANNED] \in Rows
  BY StatusDiffer
<1>2. LET m == [d EXCEPT !.initiated = TRUE, !.status = IN_PROGRESS]
      IN  Fits(m, f) /\ m.status # PENDING /\ ~m.scanned /\ m.initiated
  BY StatusDiffer DEF Fits, Coherent
<1>3. d.initiated => LET m == [d EXCEPT !.status = FAILED]
                     IN  Fits(m, f) /\ m.status # PENDING
  BY StatusDiffer DEF Fits, Coherent
<1>4. \A v \in {"clean", "malware"} : d.initiated /\ f \in {v, "erased"} =>
        LET m == [d EXCEPT !.scanned = TRUE, !.clean = v, !.status = SCANNED]
        IN  Fits(m, f) /\ m.status # PENDING
  BY StatusDiffer DEF Fits, Coherent
<1>5. QED
  BY <1>1, <1>2, <1>3, <1>4

\* What requests are about to save.
LEMMA RequestedRows ==
  ASSUME NEW d \in Rows, NEW f, Fits(d, f)
  PROVE  /\ [d EXCEPT !.status = PENDING] \in Rows
         /\ Fits([d EXCEPT !.status = PENDING], f)
         /\ ~d.initiated => /\ [d EXCEPT !.status = SCHEDULED] \in Rows
                            /\ Fits([d EXCEPT !.status = SCHEDULED], f)
                            /\ [d EXCEPT !.status = SCHEDULED].status # PENDING
<1>1. /\ [d EXCEPT !.status = PENDING] \in Rows
      /\ [d EXCEPT !.status = SCHEDULED] \in Rows
  BY StatusDiffer DEF Rows
<1>2. Fits([d EXCEPT !.status = PENDING], f)
  BY StatusDiffer DEF Rows, Fits, Coherent
<1>3. ~d.initiated => /\ Fits([d EXCEPT !.status = SCHEDULED], f)
                      /\ [d EXCEPT !.status = SCHEDULED].status # PENDING
  BY StatusDiffer DEF Rows, Fits, Coherent
<1>4. QED
  BY <1>1, <1>2, <1>3

LEMMA RequestInv ==
  ASSUME IInv, NEW r \in Requests,
         \/ Read(r) \/ ScheduleScan(r) \/ SkipScan(r) \/ MarkDeletionPending(r)
         \/ Abort(r) \/ \E op \in {"upload", "delete"} : Visit(r, op)
  PROVE  IInv'
<1>0. /\ req \in [Requests -> RequestType] /\ calls \in 0..MaxCalls
      /\ req[r] \in RequestType /\ req[r].copy \in Rows
      /\ RequestFits(req[r], file, asked) /\ Fits(req[r].copy, file)
  BY Types DEF IInv, RequestType, RequestFits
<1>1. CASE Read(r)
  <2> DEFINE st == [req[r] EXCEPT !.pc = "write", !.copy = row]
  <2>1. req' = [req EXCEPT ![r] = st] /\ row # Gone
    BY <1>0, <1>1 DEF Read
  <2>2. row \in Rows /\ st \in RequestType /\ st.copy = row
    BY <1>0, <2>1, Types DEF IInv, RequestType
  <2> HIDE DEF st
  <2>3. RequestFits(st, file, asked)
    BY <2>1, <2>2 DEF IInv, RowFits, RequestFits
  <2>4. QED
    BY <1>0, <1>1, <2>1, <2>2, <2>3, RequestStepInv DEF Read
<1>2. CASE ScheduleScan(r)
  <2> DEFINE st == [req[r] EXCEPT !.pc = "commit",
                                  !.copy = [req[r].copy EXCEPT !.status = SCHEDULED]]
  <2>1. req' = [req EXCEPT ![r] = st] /\ ~req[r].copy.initiated
    BY <1>0, <1>2 DEF ScheduleScan, NotInitiated, RequestType
  <2>2. /\ [req[r].copy EXCEPT !.status = SCHEDULED] \in Rows
        /\ Fits([req[r].copy EXCEPT !.status = SCHEDULED], file)
        /\ [req[r].copy EXCEPT !.status = SCHEDULED].status # PENDING
    BY <1>0, <2>1, RequestedRows
  <2>3. /\ st \in RequestType
        /\ st.copy = [req[r].copy EXCEPT !.status = SCHEDULED]
    BY <1>0, <2>2 DEF RequestType
  <2> HIDE DEF st
  <2>4. RequestFits(st, file, asked)
    BY <2>2, <2>3 DEF RequestFits
  <2>5. QED
    BY <1>2, <2>1, <2>3, <2>4, EnqueueInv DEF ScheduleScan
<1>3. CASE MarkDeletionPending(r)
  <2> DEFINE st == [req[r] EXCEPT !.pc = "commit",
                                  !.copy = [req[r].copy EXCEPT !.status = PENDING]]
  <2>1. req' = [req EXCEPT ![r] = st] /\ req[r].op = "delete"
    BY <1>0, <1>3 DEF MarkDeletionPending, RequestType
  <2>2. /\ [req[r].copy EXCEPT !.status = PENDING] \in Rows
        /\ Fits([req[r].copy EXCEPT !.status = PENDING], file)
    BY <1>0, RequestedRows
  <2>3. /\ st \in RequestType /\ st.op = "delete" /\ st.pc = "commit"
        /\ st.copy = [req[r].copy EXCEPT !.status = PENDING]
    BY <1>0, <2>1, <2>2 DEF RequestType
  <2> HIDE DEF st
  <2>4. RequestFits(st, file, asked)
    BY <2>2, <2>3 DEF RequestFits
  <2>5. QED
    BY <1>3, <2>1, <2>3, <2>4, EnqueueInv DEF MarkDeletionPending
<1>4. CASE SkipScan(r) \/ Abort(r)
  BY <1>0, <1>4, IdleFits, RequestStepInv DEF SkipScan, Abort
<1>5. ASSUME NEW op \in {"upload", "delete"}, Visit(r, op) PROVE IInv'
  <2> DEFINE st == [NoRequest EXCEPT !.op = op, !.pc = "read"]
  <2>1. req' = [req EXCEPT ![r] = st] /\ calls' \in 0..MaxCalls
    BY <1>0, <1>5, BoundsAssumption DEF Visit
  <2>2. st \in RequestType /\ st.copy = NewRow
    BY NewRowFits DEF NoRequest, RequestType
  <2> HIDE DEF st
  <2>3. RequestFits(st, file, asked)
    BY <2>2, NewRowFits DEF RequestFits
  <2>4. QED
    BY <1>5, <2>1, <2>2, <2>3, RequestStepInv DEF Visit
<1>6. QED
  BY <1>1, <1>2, <1>3, <1>4, <1>5

\* A deletion is asked for when its request commits.
LEMMA CommitInv == ASSUME IInv, NEW r \in Requests, Commit(r) PROVE IInv'
<1>0. /\ req \in [Requests -> RequestType] /\ req[r] \in RequestType
      /\ req[r].copy \in Rows /\ RequestFits(req[r], file, asked)
      /\ asked \in BOOLEAN /\ archived \in BOOLEAN
  BY Types DEF IInv, RequestType
<1>1. /\ row' = req[r].copy
      /\ asked' = (asked \/ req[r].op = "delete")
      /\ archived' = (archived \/ (req[r].op = "delete" /\ kind = "generic"))
      /\ req' = [req EXCEPT ![r] = NoRequest]
      /\ UNCHANGED <<kind, file, entity, job, calls, crashed>>
  BY DEF Commit
<1>2. req' \in [Requests -> RequestType]
  BY <1>0, <1>1, IdleFits
<1>3. asked' \in BOOLEAN /\ archived' \in BOOLEAN /\ (asked => asked')
  BY <1>0, <1>1
<1>4. TypeOK'
  BY <1>0, <1>1, <1>2, <1>3 DEF IInv, TypeOK, RequestType
<1>5. RowFits'
  BY <1>0, <1>1 DEF RowFits, RequestFits
<1>6. \A q \in Requests : RequestFits(req[q], file, asked)'
  <2>1. \A q \in Requests : req'[q] = IF q = r THEN NoRequest ELSE req[q]
    BY <1>0, <1>1
  <2>2. QED
    BY <1>1, <1>3, <2>1, IdleFits DEF IInv, RequestFits
<1>7. \A j \in Jobs : JobFits(job[j], file, asked)'
  BY <1>1, <1>3 DEF IInv, JobFits
<1>8. NoFileLeft' /\ ErasedOnlyIfAsked'
  BY <1>1, <1>3 DEF IInv, NoFileLeft, ErasedOnlyIfAsked
<1>9. QED
  BY <1>4, <1>5, <1>6, <1>7, <1>8 DEF IInv

LEMMA ScanInv ==
  ASSUME IInv, NEW j \in Jobs,
         \/ StartScan(j) \/ MarkScanInitiated(j) \/ DownloadAndScan(j)
         \/ MarkAsScanned(j) \/ MarkScanFailed(j)
  PROVE  IInv'
<1>0. /\ job \in [Jobs -> JobType] /\ job[j] \in JobType
      /\ job[j].copy \in Rows /\ crashed \in BOOLEAN
      /\ JobFits(job[j], file, asked) /\ Fits(job[j].copy, file)
      /\ file \in {"none", "clean", "malware", "erased"}
  BY Types DEF IInv, JobType, JobFits
<1>1. CASE StartScan(j)
  <2>1. CASE ~Scannable(row)
    BY <1>0, <1>1, <2>1, IdleFits, JobStepInv DEF StartScan
  <2>2. CASE Scannable(row)
    <3> DEFINE st == [job[j] EXCEPT !.pc = "mark", !.copy = row]
    <3>1. job' = [job EXCEPT ![j] = st]
      BY <1>1, <2>2 DEF StartScan
    <3>2. row \in Rows /\ ~row.scanned /\ ~row.initiated
      BY <2>2, Types DEF IInv, Scannable
    <3>3. st \in JobType /\ st.copy = row /\ st.pc = "mark" /\ st.task # "none"
      BY <1>0, <1>1, <3>2 DEF JobType, StartScan
    <3> HIDE DEF st
    <3>4. JobFits(st, file, asked)
      BY <2>2, <3>2, <3>3 DEF IInv, RowFits, JobFits, Scannable
    <3>5. QED
      BY <1>0, <1>1, <3>1, <3>3, <3>4, JobStepInv DEF StartScan
  <2>3. QED
    BY <2>1, <2>2
<1>2. CASE MarkScanInitiated(j)
  <2> DEFINE m == [job[j].copy EXCEPT !.initiated = TRUE, !.status = IN_PROGRESS]
             st == [job[j] EXCEPT !.pc = "scan", !.copy = m]
  <2>1. row' = m /\ job' = [job EXCEPT ![j] = st]
    BY <1>0, <1>2 DEF MarkScanInitiated
  <2>2. ~job[j].copy.scanned /\ job[j].task # "none"
    BY <1>0, <1>2 DEF MarkScanInitiated, JobFits
  <2>3. m \in Rows /\ Fits(m, file) /\ m.status # PENDING /\ ~m.scanned /\ m.initiated
    BY <1>0, <2>2, MarkedRows
  <2> HIDE DEF m
  <2>4. st \in JobType /\ st.copy = m /\ st.pc = "scan" /\ st.task = job[j].task
    BY <1>0, <2>3 DEF JobType
  <2> HIDE DEF st
  <2>5. JobFits(st, file, asked)
    BY <2>2, <2>3, <2>4 DEF JobFits
  <2>6. QED
    BY <1>0, <1>2, <2>1, <2>3, <2>4, <2>5, JobStepInv DEF MarkScanInitiated
<1>3. CASE DownloadAndScan(j)
  <2>1. PICK result \in {"failed"} \cup ({file} \cap {"clean", "malware"}) :
          job' = [job EXCEPT ![j].pc = "save", ![j].result = result]
    BY <1>3 DEF DownloadAndScan
  <2> DEFINE st == [job[j] EXCEPT !.pc = "save", !.result = result]
  <2>2. job' = [job EXCEPT ![j] = st]
    BY <1>0, <2>1
  <2>3. /\ st \in JobType /\ st.copy = job[j].copy /\ st.pc = "save"
        /\ st.result = result /\ st.task = job[j].task
    BY <1>0 DEF JobType
  <2> HIDE DEF st
  <2>4. JobFits(st, file, asked)
    BY <1>0, <1>3, <2>3 DEF JobFits, DownloadAndScan
  <2>5. QED
    BY <1>0, <1>3, <2>2, <2>3, <2>4, JobStepInv DEF DownloadAndScan
<1>4. CASE MarkAsScanned(j)
  <2>1. /\ job[j].pc = "save" /\ job[j].result # "failed"
        /\ row' = [job[j].copy EXCEPT !.scanned = TRUE, !.clean = job[j].result,
                                      !.status = SCANNED]
        /\ job' = [job EXCEPT ![j] = NoJob]
    BY <1>4 DEF MarkAsScanned
  <2>2. /\ ~job[j].copy.scanned /\ job[j].copy.initiated
        /\ job[j].result \in {"clean", "malware"} /\ file \in {job[j].result, "erased"}
    BY <1>0, <2>1 DEF JobFits, JobType
  <2>3. row' \in Rows /\ Fits(row', file) /\ row'.status # PENDING
    BY <1>0, <2>1, <2>2, MarkedRows
  <2>4. QED
    BY <1>0, <1>4, <2>1, <2>3, IdleFits, JobStepInv DEF MarkAsScanned
<1>5. CASE MarkScanFailed(j)
  <2>1. /\ job[j].pc = "save"
        /\ row' = [job[j].copy EXCEPT !.status = FAILED]
        /\ job' = [job EXCEPT ![j] = FailedJob(j)]
    BY <1>5 DEF MarkScanFailed
  <2>2. ~job[j].copy.scanned /\ job[j].copy.initiated /\ job[j].task # "none"
    BY <1>0, <2>1 DEF JobFits
  <2>3. row' \in Rows /\ Fits(row', file) /\ row'.status # PENDING
    BY <1>0, <2>1, <2>2, MarkedRows
  <2>4. FailedJob(j) \in JobType /\ JobFits(FailedJob(j), file, asked)
    BY <1>0, <2>2, FailedFits
  <2>5. QED
    BY <1>0, <1>5, <2>1, <2>3, <2>4, JobStepInv DEF MarkScanFailed
<1>6. QED
  BY <1>1, <1>2, <1>3, <1>4, <1>5

\* A job only gets to the file of a document whose deletion was committed, and
\* to its row after the file.
LEMMA DeleteInv ==
  ASSUME IInv, NEW j \in Jobs,
         StartDelete(j) \/ EraseFile(j) \/ FailToErase(j) \/ DropRow(j) \/ Crash(j)
  PROVE  IInv'
<1>0. /\ job \in [Jobs -> JobType] /\ job[j] \in JobType
      /\ JobFits(job[j], file, asked) /\ crashed \in BOOLEAN
  BY Types DEF IInv
<1>f. job[j].task # "none" => FailedJob(j) \in JobType /\ JobFits(FailedJob(j), file, asked)
  BY <1>0, FailedFits
<1>1. CASE StartDelete(j) /\ ~Deletable(row)
  BY <1>0, <1>1, <1>f, JobStepInv DEF StartDelete
<1>2. CASE StartDelete(j) /\ Deletable(row)
  <2> DEFINE st == [job[j] EXCEPT !.pc = "erase"]
  <2>1. job' = [job EXCEPT ![j] = st]
    BY <1>2 DEF StartDelete
  <2>2. /\ st \in JobType /\ st.copy = job[j].copy /\ st.pc = "erase"
        /\ st.task # "none"
    BY <1>0, <1>2 DEF JobType, StartDelete
  <2> HIDE DEF st
  <2>3. asked
    <3>1. row # Gone
      BY <1>2, StatusDiffer DEF Deletable, Gone, UploadStatus, PENDING
    <3>2. QED
      BY <1>2, <3>1 DEF Deletable, IInv, RowFits
  <2>4. JobFits(st, file, asked)
    BY <1>0, <2>2, <2>3 DEF JobFits
  <2>5. QED
    BY <1>0, <1>2, <2>1, <2>2, <2>4, JobStepInv DEF StartDelete
<1>3. CASE FailToErase(j) \/ Crash(j)
  <2>1. job[j].task # "none"
    BY <1>0, <1>3 DEF FailToErase, Crash, JobFits
  <2>2. QED
    BY <1>0, <1>3, <1>f, <2>1, JobStepInv DEF FailToErase, Crash
<1>4. CASE EraseFile(j)
  <2> DEFINE st == [job[j] EXCEPT !.pc = "drop"]
  <2>1. /\ job[j].pc = "erase" /\ file' = "erased"
        /\ job' = [job EXCEPT ![j] = st]
        /\ UNCHANGED <<kind, row, entity, archived, req, calls, asked, crashed>>
    BY <1>4 DEF EraseFile
  <2>2. /\ st \in JobType /\ st.copy = job[j].copy /\ st.pc = "drop"
        /\ st.task # "none"
    BY <1>0, <2>1 DEF JobType, JobFits
  <2> HIDE DEF st
  <2>3. job' \in [Jobs -> JobType]
    BY <1>0, <2>1, <2>2
  <2>4. TypeOK'
    BY <2>1, <2>3 DEF IInv, TypeOK, JobType
  <2>5. asked
    BY <1>0, <2>1 DEF JobFits
  <2>6. \A d \in Rows : Fits(d, file) => Fits(d, file')
    BY <2>1, FitsLater
  <2>7. RowFits'
    BY <2>1, <2>6, Types DEF IInv, RowFits
  <2>8. \A r \in Requests : RequestFits(req[r], file, asked)'
    <3>1. \A r \in Requests : req[r].copy \in Rows
      BY Types DEF IInv, RequestType
    <3>2. QED
      BY <2>1, <2>6, <3>1 DEF IInv, RequestFits
  <2>9. \A i \in Jobs : JobFits(job[i], file, asked)'
    <3>1. \A i \in Jobs : job[i].copy \in Rows
      BY <1>0 DEF JobType
    <3>2. \A i \in Jobs : job'[i] = IF i = j THEN st ELSE job[i]
      BY <1>0, <2>1
    <3>3. QED
      BY <2>1, <2>2, <2>5, <2>6, <3>1, <3>2 DEF IInv, JobFits
  <2>10. NoFileLeft' /\ ErasedOnlyIfAsked'
    BY <2>1, <2>5 DEF NoFileLeft, ErasedOnlyIfAsked
  <2>11. QED
    BY <2>4, <2>7, <2>8, <2>9, <2>10 DEF IInv
<1>5. CASE DropRow(j)
  <2>1. /\ job[j].pc = "drop" /\ row' = Gone /\ entity' = FALSE
        /\ job' = [job EXCEPT ![j] = NoJob]
        /\ UNCHANGED <<kind, file, archived, req, calls, asked, crashed>>
    BY <1>5 DEF DropRow
  <2>2. job' \in [Jobs -> JobType]
    BY <1>0, <2>1, IdleFits
  <2>3. TypeOK'
    BY <2>1, <2>2 DEF IInv, TypeOK, JobType
  <2>4. file = "erased" /\ asked
    BY <1>0, <2>1 DEF JobFits
  <2>5. \A i \in Jobs : JobFits(job[i], file, asked)'
    <3>1. \A i \in Jobs : job'[i] = IF i = j THEN NoJob ELSE job[i]
      BY <1>0, <2>1
    <3>2. QED
      BY <2>1, <3>1, IdleFits DEF IInv
  <2>6. QED
    BY <2>1, <2>3, <2>4, <2>5 DEF IInv, RowFits, NoFileLeft, ErasedOnlyIfAsked
<1>6. QED
  BY <1>1, <1>2, <1>3, <1>4, <1>5

LEMMA StepInv == IInv /\ [Next]_vars => IInv'
<1> SUFFICES ASSUME IInv, [Next]_vars PROVE IInv'
  OBVIOUS
<1>1. CASE UNCHANGED vars
  BY <1>1 DEF vars, IInv, TypeOK, RowFits, NoFileLeft, ErasedOnlyIfAsked
<1>2. QED
  BY <1>1, UploadInv, RequestInv, CommitInv, ScanInv, DeleteInv
     DEF Next, RequestStep, JobStep

LEMMA InvAlways == Spec => []IInv
BY InitInv, StepInv, PTL DEF Spec

\* Every field of the row, of the requests and of the jobs keeps its type.
THEOREM DocumentTypes == Spec => []TypeOK
<1>1. IInv => TypeOK
  BY DEF IInv
<1>2. QED
  BY <1>1, InvAlways, PTL

\* However often clients call back, jobs are queued and rows are saved from
\* older copies, the columns of the row are those of one moment, and a verdict
\* is the one of the document's own file.
THEOREM DocumentsStayConsistent == Spec => []DocumentConsistent
<1>1. IInv => DocumentConsistent
  BY DEF IInv, RowFits, Fits, DocumentConsistent
<1>2. QED
  BY <1>1, InvAlways, PTL

\* Nothing is erased unless a request for the deletion was committed.
THEOREM ErasedOnlyWhenAsked == Spec => []ErasedOnlyIfAsked
<1>1. IInv => ErasedOnlyIfAsked
  BY DEF IInv
<1>2. QED
  BY <1>1, InvAlways, PTL

\* Wherever a deletion is cut short, the file goes before the row.
THEOREM NoFileIsLeft == Spec => []NoFileLeft
<1>1. IInv => NoFileLeft
  BY DEF IInv
<1>2. QED
  BY <1>1, InvAlways, PTL

=============================================================================
