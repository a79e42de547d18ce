------------------------------- MODULE Ingest -------------------------------
(***************************************************************************)
(* The ingestion of the objects that a data service leaves in S3.  A cron  *)
(* job identifies the most recent object and queues its ingestion; an RQ   *)
(* worker copies the records of the object to the database, those that were *)
(* modified since the last ingestion, and records the object as ingested.  *)
(*                                                                         *)
(* An object holds one record here, a version of which is the time it was  *)
(* modified at the service.  Objects are numbered by the order of upload.  *)
(***************************************************************************)
EXTENDS Bounds, Sequences

CONSTANTS Identifiers,  \* identification tasks that may run at once
          Jobs          \* slots for ingestion jobs

VARIABLES now,
          source,       \* the version of the record at the service
          export,       \* the version it is about to upload, or 0
          objects,      \* [holds, created] of each object in S3
          stored,       \* the version in the database
          ingested,     \* the objects with an IngestedObject row
          ident, job,   \* what identification tasks and jobs are doing
          overlapped,   \* whether jobs of two objects ever ran at once
          slipped       \* whether an identification may have missed a job

service == <<now, source, export, objects>>
vars == <<service, stored, ingested, ident, job, overlapped, slipped>>

NoIdent == [pc |-> "idle", key |-> 0]
NoJob == [pc |-> "free", key |-> 0, left |-> 0, last |-> 0]

Init ==
  /\ now = 1 /\ source = 1 /\ export = 0 /\ objects = <<>>
  /\ stored = 0 /\ ingested = {}
  /\ ident = [i \in Identifiers |-> NoIdent]
  /\ job = [j \in Jobs |-> NoJob]
  /\ overlapped = FALSE /\ slipped = FALSE

-----------------------------------------------------------------------------
(* The data service *)

Modify ==
  /\ now < MaxTime
  /\ now' = now + 1 /\ source' = now'
  /\ UNCHANGED <<export, objects, stored, ingested, ident, job, overlapped, slipped>>

Export ==
  /\ export = 0 /\ Len(objects) < MaxObjects
  /\ export' = source
  /\ UNCHANGED <<now, source, objects, stored, ingested, ident, job, overlapped,
                 slipped>>

Upload ==
  /\ export # 0
  /\ now' = now + 1
  /\ objects' = Append(objects, [holds |-> export, created |-> now'])
  /\ export' = 0
  /\ UNCHANGED <<source, stored, ingested, ident, job, overlapped, slipped>>

-----------------------------------------------------------------------------
(* Identification: is the most recent object queued, running or ingested? *)

Queued(k) == \E j \in Jobs : job[j].pc = "queued" /\ job[j].key = k

\* A worker that has just taken a job from the queue does not show it yet as
\* its current job.
Taken(k) == \E j \in Jobs : job[j].pc = "taken" /\ job[j].key = k

\* Mutant: only the queue is asked.
NeverRunning(k) == FALSE

Running(k) ==
  \E j \in Jobs : job[j].pc \in {"process", "record", "chain"} /\ job[j].key = k

\* Mutant: any object of the data service will do.
AnyIngested(k) == ingested # {}

WasIngested(k) == k \in ingested

Identify(i) ==
  /\ ident[i].pc = "idle" /\ objects # <<>>
  /\ ident' = [ident EXCEPT ![i] = [pc |-> "queued", key |-> Len(objects)]]
  /\ slipped' = (slipped \/ \E h \in Identifiers \ {i} : ident[h].pc # "idle")
  /\ UNCHANGED <<service, stored, ingested, job, overlapped>>

Found(i) ==
  \/ ident[i].pc = "queued" /\ Queued(ident[i].key)
  \/ ident[i].pc = "running" /\ Running(ident[i].key)
  \/ ident[i].pc = "ingested" /\ WasIngested(ident[i].key)

GoOn(i, next) ==
  ident' = [ident EXCEPT ![i] = IF Found(i) THEN NoIdent ELSE [@ EXCEPT !.pc = next]]

CheckQueued(i) ==
  /\ ident[i].pc = "queued"
  /\ GoOn(i, "running")
  /\ UNCHANGED <<service, stored, ingested, job, overlapped, slipped>>

CheckRunning(i) ==
  /\ ident[i].pc = "running"
  /\ GoOn(i, "ingested")
  /\ slipped' = (slipped \/ Taken(ident[i].key))
  /\ UNCHANGED <<service, stored, ingested, job, overlapped>>

CheckIngested(i) ==
  /\ ident[i].pc = "ingested"
  /\ GoOn(i, "schedule")
  /\ UNCHANGED <<service, stored, ingested, job, overlapped, slipped>>

ScheduleIngestion(i) ==
  /\ ident[i].pc = "schedule"
  /\ \E j \in Jobs :
       /\ job[j].pc = "free"
       /\ job' = [job EXCEPT ![j] = [NoJob EXCEPT !.pc = "queued",
                                     !.key = ident[i].key, !.left = MaxRetries]]
  /\ ident' = [ident EXCEPT ![i] = NoIdent]
  /\ UNCHANGED <<service, stored, ingested, overlapped, slipped>>

FailIdentification(i) ==
  /\ ident[i].pc # "idle"
  /\ ident' = [ident EXCEPT ![i] = NoIdent]
  /\ UNCHANGED <<service, stored, ingested, job, overlapped, slipped>>

-----------------------------------------------------------------------------
(* Ingestion *)

Take(j) ==
  /\ job[j].pc = "queued"
  /\ job' = [job EXCEPT ![j].pc = "taken"]
  /\ UNCHANGED <<service, stored, ingested, ident, overlapped, slipped>>

\* Mutant: when the latest object was uploaded.
LastUpload == objects[Len(objects)].created

\* get_last_ingestion_datetime: when the latest ingested object was created.
LastIngestion ==
  LET times == {0} \cup {objects[k].created : k \in ingested}
  IN  CHOOSE t \in times : \A u \in times : u <= t

Start(j) ==
  /\ job[j].pc = "taken"
  /\ job' = [job EXCEPT ![j].pc = "process", ![j].last = LastIngestion]
  /\ overlapped' = (overlapped \/ \E i \in Jobs :
                      job[i].pc \in {"process", "record"} /\ job[i].key # job[j].key)
  /\ UNCHANGED <<service, stored, ingested, ident, slipped>>

ShouldProcess(j) == objects[job[j].key].holds >= job[j].last

ProcessRecord(j) ==
  /\ job[j].pc = "process"
  /\ stored' = IF ShouldProcess(j) THEN objects[job[j].key].holds ELSE stored
  /\ job' = [job EXCEPT ![j].pc = "record"]
  /\ UNCHANGED <<service, ingested, ident, overlapped, slipped>>

RecordIngestion(j) ==
  /\ job[j].pc = "record"
  /\ ingested' = ingested \cup {job[j].key}
  /\ job' = [job EXCEPT ![j].pc = "chain"]
  /\ UNCHANGED <<service, stored, ident, overlapped, slipped>>

\* What some tasks do after it, like queuing the next identification.
Chain(j) ==
  /\ job[j].pc = "chain"
  /\ job' = [job EXCEPT ![j] = NoJob]
  /\ UNCHANGED <<service, stored, ingested, ident, overlapped, slipped>>

\* An exception or the death of the worker: RQ queues the job again at once.
FailJob(j) ==
  /\ job[j].pc \in {"process", "record", "chain"}
  /\ job' = [job EXCEPT ![j] =
       IF job[j].left = 0 THEN NoJob
       ELSE [NoJob EXCEPT !.pc = "queued", !.key = job[j].key,
                          !.left = job[j].left - 1]]
  /\ slipped' = (slipped \/ \E i \in Identifiers :
                   ident[i].pc = "running" /\ ident[i].key = job[j].key)
  /\ UNCHANGED <<service, stored, ingested, ident, overlapped>>

-----------------------------------------------------------------------------
IdentStep(i) ==
  \/ Identify(i) \/ CheckQueued(i) \/ CheckRunning(i) \/ CheckIngested(i)
  \/ ScheduleIngestion(i)

JobStep(j) ==
  Take(j) \/ Start(j) \/ ProcessRecord(j) \/ RecordIngestion(j) \/ Chain(j)

Failure ==
  \/ \E i \in Identifiers : FailIdentification(i)
  \/ \E j \in Jobs : FailJob(j)

\* The failures that put an ingestion off.  Where the question was answered, or
\* the object is ingested, a failure ends what was about to end.
Setback ==
  \/ \E i \in Identifiers : ~Found(i) /\ FailIdentification(i)
  \/ \E j \in Jobs : job[j].pc # "chain" /\ FailJob(j)

Next ==
  \/ Modify \/ Export \/ Upload
  \/ \E i \in Identifiers : IdentStep(i)
  \/ \E j \in Jobs : JobStep(j)
  \/ Failure

Spec == Init /\ [][Next]_vars

\* The identification runs every hour, workers take jobs and go on with them,
\* and failures end. Nothing is assumed of the service.
Fairness ==
  /\ \A i \in Identifiers : WF_vars(IdentStep(i))
  /\ \A j \in Jobs : WF_vars(JobStep(j))
  /\ <>[][~Setback]_vars

FairSpec == Spec /\ Fairness

-----------------------------------------------------------------------------
(* Properties *)

Times == 0..(MaxTime + MaxObjects)

TypeOK ==
  /\ now \in Times /\ source \in Times /\ export \in Times /\ stored \in Times
  /\ objects \in Seq([holds : Times, created : Times])
  /\ Len(objects) <= MaxObjects
  /\ ingested \subseteq DOMAIN objects
  /\ ident \in [Identifiers ->
       [pc : {"idle", "queued", "running", "ingested", "schedule"},
        key : 0..MaxObjects]]
  /\ job \in [Jobs ->
       [pc : {"free", "queued", "taken", "process", "record", "chain"},
        key : 0..MaxObjects, left : 0..MaxRetries, last : Times]]
  /\ overlapped \in BOOLEAN /\ slipped \in BOOLEAN

\* No two jobs ingest the same object: the three questions of an identification
\* follow the way of a job, so it cannot hide from them, unless it is between
\* the queue and its worker, goes back to the queue after a failure, or another
\* identification asks at the same time (ingest/tasks.py, identify_new_objects).
OneJobPerObject ==
  slipped \/ \A i, j \in Jobs :
    i # j /\ job[i].pc # "free" /\ job[j].pc # "free" => job[i].key # job[j].key

\* Modified before an object was uploaded, but after that was exported.
Hidden(k) == \E i \in ingested \ {k} : objects[k].holds < objects[i].created

\* Once the most recent object is ingested its version of the record is in the
\* database, though jobs of older objects are late, fail half-way or run again,
\* unless they overlap, or the record is one the service exported after an older
\* object but had modified before it uploaded that
\* (ingest/tasks.py, _should_process_record).
NewestIsStored ==
  LET latest == Len(objects) IN
  latest \in ingested =>
    overlapped \/ Hidden(latest) \/ stored = objects[latest].holds

IsLatest(k) == Len(objects) = k
IsPast(k) == k \in ingested \/ Len(objects) > k

\* The most recent object is ingested in the end, whatever failed before, unless
\* a newer one is uploaded (ingest/tasks.py, src/cron-scheduler.py).
LatestIsIngested == \A k \in 1..MaxObjects : IsLatest(k) ~> IsPast(k)

=============================================================================
