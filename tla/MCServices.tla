----------------------------- MODULE MCServices -----------------------------
(***************************************************************************)
(* The services beside OMIS, for TLC.  They share no state: a behaviour is *)
(* one of a single component, which is chosen in the initial state, so TLC *)
(* explores the sum of their state spaces and not the product.  The        *)
(* variables of the other components are "off".                            *)
(*                                                                         *)
(* The instances are those of the modules that extend the components with  *)
(* their proofs, where there is one: ServicesProofs cites them.            *)
(***************************************************************************)
EXTENDS Bounds, MergeConstants, ReminderConstants, TLC

CONSTANTS Components,              \* the components to explore
          Requests, Jobs,          \* web requests, and slots for RQ jobs
          DocumentKinds,           \* Document
          Docs, Workers,           \* SearchIndex
          Identifiers,             \* Ingest
          Slots, Mails, Threshold  \* Reminder

VARIABLES component

VARIABLES
  docKind, docRow, docFile, docEntity, docArchived, docReq, docJob, docCalls,
  docAsked, docCrashed

VARIABLES
  db, doomed, index, exists, readAlias, writeAlias, target, command, syncs,
  completions, worker

VARIABLES
  source, export, objects, stored, ingested, ident, slipped, now, ingestJob,
  ingestOverlapped

VARIABLES
  monthly, due, runs, reminders, notify, mail, dismissal, failed, resent,
  reminderJob, reminderOverlapped

VARIABLES
  company, itemKind, owner, mergeRequest, late, mergeOverlapped, mergeOutdated,
  ignored

VARIABLES
  project, related, stageLog, projectRequest, forced, projectOutdated

docVars == <<docKind, docRow, docFile, docEntity, docArchived, docReq, docJob,
  docCalls, docAsked, docCrashed>>
idxVars == <<db, doomed, index, exists, readAlias, writeAlias, target,
  command, syncs, completions, worker>>
ingVars == <<source, export, objects, stored, ingested, ident, slipped, now,
  ingestJob, ingestOverlapped>>
remVars == <<monthly, due, runs, reminders, notify, mail, dismissal, failed,
  resent, reminderJob, reminderOverlapped>>
mrgVars == <<company, itemKind, owner, mergeRequest, late, mergeOverlapped,
  mergeOutdated, ignored>>
prjVars == <<project, related, stageLog, projectRequest, forced,
  projectOutdated>>

Doc == INSTANCE DocumentProofs WITH
  Kinds <- DocumentKinds,
  kind <- docKind, row <- docRow, file <- docFile, entity <- docEntity,
  archived <- docArchived, req <- docReq, job <- docJob, calls <- docCalls,
  asked <- docAsked, crashed <- docCrashed

Idx == INSTANCE SearchIndexProofs

Ing == INSTANCE IngestProofs WITH
  job <- ingestJob, overlapped <- ingestOverlapped

Rem == INSTANCE ReminderProofs WITH
  Jobs <- Slots, job <- reminderJob, overlapped <- reminderOverlapped

Mrg == INSTANCE CompanyMergeProofs WITH
  kind <- itemKind, request <- mergeRequest, overlapped <- mergeOverlapped,
  outdated <- mergeOutdated

Prj == INSTANCE InvestmentProject WITH
  request <- projectRequest, outdated <- projectOutdated

-----------------------------------------------------------------------------
DocOff ==
  /\ docKind = "off" /\ docRow = "off" /\ docFile = "off" /\ docEntity = "off"
  /\ docArchived = "off" /\ docReq = "off" /\ docJob = "off"
  /\ docCalls = "off" /\ docAsked = "off" /\ docCrashed = "off"

IdxOff ==
  /\ db = "off" /\ doomed = "off" /\ index = "off" /\ exists = "off"
  /\ readAlias = "off" /\ writeAlias = "off" /\ target = "off"
  /\ command = "off" /\ syncs = "off" /\ completions = "off" /\ worker = "off"

IngOff ==
  /\ source = "off" /\ export = "off" /\ objects = "off" /\ stored = "off"
  /\ ingested = "off" /\ ident = "off" /\ slipped = "off" /\ now = "off"
  /\ ingestJob = "off" /\ ingestOverlapped = "off"

RemOff ==
  /\ monthly = "off" /\ due = "off" /\ runs = "off" /\ reminders = "off"
  /\ notify = "off" /\ mail = "off" /\ dismissal = "off" /\ failed = "off"
  /\ resent = "off" /\ reminderJob = "off" /\ reminderOverlapped = "off"

MrgOff ==
  /\ company = "off" /\ itemKind = "off" /\ owner = "off"
  /\ mergeRequest = "off" /\ late = "off" /\ mergeOverlapped = "off"
  /\ mergeOutdated = "off" /\ ignored = "off"

PrjOff ==
  /\ project = "off" /\ related = "off" /\ stageLog = "off"
  /\ projectRequest = "off" /\ forced = "off" /\ projectOutdated = "off"

Init ==
  /\ component \in Components
  /\ IF component = "documents" THEN Doc!Init ELSE DocOff
  /\ IF component = "search" THEN Idx!Init ELSE IdxOff
  /\ IF component = "ingest" THEN Ing!Init ELSE IngOff
  /\ IF component = "reminders" THEN Rem!Init ELSE RemOff
  /\ IF component = "merges" THEN Mrg!Init ELSE MrgOff
  /\ IF component = "projects" THEN Prj!Init ELSE PrjOff

Next ==
  \/ /\ component = "documents" /\ Doc!Next
     /\ UNCHANGED <<component, idxVars, ingVars, remVars, mrgVars, prjVars>>
  \/ /\ component = "search" /\ Idx!Next
     /\ UNCHANGED <<component, docVars, ingVars, remVars, mrgVars, prjVars>>
  \/ /\ component = "ingest" /\ Ing!Next
     /\ UNCHANGED <<component, docVars, idxVars, remVars, mrgVars, prjVars>>
  \/ /\ component = "reminders" /\ Rem!Next
     /\ UNCHANGED <<component, docVars, idxVars, ingVars, mrgVars, prjVars>>
  \/ /\ component = "merges" /\ Mrg!Next
     /\ UNCHANGED <<component, docVars, idxVars, ingVars, remVars, prjVars>>
  \/ /\ component = "projects" /\ Prj!Next
     /\ UNCHANGED <<component, docVars, idxVars, ingVars, remVars, mrgVars>>

vars == <<component, docVars, idxVars, ingVars, remVars, mrgVars, prjVars>>

Spec == Init /\ [][Next]_vars

\* The fairness that the components state.
Fairness ==
  /\ \A r \in Requests : WF_docVars(component = "documents" /\ Doc!RequestStep(r))
  /\ \A j \in Jobs : SF_docVars(component = "documents" /\ Doc!JobStep(j))
  /\ \A p \in Workers : WF_idxVars(component = "search" /\ Idx!WorkerStep(p))
  /\ SF_idxVars(component = "search" /\ \E p \in Workers : Idx!SyncModel(p))
  /\ \A i \in 1..MaxIndex :
       SF_idxVars(component = "search"
                  /\ \E p \in Workers : Idx!CompleteModelMigration(p, i))
  /\ <>[][component = "search" => ~ \E p \in Workers : Idx!Setback(p)]_idxVars
  /\ \A i \in Identifiers : WF_ingVars(component = "ingest" /\ Ing!IdentStep(i))
  /\ \A j \in Jobs : WF_ingVars(component = "ingest" /\ Ing!JobStep(j))
  /\ <>[][component = "ingest" => ~Ing!Setback]_ingVars
  /\ \A j \in Slots :
       WF_remVars(component = "reminders"
                  /\ (Rem!SubscriptionStep(j) \/ Rem!FailSubscription(j)))
  /\ \A m \in Mails : WF_remVars(component = "reminders" /\ Rem!MailStep(m))

FairSpec == Spec /\ Fairness

\* What has no order and runs the same code is interchangeable.
Symmetry ==
  Permutations(Requests) \cup Permutations(Jobs) \cup Permutations(Companies)

-----------------------------------------------------------------------------
(* Properties: those of the components, as the components state them *)

\* The type invariant of each component.
TypeOK ==
  /\ component = "documents" => Doc!TypeOK
  /\ component = "search" => Idx!TypeOK
  /\ component = "ingest" => Ing!TypeOK
  /\ component = "reminders" => Rem!TypeOK
  /\ component = "merges" => Mrg!TypeOK
  /\ component = "projects" => Prj!TypeOK

\* The status, the dates and the verdict of a document never come from
\* different moments of its life, and a verdict is the one of its own file,
\* though requests and jobs save whole rows from copies they took earlier
\* (documents/models.py, _update_status).
DocumentConsistent == component = "documents" => Doc!DocumentConsistent

\* Nothing of a document is erased unless its deletion was asked for and
\* committed, also when the request that queued the job was rolled back
\* (documents/utils.py, perform_delete_document).
ErasedOnlyIfAsked == component = "documents" => Doc!ErasedOnlyIfAsked

\* A document that is gone leaves no file behind in S3, wherever the deletion
\* was cut short: the file is deleted first (documents/utils.py).
NoFileLeft == component = "documents" => Doc!NoFileLeft

\* Whatever commands and clean-ups look at when, searches and updates always
\* reach indices that exist, and what is written can be searched
\* (search/migrate.py, search/migrate_utils.py).
AliasesSound == component = "search" => Idx!AliasesSound

\* A document that can be found is found for as long as its row exists: a
\* migration moves it only after it is in the new index
\* (search/migrate_utils.py).
FoundStaysFound == [][component = "search" => Idx!KeepsFound]_vars

\* No two jobs ingest the same object: the three questions of an identification
\* follow the way of a job, so it cannot hide from them, unless it is between
\* the queue and its worker, goes back to the queue after a failure, or another
\* identification asks at the same time (ingest/tasks.py, identify_new_objects).
OneJobPerObject == component = "ingest" => Ing!OneJobPerObject

\* Once the most recent object is ingested its version of the record is in the
\* database, though jobs of older objects are late, fail half-way or run again,
\* unless they overlap, or the record is one the service exported after an older
\* object but had modified before it uploaded that
\* (ingest/tasks.py, _should_process_record).
NewestIsStored == component = "ingest" => Ing!NewestIsStored

\* However often jobs fail and run again, there is one reminder of an item,
\* unless two jobs of the subscription met or the adviser has dismissed the first
\* (reminder/tasks.py, create_..._reminder).
OneReminder == component = "reminders" => Rem!OneReminder

\* No reminder is mailed twice, unless the mail job itself failed
\* (reminder/tasks.py, send_email_notification_via_rq).
MailedOnce == component = "reminders" => Rem!MailedOnce

\* A reminder is only said to have been delivered if GOV.UK delivered a mail of
\* that reminder, however late ids and answers are written and whatever copy a
\* dismissal saves (reminder/tasks.py, update_notify_email_delivery_status_for_...).
DeliveryIsTrue == component = "reminders" => Rem!DeliveryIsTrue

\* A company whose data was transferred is archived, whatever requests save of
\* older copies of it (company/models/company.py, mark_as_transferred).
TransferredIsArchived == component = "merges" => Mrg!TransferredIsArchived

\* Nothing is left with a company that was merged into another one, except what
\* was written to it too late for the merge, and members of its team that the
\* target has too, unless an older copy undid a transfer in between
\* (company/merge.py, update_objects).
NothingLeftBehind == component = "merges" => Mrg!NothingLeftBehind

\* Following where companies were transferred to always ends at one that was
\* not, unless merges overlap or an older copy is saved over one
\* (company/merge.py, is_model_a_valid_merge_source and ..._target).
TransfersEnd == component = "merges" => Mrg!TransfersEnd

\* No two requests together bring a project to a stage without the columns it
\* requires, as long as nobody sets the stage by permission
\* (investment/project/serializers.py, validate).
StageIsComplete == component = "projects" => Prj!StageIsComplete

\* The stage log ends with the stage of the project, unless an older copy was
\* saved over it (investment/project/models.py, _update_stage_log).
StageIsLogged == component = "projects" => Prj!StageIsLogged

\* A document whose client called back once, and did not ask for its deletion,
\* does not wait for its scan for ever, unless a worker died
\* (documents/tasks.py, virus_scan_document).
ScanEnds ==
  (component = "documents" /\ Doc!AwaitsScan) ~> (component = "documents" => Doc!ScanIsOver)

\* Each row that is no longer saved is found in the end as it was saved last,
\* though jobs overtake each other and write to indices given up since
\* (search/bulk_sync.py, search/tasks.py).
RowsAreFound ==
  \A d \in Docs : <>[](component = "search" => Idx!IsFoundAsSaved(d))

\* A migration whose completion was queued ends with one index behind both
\* aliases, unless another mapping is deployed (search/migrate_utils.py).
MigrationEnds ==
  \A i \in 1..MaxIndex :
    (component = "search" /\ Idx!Scheduled(i)) ~> (component = "search" => Idx!Migrated(i))

\* The most recent object is ingested in the end, whatever failed before, unless
\* a newer one is uploaded (ingest/tasks.py, src/cron-scheduler.py).
LatestIsIngested ==
  \A k \in 1..MaxObjects :
    (component = "ingest" /\ Ing!IsLatest(k)) ~> (component = "ingest" => Ing!IsPast(k))

\* Whatever is due when a job is queued is mailed in the end, unless a job failed
\* or met another one: a job that is run again does not make up for the reminders
\* or mails that were not made (reminder/tasks.py, generate_..._for_subscription).
DueIsMailed ==
  \A p \in DueItems :
    (component = "reminders" /\ Rem!Awaits(p)) ~> (component = "reminders" => Rem!IsSettled(p))

=============================================================================
