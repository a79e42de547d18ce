--------------------------- MODULE ServicesProofs ---------------------------
(***************************************************************************)
(* The properties that the runs of MCServices check, for every value of    *)
(* the constants.                                                          *)
(*                                                                         *)
(* The work is in the proof modules of the components, which MCServices    *)
(* instantiates: each invariant there is inductive for the steps of its    *)
(* component.  (That of investment projects is short, and here.)  Here it  *)
(* is shown to be one of the whole: the component of a behaviour never     *)
(* changes, and the steps of the others leave its variables alone.         *)
(***************************************************************************)
EXTENDS MCServices, TLAPS

-----------------------------------------------------------------------------
(* Documents (DocumentProofs) *)

DocInv == component = "documents" => Doc!IInv

LEMMA DocInit == Init => DocInv
BY BoundsAssumption, Doc!InitInv DEF Init, DocInv

LEMMA DocStep == DocInv /\ [Next]_vars => DocInv'
<1>1. SUFFICES ASSUME DocInv, [Next]_vars, component' = "documents"
               PROVE  (Doc!IInv)'
  BY DEF DocInv
<1>2. component = "documents" /\ [Doc!Next]_(Doc!vars)
  BY <1>1 DEF Next, vars, docVars, Doc!vars
<1>3. QED
  BY <1>1, <1>2, BoundsAssumption, Doc!StepInv DEF DocInv

LEMMA DocAlways == Spec => []DocInv
BY DocInit, DocStep, PTL DEF Spec

\* However often clients call back, jobs are queued and rows are saved from older
\* copies, the columns of a document are those of one moment and a verdict is the
\* one of its own file (documents/models.py, _update_status).
THEOREM DocumentsAreConsistent == Spec => []DocumentConsistent
<1>1. DocInv => DocumentConsistent
  BY DEF DocInv, DocumentConsistent, Doc!IInv, Doc!RowFits, Doc!Fits,
       Doc!DocumentConsistent
<1>2. QED
  BY <1>1, DocAlways, PTL

\* Nothing of a document is erased unless a request for its deletion was committed
\* (documents/utils.py, perform_delete_document).
THEOREM ErasedDocumentsWereAskedFor == Spec => []ErasedOnlyIfAsked
<1>1. DocInv => ErasedOnlyIfAsked
  BY DEF DocInv, ErasedOnlyIfAsked, Doc!IInv
<1>2. QED
  BY <1>1, DocAlways, PTL

\* Wherever a deletion is cut short, the file in S3 goes before the row
\* (documents/utils.py, perform_delete_document).
THEOREM GoneDocumentsLeaveNoFile == Spec => []NoFileLeft
<1>1. DocInv => NoFileLeft
  BY DEF DocInv, NoFileLeft, Doc!IInv
<1>2. QED
  BY <1>1, DocAlways, PTL

-----------------------------------------------------------------------------
(* Search (SearchIndexProofs) *)

IdxInv == component = "search" => Idx!IInv

LEMMA IdxInit == Init => IdxInv
BY BoundsAssumption, Idx!InitInv DEF Init, IdxInv

LEMMA IdxStep == IdxInv /\ [Next]_vars => IdxInv'
<1>1. SUFFICES ASSUME IdxInv, [Next]_vars, component' = "search"
               PROVE  (Idx!IInv)'
  BY DEF IdxInv
<1>2. component = "search" /\ [Idx!Next]_(Idx!vars)
  BY <1>1 DEF Next, vars, idxVars, Idx!vars, Idx!source, Idx!aliases, Idx!queues
<1>3. QED
  BY <1>1, <1>2, BoundsAssumption, Idx!StepInv DEF IdxInv

LEMMA IdxAlways == Spec => []IdxInv
BY IdxInit, IdxStep, PTL DEF Spec

\* Searches and updates reach indices that exist, and what is written can be
\* searched, however migrations, clean-ups and synchronisations interleave
\* (search/migrate.py, search/migrate_utils.py).
THEOREM AliasesAreSound == Spec => []AliasesSound
<1>1. IdxInv => AliasesSound
  BY DEF IdxInv, AliasesSound, Idx!IInv
<1>2. QED
  BY <1>1, IdxAlways, PTL

IdxTypes == component = "search" => Idx!TypeOK

LEMMA IdxTypesAlways ==
  ASSUME Docs # {}
  PROVE  Spec => []IdxTypes
<1>1. Init => IdxTypes
  BY BoundsAssumption, Idx!TypeInit DEF Init, IdxTypes
<1>2. IdxTypes /\ [Next]_vars => IdxTypes'
  <2>1. SUFFICES ASSUME IdxTypes, [Next]_vars, component' = "search"
                 PROVE  (Idx!TypeOK)'
    BY DEF IdxTypes
  <2>2. component = "search" /\ [Idx!Next]_(Idx!vars)
    BY <2>1 DEF Next, vars, idxVars, Idx!vars, Idx!source, Idx!aliases, Idx!queues
  <2>3. QED
    BY <2>1, <2>2, BoundsAssumption, Idx!TypeStep DEF IdxTypes
<1>3. QED
  BY <1>1, <1>2, PTL DEF Spec

IdxFound == component = "search" => Idx!FoundInv

\* Throughout a migration, what can be found is found as long as its row exists,
\* however jobs of rows, the nightly one and the migration interleave and wherever
\* they fail (search/migrate_utils.py).  A second migration may lose it: the run
\* search_second_migration shows how.
THEOREM NoDocumentIsLost ==
  ASSUME Idx!OneMigration
  PROVE  Spec => FoundStaysFound
<1>1. CASE Docs = {}
  <2>1. [Next]_vars => [component = "search" => Idx!KeepsFound]_vars
    BY <1>1 DEF Idx!KeepsFound
  <2>2. QED
    BY <2>1, PTL DEF Spec, FoundStaysFound
<1>2. CASE Docs # {}
  <2>1. Init => IdxFound
    BY <1>2, BoundsAssumption, Idx!FoundInit DEF Init, IdxFound
  <2>2. IdxFound /\ [Next]_vars => IdxFound'
    <3>1. SUFFICES ASSUME IdxFound, [Next]_vars, component' = "search"
                   PROVE  (Idx!FoundInv)'
      BY DEF IdxFound
    <3>2. component = "search" /\ [Idx!Next]_(Idx!vars)
      BY <3>1 DEF Next, vars, idxVars, Idx!vars, Idx!source, Idx!aliases,
           Idx!queues
    <3>3. QED
      BY <1>2, <3>1, <3>2, BoundsAssumption, Idx!FoundStep DEF IdxFound
  <2>3. IdxFound /\ [Next]_vars => [component = "search" => Idx!KeepsFound]_vars
    <3>1. SUFFICES ASSUME IdxFound, Next, component = "search"
                   PROVE  Idx!KeepsFound
      OBVIOUS
    <3>2. Idx!Next
      BY <3>1 DEF Next
    <3>3. [Idx!KeepsFound]_(Idx!vars)
      BY <3>1, <3>2, BoundsAssumption, Idx!FoundStepKeeps DEF IdxFound
    <3>4. UNCHANGED Idx!vars => Idx!KeepsFound
      BY DEF Idx!KeepsFound, Idx!Found, Idx!vars, Idx!aliases
    <3>5. QED
      BY <3>3, <3>4
  <2>4. QED
    BY <2>1, <2>2, <2>3, PTL DEF Spec, FoundStaysFound
<1>3. QED
  BY <1>1, <1>2

-----------------------------------------------------------------------------
(* Ingestion (IngestProofs) *)

IngInv == component = "ingest" => Ing!TypeInv /\ Ing!OneInv /\ Ing!FreshInv

LEMMA IngInit == Init => IngInv
BY BoundsAssumption, Ing!TypeInit, Ing!OneInit, Ing!FreshInit DEF Init, IngInv

LEMMA IngStep == IngInv /\ [Next]_vars => IngInv'
<1>1. SUFFICES ASSUME IngInv, [Next]_vars, component' = "ingest"
               PROVE  (Ing!TypeInv /\ Ing!OneInv /\ Ing!FreshInv)'
  BY DEF IngInv
<1>2. component = "ingest" /\ [Ing!Next]_(Ing!vars)
  BY <1>1 DEF Next, vars, ingVars, Ing!vars, Ing!service
<1>3. QED
  BY <1>1, <1>2, BoundsAssumption, Ing!TypeStep, Ing!OneStep, Ing!FreshStep
       DEF IngInv

LEMMA IngAlways == Spec => []IngInv
BY IngInit, IngStep, PTL DEF Spec

\* No two jobs ingest the same object, unless one slipped between the three
\* questions of an identification (ingest/tasks.py, identify_new_objects).
THEOREM NoObjectHasTwoJobs == Spec => []OneJobPerObject
<1>1. IngInv => OneJobPerObject
  BY DEF IngInv, OneJobPerObject, Ing!OneInv, Ing!OneJobPerObject, Ing!Active
<1>2. QED
  BY <1>1, IngAlways, PTL

\* Once the most recent object is ingested its version of the record is in the
\* database, unless jobs of two objects overlapped or the record's date is not
\* that of its object (ingest/tasks.py, _should_process_record).
THEOREM NewestVersionIsStored == Spec => []NewestIsStored
<1>1. IngInv => NewestIsStored
  BY DEF IngInv, NewestIsStored, Ing!FreshInv, Ing!NewestIsStored,
       Ing!IsStored, Ing!Latest
<1>2. QED
  BY <1>1, IngAlways, PTL

-----------------------------------------------------------------------------
(* Merges (CompanyMergeProofs) *)

MrgInv == component = "merges" => Mrg!TransferInv /\ Mrg!ChainInv /\ Mrg!ItemsInv

LEMMA MrgInit == Init => MrgInv
BY NoneAssumption, Mrg!TransferInit, Mrg!ChainInit, Mrg!ItemsInit DEF Init,
  MrgInv

LEMMA MrgStep == MrgInv /\ [Next]_vars => MrgInv'
<1>1. SUFFICES ASSUME MrgInv, [Next]_vars, component' = "merges"
               PROVE  (Mrg!TransferInv /\ Mrg!ChainInv /\ Mrg!ItemsInv)'
  BY DEF MrgInv
<1>2. component = "merges" /\ [Mrg!Next]_(Mrg!vars)
  BY <1>1 DEF Next, vars, mrgVars, Mrg!vars
<1>3. QED
  BY <1>1, <1>2, NoneAssumption, Mrg!TransferStep, Mrg!ChainStep,
       Mrg!ItemsStep DEF MrgInv

LEMMA MrgAlways == Spec => []MrgInv
BY MrgInit, MrgStep, PTL DEF Spec

\* A company whose data was transferred is archived, whatever requests save of
\* older copies of it (company/models/company.py, mark_as_transferred).
THEOREM TransferredCompaniesAreArchived == Spec => []TransferredIsArchived
<1>1. MrgInv => TransferredIsArchived
  BY DEF MrgInv, TransferredIsArchived, Mrg!TransferInv, Mrg!Transferred,
       Mrg!TransferredIsArchived
<1>2. QED
  BY <1>1, MrgAlways, PTL

\* Following where companies were transferred to ends at one that was not, unless
\* merges overlap or an older copy is saved over one (company/merge.py,
\* is_model_a_valid_merge_source and is_model_a_valid_merge_target).
THEOREM ChainsOfTransfersEnd == Spec => []TransfersEnd
<1>1. MrgInv => TransfersEnd
  BY DEF MrgInv, TransfersEnd, Mrg!ChainInv
<1>2. QED
  BY <1>1, MrgAlways, PTL

\* Nothing is left with a merged company except what came too late for the merge
\* and what the target has already, unless an older copy undid a transfer
\* (company/merge.py, update_objects).
THEOREM MergesLeaveNothingBehind == Spec => []NothingLeftBehind
<1>1. MrgInv => NothingLeftBehind
  BY DEF MrgInv, NothingLeftBehind, Mrg!ItemsInv
<1>2. QED
  BY <1>1, MrgAlways, PTL

-----------------------------------------------------------------------------
(* Reminders (ReminderProofs) *)

RemInv == component = "reminders" => Rem!IInv

LEMMA RemInit == Init => RemInv
BY BoundsAssumption, DueItemsAssumption, Rem!InitInv DEF Init, RemInv

LEMMA RemStep == RemInv /\ [Next]_vars => RemInv'
<1>1. SUFFICES ASSUME RemInv, [Next]_vars, component' = "reminders"
               PROVE  (Rem!IInv)'
  BY DEF RemInv
<1>2. component = "reminders" /\ [Rem!Next]_(Rem!vars)
  BY <1>1 DEF Next, vars, remVars, Rem!vars
<1>3. QED
  BY <1>1, <1>2, BoundsAssumption, DueItemsAssumption, Rem!StepInv DEF RemInv

LEMMA RemAlways == Spec => []RemInv
BY RemInit, RemStep, PTL DEF Spec

\* There is one reminder of an item, unless two jobs of the subscription met or
\* the adviser has dismissed the first (reminder/tasks.py,
\* create_..._reminder).
THEOREM ItemsHaveOneReminder == Spec => []OneReminder
<1>1. RemInv => OneReminder
  BY DEF RemInv, OneReminder, Rem!IInv, Rem!OneInv
<1>2. QED
  BY <1>1, RemAlways, PTL

\* No reminder is mailed twice, unless the mail job itself failed
\* (reminder/tasks.py, send_email_notification_via_rq).
THEOREM RemindersAreMailedOnce == Spec => []MailedOnce
<1>1. RemInv => MailedOnce
  BY DEF RemInv, MailedOnce, Rem!IInv, Rem!SentInv, Rem!Apart, Rem!MailedOnce
<1>2. QED
  BY <1>1, RemAlways, PTL

\* A reminder is only said to have been delivered if GOV.UK delivered a mail of
\* that reminder (reminder/tasks.py,
\* update_notify_email_delivery_status_for_...).
THEOREM DeliveriesAreTrue == Spec => []DeliveryIsTrue
<1>1. RemInv => DeliveryIsTrue
  BY DEF RemInv, DeliveryIsTrue, Rem!IInv, Rem!TrueInv, Rem!IsTrue,
       Rem!DeliveryIsTrue
<1>2. QED
  BY <1>1, RemAlways, PTL

-----------------------------------------------------------------------------
(* Investment projects *)

ProjectRequest ==
  [pc : {"idle", "save"}, read : Prj!Rows, row : Prj!Rows,
   add : SUBSET Prj!ToMany, clear : SUBSET Prj!ToMany]

CompleteProject(d) == Prj!Complete(d.stage, d.filled, Prj!Columns)

\* Whatever is about to be saved is complete too.
PrjOK ==
  /\ Prj!TypeOK
  /\ forced \/ CompleteProject(project)
  /\ forced \/ \A r \in Requests :
       projectRequest[r].pc = "save" => CompleteProject(projectRequest[r].row)
  /\ Prj!StageIsLogged

LEMMA StageNumbers == Prj!Stages = {1, 2, 3, 4}
BY SMT DEF Prj!Stages, Prj!PROSPECT, Prj!VERIFY_WIN

LEMMA NewProjectType == Prj!NewProject \in Prj!Rows /\ Prj!Idle \in ProjectRequest
BY StageNumbers DEF Prj!NewProject, Prj!Rows, Prj!Idle, ProjectRequest, Prj!PROSPECT

LEMMA PrjOKInit == Prj!Init => PrjOK
<1> SUFFICES ASSUME Prj!Init PROVE PrjOK
  OBVIOUS
<1>1. Prj!TypeOK
  BY NewProjectType, StageNumbers
     DEF Prj!Init, Prj!TypeOK, ProjectRequest, Prj!PROSPECT
<1>2. CompleteProject(project)
  <2>1. project.stage = 1
    BY DEF Prj!Init, Prj!NewProject, Prj!PROSPECT
  <2>2. \A f \in Prj!Columns : Prj!RequiredFrom[f] \in {2, 3}
    BY DEF Prj!Columns, Prj!RequiredFrom, Prj!ASSIGN_PM, Prj!ACTIVE
  <2>3. QED
    BY <2>1, <2>2 DEF CompleteProject, Prj!Complete
<1>3. \A r \in Requests : projectRequest[r].pc = "idle"
  BY DEF Prj!Init, Prj!Idle
<1>4. Prj!StageIsLogged
  BY DEF Prj!Init, Prj!StageIsLogged, Prj!NewProject
<1>5. QED
  BY <1>1, <1>2, <1>3, <1>4 DEF PrjOK

\* What is validated is enough: a PATCH that leaves the stage alone keeps the
\* columns it does not mention.
LEMMA PatchIsComplete ==
  ASSUME PrjOK, NEW moves \in BOOLEAN, NEW new \in Prj!Stages,
         NEW data \in Prj!Data, moves \/ new = project.stage,
         NEW filled,
         filled = (project.filled \cup related \cup data.set) \ data.clear,
         Prj!Complete(new, filled, Prj!Validated(moves, data))
  PROVE  forced \/ Prj!Complete(new, filled \cap Prj!Columns, Prj!Columns)
<1> SUFFICES ASSUME ~forced, NEW f \in Prj!Columns, Prj!RequiredFrom[f] <= new
             PROVE  f \in filled
  BY DEF Prj!Complete
<1>1. CASE f \in Prj!Validated(moves, data)
  BY <1>1 DEF Prj!Complete
<1>2. CASE f \notin Prj!Validated(moves, data)
  <2>1. ~moves /\ f \notin data.clear
    BY <1>2 DEF Prj!Validated, Prj!Fields
  <2>2. f \in project.filled
    BY <2>1 DEF PrjOK, CompleteProject, Prj!Complete
  <2>3. QED
    BY <2>1, <2>2
<1>3. QED
  BY <1>1, <1>2

LEMMA PrjOKStep == PrjOK /\ [Prj!Next]_(Prj!vars) => PrjOK'
<1> SUFFICES ASSUME PrjOK, [Prj!Next]_(Prj!vars) PROVE PrjOK'
  OBVIOUS
<1>0. /\ projectRequest \in [Requests -> ProjectRequest] /\ project \in Prj!Rows
      /\ related \subseteq Prj!ToMany /\ stageLog \in Prj!Stages
      /\ forced \in BOOLEAN /\ projectOutdated \in BOOLEAN
  BY DEF PrjOK, Prj!TypeOK, ProjectRequest
\* A request that is going to save a row.
<1>1. ASSUME NEW r \in Requests, NEW st \in ProjectRequest,
             projectRequest' = [projectRequest EXCEPT ![r] = st],
             UNCHANGED <<project, related, stageLog, projectOutdated>>,
             forced' \in BOOLEAN, forced => forced',
             forced' \/ CompleteProject(st.row)
      PROVE  PrjOK'
  <2>1. projectRequest' \in [Requests -> ProjectRequest]
    BY <1>0, <1>1
  <2>2. Prj!TypeOK'
    BY <1>0, <1>1, <2>1 DEF Prj!TypeOK, ProjectRequest
  <2>3. \A q \in Requests :
          projectRequest'[q] = IF q = r THEN st ELSE projectRequest[q]
    BY <1>0, <1>1
  <2>4. QED
    BY <1>1, <2>2, <2>3 DEF PrjOK, Prj!StageIsLogged
<1>2. ASSUME NEW r \in Requests, Prj!PatchProject(r) PROVE PrjOK'
  <2>1. PICK moves \in BOOLEAN, new \in Prj!Stages, data \in Prj!Data :
          LET filled == (project.filled \cup related \cup data.set) \ data.clear IN
          /\ moves \/ new = project.stage
          /\ Prj!Complete(new, filled, Prj!Validated(moves, data))
          /\ projectRequest' = [projectRequest EXCEPT ![r] =
               [pc |-> "save", read |-> project,
                row |-> [stage |-> new, filled |-> filled \cap Prj!Columns],
                add |-> data.set \cap Prj!ToMany,
                clear |-> data.clear \cap Prj!ToMany]]
    BY <1>2 DEF Prj!PatchProject
  <2> DEFINE filled == (project.filled \cup related \cup data.set) \ data.clear
             row == [stage |-> new, filled |-> filled \cap Prj!Columns]
             st == [pc |-> "save", read |-> project, row |-> row,
                    add |-> data.set \cap Prj!ToMany,
                    clear |-> data.clear \cap Prj!ToMany]
  <2>2. row \in Prj!Rows /\ st \in ProjectRequest
    BY <1>0 DEF Prj!Rows, ProjectRequest
  <2>3. forced \/ CompleteProject(row)
    BY <2>1, PatchIsComplete DEF CompleteProject
  <2>4. projectRequest' = [projectRequest EXCEPT ![r] = st]
    BY <2>1
  <2>5. st.row = row
    OBVIOUS
  <2> HIDE DEF row, st
  <2>6. UNCHANGED <<project, related, stageLog, projectOutdated, forced>>
    BY <1>2 DEF Prj!PatchProject
  <2>7. QED
    BY <1>0, <1>1, <2>2, <2>3, <2>4, <2>5, <2>6
<1>3. ASSUME NEW r \in Requests, NEW stage \in Prj!Stages, Prj!ChangeStage(r, stage)
      PROVE  PrjOK'
  <2> DEFINE st == [Prj!Idle EXCEPT !.pc = "save", !.read = project,
                                !.row = [project EXCEPT !.stage = stage]]
  <2>1. [project EXCEPT !.stage = stage] \in Prj!Rows
    BY <1>0 DEF Prj!Rows
  <2>2. st \in ProjectRequest
    BY <1>0, <2>1 DEF Prj!Idle, ProjectRequest
  <2>3. projectRequest' = [projectRequest EXCEPT ![r] = st] /\ forced' = TRUE
    BY <1>3 DEF Prj!ChangeStage
  <2> HIDE DEF st
  <2>4. QED
    BY <1>1, <1>3, <2>2, <2>3 DEF Prj!ChangeStage
<1>4. ASSUME NEW r \in Requests, Prj!SaveProject(r) PROVE PrjOK'
  <2>1. projectRequest[r] \in ProjectRequest /\ projectRequest[r].row \in Prj!Rows
        /\ projectRequest[r].read \in Prj!Rows
        /\ projectRequest[r].add \subseteq Prj!ToMany
    BY <1>0 DEF ProjectRequest
  <2>2. /\ projectRequest[r].pc = "save"
        /\ project' = projectRequest[r].row
        /\ stageLog' = IF Prj!Moves(projectRequest[r])
                        THEN projectRequest[r].row.stage ELSE stageLog
        /\ related' = (related \cup projectRequest[r].add) \ projectRequest[r].clear
        /\ projectOutdated' = (projectOutdated \/ project # projectRequest[r].read)
        /\ projectRequest' = [projectRequest EXCEPT ![r] = Prj!Idle]
        /\ forced' = forced
    BY <1>4 DEF Prj!SaveProject
  <2>3. stageLog' \in Prj!Stages
    BY <1>0, <2>1, <2>2 DEF Prj!Rows
  <2>4. projectRequest' \in [Requests -> ProjectRequest]
    BY <1>0, <2>2, NewProjectType
  <2>5. projectOutdated' \in BOOLEAN
    BY <1>0, <2>2
  <2>6. Prj!TypeOK'
    BY <1>0, <2>1, <2>2, <2>3, <2>4, <2>5 DEF Prj!TypeOK, ProjectRequest
  <2>7. forced' \/ CompleteProject(project')
    BY <2>2 DEF PrjOK
  <2>8. \A q \in Requests : projectRequest'[q].pc = "save" =>
          projectRequest'[q] = projectRequest[q]
    BY <1>0, <2>2 DEF Prj!Idle
  <2>9. Prj!StageIsLogged'
    BY <2>2 DEF PrjOK, Prj!StageIsLogged, Prj!Moves
  <2>10. forced' \/ \A q \in Requests :
           projectRequest'[q].pc = "save" => CompleteProject(projectRequest'[q].row)
    BY <2>2, <2>8 DEF PrjOK
  <2>11. QED
    BY <2>6, <2>7, <2>9, <2>10 DEF PrjOK
<1>5. CASE UNCHANGED Prj!vars
  BY <1>5 DEF Prj!vars, PrjOK, Prj!TypeOK, Prj!StageIsLogged
<1>6. QED
  BY <1>2, <1>3, <1>4, <1>5 DEF Prj!Next

PrjInv == component = "projects" => PrjOK

LEMMA PrjInit == Init => PrjInv
BY PrjOKInit DEF Init, PrjInv

LEMMA PrjStep == PrjInv /\ [Next]_vars => PrjInv'
<1>1. SUFFICES ASSUME PrjInv, [Next]_vars, component' = "projects"
               PROVE  PrjOK'
  BY DEF PrjInv
<1>2. component = "projects" /\ [Prj!Next]_(Prj!vars)
  BY <1>1 DEF Next, vars, prjVars, Prj!vars
<1>3. QED
  BY <1>1, <1>2, PrjOKStep DEF PrjInv

LEMMA PrjAlways == Spec => []PrjInv
BY PrjInit, PrjStep, PTL DEF Spec

\* No two requests together bring a project to a stage without the columns it
\* requires, unless the stage was forced (investment/project/serializers.py,
\* validate).
THEOREM StagesAreComplete == Spec => []StageIsComplete
<1>1. PrjInv => StageIsComplete
  BY DEF PrjInv, StageIsComplete, PrjOK, Prj!StageIsComplete,
       CompleteProject
<1>2. QED
  BY <1>1, PrjAlways, PTL

\* The stage log ends with the stage of the project, unless an older copy was
\* saved over a newer row (investment/project/models.py, _update_stage_log).
THEOREM StagesAreLogged == Spec => []StageIsLogged
<1>1. PrjInv => StageIsLogged
  BY DEF PrjInv, StageIsLogged, PrjOK
<1>2. QED
  BY <1>1, PrjAlways, PTL

-----------------------------------------------------------------------------
(* All of them *)

\* The types of whichever component there is; an app has rows at all.
THEOREM ServicesTypes ==
  ASSUME Docs # {}
  PROVE  Spec => []TypeOK
<1>1. DocInv => (component = "documents" => Doc!TypeOK)
  BY DEF DocInv, Doc!IInv
<1>2. IngInv => (component = "ingest" => Ing!TypeOK)
  BY DEF IngInv, Ing!TypeInv
<1>3. RemInv => (component = "reminders" => Rem!TypeOK)
  BY DEF RemInv, Rem!IInv, Rem!TypeInv
<1>4. MrgInv => (component = "merges" => Mrg!TypeOK)
  BY DEF MrgInv, Mrg!TransferInv, Mrg!TypeInv
<1>5. PrjInv => (component = "projects" => Prj!TypeOK)
  BY DEF PrjInv, PrjOK
<1>6. IdxTypes /\ DocInv /\ IngInv /\ RemInv /\ MrgInv /\ PrjInv => TypeOK
  BY <1>1, <1>2, <1>3, <1>4, <1>5 DEF TypeOK, IdxTypes
<1>7. QED
  BY <1>6, IdxTypesAlways, DocAlways, IngAlways, RemAlways, MrgAlways, PrjAlways, PTL

=============================================================================
