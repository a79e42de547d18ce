---------------------------- MODULE SearchIndex -----------------------------
(***************************************************************************)
(* The OpenSearch indices of one search app: how saved and deleted rows     *)
(* get there, and how the app moves to an index with another mapping while *)
(* that goes on.                                                            *)
(*                                                                         *)
(* An index is numbered by the mapping it was made for, in the order of    *)
(* the deployments that changed it.  Searches go through the read alias,   *)
(* updates through the write alias; jobs look the aliases up once, when    *)
(* they start, and then name indices.  A document of a row is the version  *)
(* of the row it was made from, 0 if there is none.                        *)
(***************************************************************************)
EXTENDS Bounds, FiniteSets

CONSTANTS Docs,        \* the rows of the app's model
          Workers      \* RQ workers

VARIABLES db,          \* the version of each row
          doomed,      \* rows deleted whose documents are about to be
          index,       \* the documents of each index
          exists,      \* the indices there are
          readAlias, writeAlias,
          target,      \* the mapping of the deployed code
          command,     \* what migrate_search is doing
          syncs,       \* rows with a sync_object_task in the queue
          completions, \* mappings with a complete_model_migration job there
          worker       \* what each worker is doing

source == <<db, doomed>>
aliases == <<readAlias, writeAlias>>
queues == <<syncs, completions>>
vars == <<source, index, exists, aliases, target, command, queues, worker>>

Indices == 1..MaxIndex
Deleted == MaxVersion + 1
Versions == 0..MaxVersion
IsRow(d) == db[d] \in 1..MaxVersion

\* mode     what the job does: sync_object, sync_app, or sync_app to migrate
\* reads, writes   the indices behind the aliases when it looked
\* todo, doc, copy  what is left of its rows, and the one it has read
\* mapping  what a migration was queued for
Idle == [mode |-> "none", pc |-> "idle", mapping |-> 1, reads |-> {}, writes |-> 1,
         todo |-> {}, doc |-> CHOOSE d \in Docs : TRUE, copy |-> 0]

NoCommand == [pc |-> "idle", new |-> 1, old |-> 1]

Init ==
  /\ db \in [Docs -> {0, 1}] /\ doomed = {}
  /\ index = [i \in Indices |-> IF i = 1 THEN db ELSE [d \in Docs |-> 0]]
  /\ exists = {1} /\ readAlias = {1} /\ writeAlias = 1
  /\ target = 1 /\ command = NoCommand
  /\ syncs = {} /\ completions = {}
  /\ worker = [p \in Workers |-> Idle]

-----------------------------------------------------------------------------
(* Rows *)

\* On commit, post_save queues the synchronisation of the row.
SaveRow(d) ==
  /\ db[d] < MaxVersion
  /\ db' = [db EXCEPT ![d] = db[d] + 1]
  /\ syncs' = syncs \cup {d}
  /\ UNCHANGED <<doomed, index, exists, aliases, target, command, completions,
                 worker>>

DeleteRow(d) ==
  /\ IsRow(d) /\ db[d] < MaxVersion
  /\ db' = [db EXCEPT ![d] = Deleted]
  /\ doomed' = doomed \cup {d}
  /\ UNCHANGED <<index, exists, aliases, target, command, queues, worker>>

\* On commit, the request deletes the document behind the write alias.
DeleteDocument(d) ==
  /\ d \in doomed
  /\ doomed' = doomed \ {d}
  /\ index' = [index EXCEPT ![writeAlias][d] = 0]
  /\ UNCHANGED <<db, exists, aliases, target, command, queues, worker>>

-----------------------------------------------------------------------------
(* migrate_search, run at deployment under an advisory lock *)

\* A release with another mapping replaces the code everywhere.
Deploy ==
  /\ command.pc = "idle" /\ target < MaxIndex
  /\ target' = target + 1
  /\ UNCHANGED <<source, index, exists, aliases, command, queues, worker>>

\* migrate_app and the checks of _perform_migration.
MigrateApp ==
  /\ command.pc = "idle"
  /\ \/ /\ writeAlias # target /\ writeAlias \in readAlias
        /\ command' = [pc |-> "create", new |-> target, old |-> writeAlias]
     \/ /\ writeAlias = target /\ Cardinality(readAlias) # 1
        /\ command' = [pc |-> "schedule", new |-> target, old |-> writeAlias]
  /\ UNCHANGED <<source, index, exists, aliases, target, queues, worker>>

\* OpenSearch refuses to create an index that exists, and the command fails.
CreateIndex ==
  /\ command.pc = "create"
  /\ IF command.new \in exists
     THEN command' = NoCommand /\ UNCHANGED exists
     ELSE /\ command' = [command EXCEPT !.pc = "switch"]
          /\ exists' = exists \cup {command.new}
  /\ UNCHANGED <<source, index, aliases, target, queues, worker>>

\* Mutant: the read alias follows when the migration is complete.
ReadFromOld(new) == readAlias

ReadFromBoth(new) == readAlias \cup {new}

\* One alias transaction.
SwitchAliases ==
  /\ command.pc = "switch"
  /\ readAlias' = ReadFromBoth(command.new)
  /\ writeAlias' = command.new
  /\ command' = [command EXCEPT !.pc = "schedule"]
  /\ UNCHANGED <<source, index, exists, target, queues, worker>>

ScheduleResync ==
  /\ command.pc = "schedule"
  /\ completions' = completions \cup {command.new}
  /\ command' = NoCommand
  /\ UNCHANGED <<source, index, exists, aliases, target, syncs, worker>>

CrashCommand ==
  /\ command.pc # "idle"
  /\ command' = NoCommand
  /\ UNCHANGED <<source, index, exists, aliases, target, queues, worker>>

-----------------------------------------------------------------------------
(* Jobs that copy rows to documents *)

\* The job looks the aliases up, and lists the rows it has to copy. The nightly
\* one does nothing with the read alias.
Begin(p, mode, rows, mapping) ==
  /\ worker[p].pc = "idle"
  /\ worker' = [worker EXCEPT ![p] =
                  [Idle EXCEPT !.mode = mode, !.pc = "read", !.todo = rows,
                               !.mapping = mapping, !.writes = writeAlias,
                               !.reads = IF mode = "model" THEN {}
                                         ELSE readAlias]]

SyncObject(p, d) ==
  /\ d \in syncs
  /\ Begin(p, "object", {d}, 1)
  /\ syncs' = syncs \ {d}
  /\ UNCHANGED <<source, index, exists, aliases, target, command, completions>>

\* Mutant: an app that is being migrated is left to the migration.
RowsOutsideMigration ==
  {d \in Docs : IsRow(d) /\ Cardinality(readAlias) = 1}

RowsToSync == {d \in Docs : IsRow(d)}

\* sync_all_models, every night.
SyncModel(p) ==
  /\ RowsToSync # {}
  /\ Begin(p, "model", RowsToSync, 1)
  /\ UNCHANGED <<source, index, exists, aliases, target, command, queues>>

Migrating == \E p \in Workers : worker[p].mode = "migrate"

\* complete_model_migration: for the mapping of the deployed code, one at a time.
CompleteModelMigration(p, i) ==
  /\ i \in completions /\ i = target /\ ~Migrating
  /\ Cardinality(readAlias) # 1
  /\ Begin(p, "migrate", {d \in Docs : IsRow(d)}, i)
  /\ completions' = completions \ {i}
  /\ UNCHANGED <<source, index, exists, aliases, target, command, syncs>>

\* It does nothing while another one runs, or after that is done; with another
\* mapping than its own it fails until RQ gives it up.
AbandonMigration(i) ==
  /\ i \in completions
  /\ i # target \/ Migrating \/ Cardinality(readAlias) = 1
  /\ completions' = completions \ {i}
  /\ UNCHANGED <<source, index, exists, aliases, target, command, syncs, worker>>

\* What a job is after a row: it ends with the last one, and a migration goes on
\* to clean up.
Resume(st, todo) ==
  IF todo = {} /\ st.mode # "migrate" THEN Idle
  ELSE [st EXCEPT !.pc = "read", !.todo = todo, !.copy = 0]

\* A batch is one row here. A row that has been deleted is left out.
ReadRow(p) ==
  LET st == worker[p] IN
  /\ st.pc = "read"
  /\ \E d \in st.todo :
       worker' = [worker EXCEPT ![p] =
         IF IsRow(d)
         THEN [st EXCEPT !.pc = "write", !.todo = st.todo \ {d}, !.doc = d,
                         !.copy = db[d]]
         ELSE Resume(st, st.todo \ {d})]
  /\ UNCHANGED <<source, index, exists, aliases, target, command, queues>>

\* OpenSearch creates an index that is written to and does not exist.
WriteDocument(p) ==
  LET st == worker[p] IN
  /\ st.pc = "write"
  /\ index' = [index EXCEPT ![st.writes][st.doc] = st.copy]
  /\ exists' = exists \cup {st.writes}
  /\ worker' = [worker EXCEPT ![p] =
                  IF st.mode = "model" \/ st.reads \subseteq {st.writes}
                  THEN Resume(st, st.todo)
                  ELSE [st EXCEPT !.pc = "remove", !.copy = 0]]
  /\ UNCHANGED <<source, aliases, target, command, queues>>

\* delete_from_secondary_indices_callback
RemoveFromSecondary(p) ==
  LET st == worker[p] IN
  /\ st.pc = "remove"
  /\ index' = [i \in Indices |->
                 IF i \in st.reads \ {st.writes}
                 THEN [index[i] EXCEPT ![st.doc] = 0] ELSE index[i]]
  /\ worker' = [worker EXCEPT ![p] = Resume(st, st.todo)]
  /\ UNCHANGED <<source, exists, aliases, target, command, queues>>

\* Mutant: it does not wait for the last batch.
Listed(st) == TRUE

AllCopied(st) == st.todo = {}

\* _clean_up_aliases_and_indices looks the aliases up once more.
StartCleanUp(p) ==
  /\ worker[p].pc = "read" /\ AllCopied(worker[p]) /\ worker[p].mode = "migrate"
  /\ worker' = [worker EXCEPT ![p].pc = "detach", ![p].reads = readAlias,
                              ![p].writes = writeAlias]
  /\ UNCHANGED <<source, index, exists, aliases, target, command, queues>>

\* Mutant: the old index is emptied and kept.
Keep(st) == readAlias

Detach(st) == readAlias \ (st.reads \ {st.writes})

DetachIndices(p) ==
  /\ worker[p].pc = "detach"
  /\ readAlias' = Detach(worker[p])
  /\ worker' = [worker EXCEPT ![p].pc = "delete"]
  /\ UNCHANGED <<source, index, exists, writeAlias, target, command, queues>>

\* Those that no alias refers to are deleted.
DeleteIndices(p) ==
  LET unused == (worker[p].reads \ {worker[p].writes})
                  \ (readAlias \cup {writeAlias}) IN
  /\ worker[p].pc = "delete"
  /\ exists' = exists \ unused
  /\ index' = [i \in Indices |->
                 IF i \in unused THEN [d \in Docs |-> 0] ELSE index[i]]
  /\ worker' = [worker EXCEPT ![p] = Idle]
  /\ UNCHANGED <<source, aliases, target, command, queues>>

\* OpenSearch does not answer, or the worker dies: the job is queued again,
\* except the nightly one.
FailJob(p) ==
  LET st == worker[p] IN
  /\ st.pc # "idle"
  /\ syncs' = IF st.mode # "object" THEN syncs
              ELSE syncs \cup (IF st.pc = "read" THEN st.todo ELSE {st.doc})
  /\ completions' = IF st.mode # "migrate" THEN completions
                    ELSE completions \cup {st.mapping}
  /\ worker' = [worker EXCEPT ![p] = Idle]
  /\ UNCHANGED <<source, index, exists, aliases, target, command>>

-----------------------------------------------------------------------------
CommandStep ==
  MigrateApp \/ CreateIndex \/ SwitchAliases \/ ScheduleResync \/ CrashCommand

WorkerStep(p) ==
  \/ ReadRow(p) \/ WriteDocument(p) \/ RemoveFromSecondary(p)
  \/ StartCleanUp(p) \/ DetachIndices(p) \/ DeleteIndices(p)

StartJob(p) ==
  \/ \E d \in Docs : SyncObject(p, d)
  \/ SyncModel(p)
  \/ \E i \in Indices : CompleteModelMigration(p, i)

Next ==
  \/ \E d \in Docs : SaveRow(d) \/ DeleteRow(d) \/ DeleteDocument(d)
  \/ Deploy \/ CommandStep
  \/ \E p \in Workers : StartJob(p) \/ WorkerStep(p) \/ FailJob(p)
  \/ \E i \in Indices : AbandonMigration(i)

Spec == Init /\ [][Next]_vars

\* The failures that put a job off, and not those of one that has done it all.
Setback(p) ==
  /\ worker[p].pc # "delete"
  /\ FailJob(p)

\* Workers go on with their jobs, and take those that are queued, again and
\* again and every night; failures end. Nothing is assumed of deployments.
Fairness ==
  /\ \A p \in Workers : WF_vars(WorkerStep(p))
  /\ SF_vars(\E p \in Workers : SyncModel(p))
  /\ \A i \in Indices : SF_vars(\E p \in Workers : CompleteModelMigration(p, i))
  /\ <>[][~ \E p \in Workers : Setback(p)]_vars

FairSpec == Spec /\ Fairness

-----------------------------------------------------------------------------
(* Properties *)

TypeOK ==
  /\ db \in [Docs -> 0..Deleted] /\ doomed \subseteq Docs
  /\ index \in [Indices -> [Docs -> Versions]]
  /\ exists \subseteq Indices /\ readAlias \subseteq Indices
  /\ writeAlias \in Indices /\ target \in Indices
  /\ command \in [pc : {"idle", "create", "switch", "schedule"},
                  new : Indices, old : Indices]
  /\ syncs \subseteq Docs /\ completions \subseteq Indices
  /\ worker \in [Workers ->
       [mode : {"none", "object", "model", "migrate"},
        pc : {"idle", "read", "write", "remove", "detach", "delete"},
        mapping : Indices, reads : SUBSET Indices, writes : Indices,
        todo : SUBSET Docs, doc : Docs, copy : Versions]]

\* Whatever commands and clean-ups look at when, searches and updates always
\* reach indices that exist, and what is written can be searched
\* (search/migrate.py, search/migrate_utils.py).
AliasesSound ==
  /\ readAlias \cup {writeAlias} \subseteq exists
  /\ writeAlias \in readAlias

Found(d) == \E i \in readAlias : index[i][d] # 0

KeepsFound == \A d \in Docs : Found(d) /\ IsRow(d)' => Found(d)'

\* A document that can be found is found for as long as its row exists: a
\* migration moves it only after it is in the new index
\* (search/migrate_utils.py).
FoundStaysFound == [][KeepsFound]_vars

IsFoundAsSaved(d) == IsRow(d) => \E i \in readAlias : index[i][d] = db[d]

\* Each row that is no longer saved is found in the end as it was saved last,
\* though jobs overtake each other and write to indices given up since
\* (search/bulk_sync.py, search/tasks.py).
RowsAreFound == \A d \in Docs : <>[]IsFoundAsSaved(d)

Scheduled(i) == i \in completions /\ i = target
Migrated(i) == readAlias = {writeAlias} \/ i # target

\* A migration whose completion was queued ends with one index behind both
\* aliases, unless another mapping is deployed (search/migrate_utils.py).
MigrationEnds == \A i \in Indices : Scheduled(i) ~> Migrated(i)

=============================================================================
