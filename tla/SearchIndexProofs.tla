------------------------- MODULE SearchIndexProofs --------------------------
(***************************************************************************)
(* What SearchIndex guarantees for any number of rows, workers and         *)
(* mappings.                                                               *)
(*                                                                         *)
(* Mappings are deployed in one direction, so the indices an alias refers  *)
(* to were made before the one that a migration is about to switch to, and *)
(* what a job saw of the aliases is never newer than they are.             *)
(***************************************************************************)
EXTENDS SearchIndex, TLAPS, FiniteSetTheorems

\* What is known of the indices that aliases, the command and jobs name.
NamesOK ==
  /\ exists \subseteq Indices /\ readAlias \subseteq Indices
  /\ writeAlias \in Indices /\ target \in Indices
  /\ DOMAIN worker = Workers
  /\ \A p \in Workers : /\ {"reads", "writes"} \subseteq DOMAIN worker[p]
                       /\ worker[p].reads \subseteq Indices
                       /\ worker[p].writes \in Indices

CommandOK ==
  \/ command = NoCommand
  \/ /\ DOMAIN command = {"pc", "new", "old"}
     /\ command.new \in Indices /\ command.new <= target
     /\ command.pc \in {"create", "switch"} => writeAlias < command.new
     /\ command.pc = "switch" => command.new \in exists

\* What a job saw of the aliases is not newer than they are.
Past(st) ==
  /\ \A i \in st.reads : i <= st.writes
  /\ st.writes <= writeAlias

IInv ==
  /\ NamesOK
  /\ CommandOK
  /\ AliasesSound
  /\ \A i \in readAlias : i <= writeAlias
  /\ writeAlias <= target
  /\ \A p \in Workers : Past(worker[p])

-----------------------------------------------------------------------------
LEMMA IndexNumbers ==
  /\ Indices \subseteq Nat /\ 1 \in Indices
  /\ \A i \in Indices : 1 <= i
BY BoundsAssumption DEF Indices

LEMMA IdleFields ==
  /\ Idle.reads = {} /\ Idle.writes = 1
  /\ {"reads", "writes"} \subseteq DOMAIN Idle
BY DEF Idle

LEMMA InitInv == Init => IInv
<1> SUFFICES ASSUME Init PROVE IInv
  OBVIOUS
<1>1. /\ exists = {1} /\ readAlias = {1} /\ writeAlias = 1 /\ target = 1
      /\ command = NoCommand /\ worker = [p \in Workers |-> Idle]
  BY DEF Init
<1>2. NamesOK
  BY <1>1, IndexNumbers, IdleFields DEF NamesOK
<1>3. CommandOK /\ AliasesSound
  BY <1>1 DEF CommandOK, AliasesSound
<1>4. \A p \in Workers : Past(worker[p])
  BY <1>1, IdleFields DEF Past
<1>5. QED
  BY <1>1, <1>2, <1>3, <1>4 DEF IInv

-----------------------------------------------------------------------------
(* Steps *)

\* Jobs leave the aliases and the command alone, and indices are only added.
LEMMA JobStepInv ==
  ASSUME IInv, UNCHANGED <<aliases, target, command>>,
         exists \subseteq exists', exists' \subseteq Indices,
         NEW p \in Workers, NEW st, worker' = [worker EXCEPT ![p] = st],
         {"reads", "writes"} \subseteq DOMAIN st,
         \/ st.reads = worker[p].reads /\ st.writes = worker[p].writes
         \/ st.reads = readAlias /\ st.writes = writeAlias
         \/ st.reads = {} /\ st.writes \in {1, writeAlias}
  PROVE  IInv'
<1>1. readAlias' = readAlias /\ writeAlias' = writeAlias /\ target' = target
  BY DEF aliases
<1>2. \A q \in Workers : worker'[q] = IF q = p THEN st ELSE worker[q]
  BY DEF IInv, NamesOK
<1>3. st.reads \subseteq Indices /\ st.writes \in Indices
  BY IndexNumbers DEF IInv, NamesOK
<1>4. NamesOK'
  BY <1>1, <1>2, <1>3 DEF IInv, NamesOK
<1>5. CommandOK' /\ AliasesSound'
  BY <1>1 DEF IInv, CommandOK, AliasesSound
<1>6. 1 <= writeAlias /\ writeAlias \in Nat
  BY IndexNumbers DEF IInv, NamesOK
<1>7. Past(st)'
  BY <1>1, <1>6 DEF IInv, Past
<1>8. \A q \in Workers : Past(worker[q])'
  BY <1>1, <1>2, <1>7 DEF IInv, Past
<1>9. QED
  BY <1>1, <1>4, <1>5, <1>8 DEF IInv

\* So do rows, and so does everything else that names no index.
LEMMA OtherStepInv ==
  ASSUME IInv, UNCHANGED <<aliases, target, command, exists, worker>>
  PROVE  IInv'
BY DEF IInv, NamesOK, CommandOK, AliasesSound, Past, aliases

LEMMA BeginInv ==
  ASSUME IInv, UNCHANGED <<aliases, target, command, exists>>,
         NEW p \in Workers, NEW mode, NEW rows, NEW mapping,
         Begin(p, mode, rows, mapping)
  PROVE  IInv'
<1> DEFINE st == [Idle EXCEPT !.mode = mode, !.pc = "read", !.todo = rows,
                              !.mapping = mapping, !.writes = writeAlias,
                              !.reads = IF mode = "model" THEN {}
                                        ELSE readAlias]
<1>1. /\ {"reads", "writes"} \subseteq DOMAIN st
      /\ st.reads \in {{}, readAlias} /\ st.writes = writeAlias
  BY IdleFields DEF Idle
<1>2. worker' = [worker EXCEPT ![p] = st]
  BY DEF Begin
<1>3. exists \subseteq exists' /\ exists' \subseteq Indices
  BY DEF IInv, NamesOK
<1> HIDE DEF st
<1>4. QED
  BY <1>1, <1>2, <1>3, JobStepInv

LEMMA CommandStepInv ==
  ASSUME IInv, CommandStep PROVE IInv'
<1>0. /\ writeAlias \in Nat /\ target \in Nat /\ target \in Indices
      /\ writeAlias <= target /\ readAlias \subseteq Nat
      /\ Indices \subseteq Nat
  BY IndexNumbers DEF IInv, NamesOK
\* The command changes nothing but itself and what exists.
<1>1. ASSUME UNCHANGED <<aliases, target, worker>>,
             exists \subseteq exists', exists' \subseteq Indices, CommandOK'
      PROVE  IInv'
  BY <1>1 DEF IInv, NamesOK, AliasesSound, Past, aliases
<1>2. CASE MigrateApp
  <2>1. UNCHANGED <<aliases, target, worker, exists>>
    BY <1>2 DEF MigrateApp
  <2>2. \/ /\ writeAlias # target
           /\ command' = [pc |-> "create", new |-> target, old |-> writeAlias]
        \/ command' = [pc |-> "schedule", new |-> target, old |-> writeAlias]
    BY <1>2 DEF MigrateApp
  <2>3. CommandOK'
    BY <1>0, <2>1, <2>2 DEF CommandOK, aliases
  <2>4. QED
    BY <1>1, <2>1, <2>3 DEF IInv, NamesOK
<1>3. CASE CreateIndex
  <2>1. command.pc = "create" /\ UNCHANGED <<aliases, target, worker>>
    BY <1>3 DEF CreateIndex
  <2>2. command # NoCommand
    BY <2>1 DEF NoCommand
  <2>3. /\ command.new \in Indices /\ command.new <= target /\ writeAlias < command.new
        /\ DOMAIN command = {"pc", "new", "old"}
    BY <2>1, <2>2 DEF IInv, CommandOK
  <2>4. CASE command' = NoCommand /\ UNCHANGED exists
    BY <1>1, <2>1, <2>4 DEF CommandOK, IInv, NamesOK
  <2>5. CASE /\ command' = [command EXCEPT !.pc = "switch"]
             /\ exists' = exists \cup {command.new}
    <3>1. command'.new = command.new /\ DOMAIN command' = {"pc", "new", "old"}
      BY <2>3, <2>5
    <3>2. CommandOK'
      BY <2>1, <2>3, <2>5, <3>1 DEF CommandOK, aliases
    <3>3. exists \subseteq exists' /\ exists' \subseteq Indices
      BY <2>3, <2>5 DEF IInv, NamesOK
    <3>4. QED
      BY <1>1, <2>1, <3>2, <3>3
  <2>6. QED
    BY <1>3, <2>4, <2>5 DEF CreateIndex
<1>4. CASE SwitchAliases
  <2>1. /\ command.pc = "switch"
        /\ readAlias' = readAlias \cup {command.new}
        /\ writeAlias' = command.new
        /\ command' = [command EXCEPT !.pc = "schedule"]
        /\ exists' = exists /\ target' = target /\ worker' = worker
    BY <1>4 DEF SwitchAliases, ReadFromBoth
  <2>2. command # NoCommand
    BY <2>1 DEF NoCommand
  <2>3. /\ command.new \in Indices /\ command.new <= target
        /\ writeAlias < command.new /\ command.new \in exists
        /\ DOMAIN command = {"pc", "new", "old"}
    BY <2>1, <2>2 DEF IInv, CommandOK
  <2>4. /\ DOMAIN command' = {"pc", "new", "old"}
        /\ command'.new = command.new /\ command'.pc \notin {"create", "switch"}
    BY <2>1, <2>3
  <2>5. CommandOK'
    BY <2>1, <2>3, <2>4 DEF CommandOK
  <2>6. NamesOK' /\ AliasesSound'
    BY <2>1, <2>3 DEF IInv, NamesOK, AliasesSound
  <2>7. \A i \in readAlias' : i <= writeAlias'
    BY <1>0, <2>1, <2>3 DEF IInv
  <2>8. \A q \in Workers : Past(worker[q])'
    <3>1. \A q \in Workers : worker[q].writes \in Nat
      BY IndexNumbers DEF IInv, NamesOK
    <3>2. QED
      BY <1>0, <2>1, <2>3, <3>1 DEF IInv, Past
  <2>9. QED
    BY <2>1, <2>3, <2>5, <2>6, <2>7, <2>8 DEF IInv
<1>5. CASE ScheduleResync \/ CrashCommand
  <2>1. UNCHANGED <<aliases, target, worker, exists>> /\ command' = NoCommand
    BY <1>5 DEF ScheduleResync, CrashCommand
  <2>2. QED
    BY <1>1, <2>1 DEF CommandOK, IInv, NamesOK
<1>6. QED
  BY <1>2, <1>3, <1>4, <1>5 DEF CommandStep

\* An old clean-up cannot detach the index that is written to now: it saw that
\* index only if it was written to then.
LEMMA DetachInv ==
  ASSUME IInv, NEW p \in Workers, DetachIndices(p) PROVE IInv'
<1>1. /\ readAlias' = readAlias \ (worker[p].reads \ {worker[p].writes})
      /\ worker' = [worker EXCEPT ![p].pc = "delete"]
      /\ UNCHANGED <<exists, writeAlias, target, command>>
  BY DEF DetachIndices, Detach
<1>2. /\ worker[p].writes \in Nat /\ writeAlias \in Nat
      /\ worker[p].reads \subseteq Nat
  BY IndexNumbers DEF IInv, NamesOK
<1>3. writeAlias \notin worker[p].reads \ {worker[p].writes}
  BY <1>2 DEF IInv, Past
<1>4. \A q \in Workers : /\ worker'[q].reads = worker[q].reads
                         /\ worker'[q].writes = worker[q].writes
  BY <1>1 DEF IInv, NamesOK
<1>5. NamesOK'
  BY <1>1, <1>4 DEF IInv, NamesOK
<1>6. CommandOK' /\ AliasesSound'
  BY <1>1, <1>3 DEF IInv, CommandOK, AliasesSound
<1>7. \A q \in Workers : Past(worker[q])'
  BY <1>1, <1>4 DEF IInv, Past
<1>8. QED
  BY <1>1, <1>5, <1>6, <1>7 DEF IInv

\* And it deletes no index that the command is about to switch to, which is
\* newer than all it saw.
LEMMA DeleteInv ==
  ASSUME IInv, NEW p \in Workers, DeleteIndices(p) PROVE IInv'
<1>1. /\ exists' = exists \ ((worker[p].reads \ {worker[p].writes})
                               \ (readAlias \cup {writeAlias}))
      /\ worker' = [worker EXCEPT ![p] = Idle]
      /\ readAlias' = readAlias /\ writeAlias' = writeAlias
      /\ UNCHANGED <<target, command>>
  BY DEF DeleteIndices, aliases
<1>2. /\ worker[p].writes \in Nat /\ writeAlias \in Nat /\ 1 <= writeAlias
      /\ worker[p].reads \subseteq Nat /\ Indices \subseteq Nat
  BY IndexNumbers DEF IInv, NamesOK
<1>3. \A q \in Workers : worker'[q] = IF q = p THEN Idle ELSE worker[q]
  BY <1>1 DEF IInv, NamesOK
<1>4. NamesOK'
  BY <1>1, <1>3, IdleFields, IndexNumbers DEF IInv, NamesOK
<1>5. AliasesSound'
  BY <1>1 DEF IInv, AliasesSound
<1>6. CommandOK'
  <2>1. CASE command = NoCommand
    BY <1>1, <2>1 DEF CommandOK
  <2>2. CASE command # NoCommand
    <3>1. command.pc = "switch" => command.new \notin worker[p].reads
      BY <1>2, <2>2 DEF IInv, CommandOK, Past
    <3>2. QED
      BY <1>1, <2>2, <3>1 DEF IInv, CommandOK
  <2>3. QED
    BY <2>1, <2>2
<1>7. \A q \in Workers : Past(worker[q])'
  BY <1>1, <1>2, <1>3, IdleFields DEF IInv, Past
<1>8. QED
  BY <1>1, <1>4, <1>5, <1>6, <1>7 DEF IInv

\* Going from one row to the next, a job names the indices it named before.
SameNames(new, old) ==
  /\ {"reads", "writes"} \subseteq DOMAIN new
  /\ new.reads = old.reads /\ new.writes = old.writes

LEMMA ResumeNames ==
  ASSUME NEW st, {"reads", "writes"} \subseteq DOMAIN st, NEW todo
  PROVE  SameNames(Resume(st, todo), st) \/ Resume(st, todo) = Idle
BY DEF SameNames, Resume

LEMMA CopyNames ==
  ASSUME NEW st, {"reads", "writes"} \subseteq DOMAIN st,
         NEW todo, NEW doc, NEW copy
  PROVE  /\ SameNames([st EXCEPT !.pc = "write", !.todo = todo, !.doc = doc,
                                 !.copy = copy], st)
         /\ SameNames([st EXCEPT !.pc = "remove", !.copy = 0], st)
BY DEF SameNames

LEMMA WorkerStepInv ==
  ASSUME IInv, NEW p \in Workers, StartJob(p) \/ WorkerStep(p) \/ FailJob(p)
  PROVE  IInv'
<1>0. /\ exists \subseteq Indices /\ p \in DOMAIN worker
      /\ {"reads", "writes"} \subseteq DOMAIN worker[p]
  BY DEF IInv, NamesOK
<1>1. CASE StartJob(p)
  <2>1. ASSUME NEW d \in Docs, SyncObject(p, d) PROVE IInv'
    BY <2>1, BeginInv DEF SyncObject
  <2>2. CASE SyncModel(p)
    BY <2>2, BeginInv DEF SyncModel
  <2>3. ASSUME NEW i \in Indices, CompleteModelMigration(p, i) PROVE IInv'
    BY <2>3, BeginInv DEF CompleteModelMigration
  <2>4. QED
    BY <1>1, <2>1, <2>2, <2>3 DEF StartJob
<1>2. CASE ReadRow(p)
  <2>1. PICK d \in worker[p].todo :
          worker' = [worker EXCEPT ![p] =
            IF IsRow(d)
            THEN [worker[p] EXCEPT !.pc = "write", !.todo = worker[p].todo \ {d},
                                   !.doc = d, !.copy = db[d]]
            ELSE Resume(worker[p], worker[p].todo \ {d})]
    BY <1>2 DEF ReadRow
  <2>2. PICK st : /\ worker' = [worker EXCEPT ![p] = st]
                  /\ SameNames(st, worker[p]) \/ st = Idle
    BY <1>0, <2>1, ResumeNames, CopyNames
  <2>3. UNCHANGED <<aliases, target, command, exists>>
    BY <1>2 DEF ReadRow
  <2>4. QED
    BY <1>0, <2>2, <2>3, IdleFields, JobStepInv DEF SameNames
<1>3. CASE WriteDocument(p)
  <2>1. worker' = [worker EXCEPT ![p] =
                     IF \/ worker[p].mode = "model"
                        \/ worker[p].reads \subseteq {worker[p].writes}
                     THEN Resume(worker[p], worker[p].todo)
                     ELSE [worker[p] EXCEPT !.pc = "remove", !.copy = 0]]
    BY <1>3 DEF WriteDocument
  <2>2. PICK st : /\ worker' = [worker EXCEPT ![p] = st]
                  /\ SameNames(st, worker[p]) \/ st = Idle
    BY <1>0, <2>1, ResumeNames, CopyNames
  <2>3. UNCHANGED <<aliases, target, command>> /\ exists' = exists \cup {worker[p].writes}
    BY <1>3 DEF WriteDocument
  <2>4. exists' \subseteq Indices
    BY <2>3 DEF IInv, NamesOK
  <2>5. QED
    BY <2>2, <2>3, <2>4, IdleFields, JobStepInv DEF SameNames
<1>4. CASE RemoveFromSecondary(p)
  <2>1. worker' = [worker EXCEPT ![p] = Resume(worker[p], worker[p].todo)]
    BY <1>4 DEF RemoveFromSecondary
  <2>2. PICK st : /\ worker' = [worker EXCEPT ![p] = st]
                  /\ SameNames(st, worker[p]) \/ st = Idle
    BY <1>0, <2>1, ResumeNames
  <2>3. UNCHANGED <<aliases, target, command, exists>>
    BY <1>4 DEF RemoveFromSecondary
  <2>4. QED
    BY <1>0, <2>2, <2>3, IdleFields, JobStepInv DEF SameNames
<1>5. CASE FailJob(p)
  <2>1. /\ worker' = [worker EXCEPT ![p] = Idle]
        /\ UNCHANGED <<aliases, target, command, exists>>
    BY <1>5 DEF FailJob
  <2>2. QED
    BY <1>0, <2>1, IdleFields, JobStepInv
<1>6. CASE StartCleanUp(p)
  <2> DEFINE st == [worker[p] EXCEPT !.pc = "detach", !.reads = readAlias,
                                     !.writes = writeAlias]
  <2>1. worker' = [worker EXCEPT ![p] = st]
    BY <1>0, <1>6 DEF StartCleanUp
  <2>2. UNCHANGED <<aliases, target, command, exists>>
    BY <1>6 DEF StartCleanUp
  <2>3. /\ {"reads", "writes"} \subseteq DOMAIN st
        /\ st.reads = readAlias /\ st.writes = writeAlias
    BY <1>0
  <2> HIDE DEF st
  <2>4. QED
    BY <1>0, <2>1, <2>2, <2>3, JobStepInv
<1>7. QED
  BY <1>1, <1>2, <1>3, <1>4, <1>5, <1>6, DetachInv, DeleteInv DEF WorkerStep

LEMMA StepInv == IInv /\ [Next]_vars => IInv'
<1> SUFFICES ASSUME IInv, [Next]_vars PROVE IInv'
  OBVIOUS
<1>1. ASSUME NEW d \in Docs, SaveRow(d) \/ DeleteRow(d) \/ DeleteDocument(d)
      PROVE  IInv'
  BY <1>1, OtherStepInv DEF SaveRow, DeleteRow, DeleteDocument
<1>2. CASE Deploy
  <2>1. /\ target' = target + 1 /\ target < MaxIndex /\ command.pc = "idle"
        /\ UNCHANGED <<aliases, exists, command, worker>>
    BY <1>2 DEF Deploy
  <2>2. target' \in Indices /\ target <= target' /\ target \in Nat
    BY <2>1, BoundsAssumption DEF IInv, NamesOK, Indices
  <2>3. NamesOK' /\ AliasesSound'
    BY <2>1, <2>2 DEF IInv, NamesOK, AliasesSound, aliases
  <2>4. /\ writeAlias \in Nat
        /\ command # NoCommand => command.new \in Nat
    BY IndexNumbers DEF IInv, NamesOK, CommandOK
  <2>5. CommandOK'
    BY <2>1, <2>2, <2>4 DEF IInv, CommandOK, aliases
  <2>6. QED
    BY <2>1, <2>2, <2>3, <2>4, <2>5 DEF IInv, Past, aliases
<1>3. ASSUME NEW i \in Indices, AbandonMigration(i) PROVE IInv'
  BY <1>3, OtherStepInv DEF AbandonMigration
<1>4. CASE UNCHANGED vars
  BY <1>4, OtherStepInv DEF vars
<1>5. QED
  BY <1>1, <1>2, <1>3, <1>4, CommandStepInv, WorkerStepInv DEF Next

\* Searches and updates always reach an index that exists, and what is written
\* can be searched, whatever the command that migrates and the jobs that clean
\* up after earlier migrations saw, and wherever they stopped.
THEOREM AliasesStaySound == Spec => []AliasesSound
<1>1. Spec => []IInv
  BY InitInv, StepInv, PTL DEF Spec
<1>2. IInv => AliasesSound
  BY DEF IInv
<1>3. QED
  BY <1>1, <1>2, PTL

-----------------------------------------------------------------------------
(* Types *)

JobType == [mode : {"none", "object", "model", "migrate"},
            pc : {"idle", "read", "write", "remove", "detach", "delete"},
            mapping : Indices, reads : SUBSET Indices, writes : Indices,
            todo : SUBSET Docs, doc : Docs, copy : Versions]

LEMMA TypeFold == TypeOK => worker \in [Workers -> JobType]
BY DEF TypeOK, JobType

LEMMA IdleType == Docs # {} => Idle \in JobType
<1> SUFFICES ASSUME Docs # {} PROVE Idle \in JobType
  OBVIOUS
<1>1. (CHOOSE d \in Docs : TRUE) \in Docs
  OBVIOUS
<1>2. 0 \in Versions
  BY BoundsAssumption DEF Versions
<1>3. QED
  BY <1>1, <1>2, IndexNumbers DEF Idle, JobType

LEMMA ResumeType ==
  ASSUME Docs # {}, NEW st \in JobType, NEW todo \in SUBSET Docs
  PROVE  Resume(st, todo) \in JobType
<1>1. 0 \in Versions
  BY BoundsAssumption DEF Versions
<1>2. QED
  BY <1>1, IdleType DEF Resume, JobType

LEMMA TypeInit == Docs # {} /\ Init => TypeOK
<1> SUFFICES ASSUME Docs # {}, Init PROVE TypeOK
  OBVIOUS
<1>1. /\ db \in [Docs -> {0, 1}] /\ doomed = {}
      /\ index = [i \in Indices |-> IF i = 1 THEN db ELSE [d \in Docs |-> 0]]
      /\ exists = {1} /\ readAlias = {1} /\ writeAlias = 1
      /\ target = 1 /\ command = NoCommand /\ syncs = {} /\ completions = {}
      /\ worker = [q \in Workers |-> Idle]
  BY DEF Init
<1>2. {0, 1} \subseteq Versions /\ {0, 1} \subseteq 0..Deleted
  BY BoundsAssumption DEF Versions, Deleted
<1>3. db \in [Docs -> Versions] /\ db \in [Docs -> 0..Deleted]
  BY <1>1, <1>2
<1>4. [d \in Docs |-> 0] \in [Docs -> Versions]
  BY <1>2
<1>5. index \in [Indices -> [Docs -> Versions]]
  BY <1>1, <1>3, <1>4
<1>6. worker \in [Workers -> JobType]
  BY <1>1, IdleType
<1>7. QED
  BY <1>1, <1>3, <1>5, <1>6, IndexNumbers DEF TypeOK, JobType, NoCommand

\* A step of one job.
LEMMA JobStepType ==
  ASSUME TypeOK, UNCHANGED <<source, writeAlias, target, command>>,
         NEW p \in Workers, NEW st \in JobType, worker' = [worker EXCEPT ![p] = st],
         index' \in [Indices -> [Docs -> Versions]],
         exists' \subseteq Indices, readAlias' \subseteq Indices,
         syncs' \subseteq Docs, completions' \subseteq Indices
  PROVE  TypeOK'
<1>1. worker' \in [Workers -> JobType]
  BY TypeFold
<1>2. QED
  BY <1>1 DEF TypeOK, JobType, source

LEMMA BeginType ==
  ASSUME TypeOK, NEW p \in Workers, NEW mode \in {"object", "model", "migrate"},
         NEW rows \in SUBSET Docs, NEW mapping \in Indices, Docs # {},
         Begin(p, mode, rows, mapping)
  PROVE  \E st \in JobType :
           /\ worker' = [worker EXCEPT ![p] = st]
           /\ st.mode = mode /\ st.pc = "read" /\ st.todo = rows
           /\ st.writes = writeAlias
<1> DEFINE st == [Idle EXCEPT !.mode = mode, !.pc = "read", !.todo = rows,
                              !.mapping = mapping, !.writes = writeAlias,
                              !.reads = IF mode = "model" THEN {}
                                        ELSE readAlias]
<1>1. worker' = [worker EXCEPT ![p] = st]
  BY DEF Begin
<1>2. Idle \in JobType
  BY IdleType
<1>3. readAlias \subseteq Indices /\ writeAlias \in Indices
  BY DEF TypeOK
<1>4. st \in JobType /\ st.mode = mode /\ st.pc = "read" /\ st.todo = rows
      /\ st.writes = writeAlias
  BY <1>2, <1>3 DEF JobType
<1>5. QED
  BY <1>1, <1>4

LEMMA WorkerStepType ==
  ASSUME TypeOK, Docs # {}, NEW p \in Workers,
         StartJob(p) \/ WorkerStep(p) \/ FailJob(p)
  PROVE  TypeOK'
<1>0. /\ worker \in [Workers -> JobType] /\ worker[p] \in JobType
      /\ index \in [Indices -> [Docs -> Versions]]
      /\ exists \subseteq Indices /\ readAlias \subseteq Indices
      /\ writeAlias \in Indices /\ syncs \subseteq Docs
      /\ completions \subseteq Indices
  BY TypeFold DEF TypeOK
<1>1. /\ 0 \in Versions /\ [d \in Docs |-> 0] \in [Docs -> Versions]
      /\ Idle \in JobType
  BY BoundsAssumption, IdleType DEF Versions
\* A job that begins changes the queues, at most.
<1>2. ASSUME NEW mode \in {"object", "model", "migrate"}, NEW rows \in SUBSET Docs,
             NEW mapping \in Indices, Begin(p, mode, rows, mapping),
             UNCHANGED <<source, index, exists, aliases, target, command>>,
             syncs' \subseteq syncs, completions' \subseteq completions
      PROVE  TypeOK'
  <2>1. PICK st \in JobType : worker' = [worker EXCEPT ![p] = st]
    BY <1>2, BeginType
  <2>2. QED
    BY <1>0, <1>2, <2>1, JobStepType DEF aliases
<1>3. CASE StartJob(p)
  <2>1. ASSUME NEW d \in Docs, SyncObject(p, d) PROVE TypeOK'
    BY <1>2, <2>1, IndexNumbers DEF SyncObject
  <2>2. CASE SyncModel(p)
    <3>1. RowsToSync \in SUBSET Docs
      BY DEF RowsToSync
    <3>2. QED
      BY <1>2, <2>2, <3>1, IndexNumbers DEF SyncModel, queues
  <2>3. ASSUME NEW m \in Indices, CompleteModelMigration(p, m) PROVE TypeOK'
    BY <1>2, <2>3 DEF CompleteModelMigration
  <2>4. QED
    BY <1>3, <2>1, <2>2, <2>3 DEF StartJob
<1>4. CASE ReadRow(p)
  <2>1. PICK d \in worker[p].todo :
          worker' = [worker EXCEPT ![p] =
            IF IsRow(d)
            THEN [worker[p] EXCEPT !.pc = "write", !.todo = worker[p].todo \ {d},
                                   !.doc = d, !.copy = db[d]]
            ELSE Resume(worker[p], worker[p].todo \ {d})]
    BY <1>4 DEF ReadRow
  <2>2. worker[p].todo \ {d} \in SUBSET Docs /\ d \in Docs
    BY <1>0 DEF JobType
  <2>3. IsRow(d) => db[d] \in Versions
    BY BoundsAssumption DEF IsRow, Versions
  <2>4. IsRow(d) => [worker[p] EXCEPT !.pc = "write", !.todo = worker[p].todo \ {d},
                                      !.doc = d, !.copy = db[d]] \in JobType
    BY <1>0, <2>2, <2>3 DEF JobType
  <2>5. PICK st \in JobType : worker' = [worker EXCEPT ![p] = st]
    BY <1>0, <2>1, <2>2, <2>4, ResumeType
  <2>6. QED
    BY <1>0, <1>4, <2>5, JobStepType DEF ReadRow, aliases, queues
<1>5. CASE WriteDocument(p)
  <2>1. /\ worker' = [worker EXCEPT ![p] =
                        IF \/ worker[p].mode = "model"
                           \/ worker[p].reads \subseteq {worker[p].writes}
                        THEN Resume(worker[p], worker[p].todo)
                        ELSE [worker[p] EXCEPT !.pc = "remove", !.copy = 0]]
        /\ index' = [index EXCEPT ![worker[p].writes][worker[p].doc] = worker[p].copy]
        /\ exists' = exists \cup {worker[p].writes}
    BY <1>5 DEF WriteDocument
  <2>2. /\ worker[p].todo \in SUBSET Docs /\ worker[p].writes \in Indices
        /\ worker[p].doc \in Docs /\ worker[p].copy \in Versions
    BY <1>0 DEF JobType
  <2>3. [worker[p] EXCEPT !.pc = "remove", !.copy = 0] \in JobType
    BY <1>0, <1>1 DEF JobType
  <2>4. PICK st \in JobType : worker' = [worker EXCEPT ![p] = st]
    BY <1>0, <2>1, <2>2, <2>3, ResumeType
  <2>5. index' \in [Indices -> [Docs -> Versions]]
    BY <1>0, <2>1, <2>2
  <2>6. QED
    BY <1>0, <1>5, <2>1, <2>2, <2>4, <2>5, JobStepType DEF WriteDocument, aliases, queues
<1>6. CASE RemoveFromSecondary(p)
  <2>1. /\ worker' = [worker EXCEPT ![p] = Resume(worker[p], worker[p].todo)]
        /\ index' = [i \in Indices |->
                       IF i \in worker[p].reads \ {worker[p].writes}
                       THEN [index[i] EXCEPT ![worker[p].doc] = 0] ELSE index[i]]
    BY <1>6 DEF RemoveFromSecondary
  <2>2. \A i \in Indices : [index[i] EXCEPT ![worker[p].doc] = 0] \in [Docs -> Versions]
    BY <1>0, <1>1
  <2>3. index' \in [Indices -> [Docs -> Versions]]
    BY <1>0, <2>1, <2>2
  <2>4. worker[p].todo \in SUBSET Docs
    BY <1>0 DEF JobType
  <2>5. QED
    BY <1>0, <1>6, <2>1, <2>3, <2>4, ResumeType, JobStepType
       DEF RemoveFromSecondary, aliases, queues
<1>7. CASE StartCleanUp(p)
  <2> DEFINE st == [worker[p] EXCEPT !.pc = "detach", !.reads = readAlias,
                                     !.writes = writeAlias]
  <2>1. worker' = [worker EXCEPT ![p] = st]
    BY <1>0, <1>7 DEF StartCleanUp
  <2>2. st \in JobType
    BY <1>0 DEF JobType
  <2> HIDE DEF st
  <2>3. QED
    BY <1>0, <1>7, <2>1, <2>2, JobStepType DEF StartCleanUp, aliases, queues
<1>8. CASE DetachIndices(p)
  <2>1. worker' = [worker EXCEPT ![p] = [worker[p] EXCEPT !.pc = "delete"]]
    BY <1>0, <1>8 DEF DetachIndices
  <2>2. [worker[p] EXCEPT !.pc = "delete"] \in JobType
    BY <1>0 DEF JobType
  <2>3. readAlias' \subseteq Indices
    BY <1>0, <1>8 DEF DetachIndices, Detach
  <2>4. QED
    BY <1>0, <1>8, <2>1, <2>2, <2>3, JobStepType DEF DetachIndices, queues
<1>9. CASE DeleteIndices(p)
  <2>1. /\ index' \in [Indices -> [Docs -> Versions]]
        /\ exists' \subseteq Indices
    BY <1>0, <1>1, <1>9 DEF DeleteIndices
  <2>2. QED
    BY <1>0, <1>1, <1>9, <2>1, JobStepType DEF DeleteIndices, aliases, queues
<1>10. CASE FailJob(p)
  <2>1. syncs' \subseteq Docs /\ completions' \subseteq Indices
    BY <1>0, <1>10 DEF FailJob, JobType
  <2>2. QED
    BY <1>0, <1>1, <1>10, <2>1, JobStepType DEF FailJob, aliases
<1>11. QED
  BY <1>3, <1>4, <1>5, <1>6, <1>7, <1>8, <1>9, <1>10 DEF WorkerStep

LEMMA TypeStep == Docs # {} /\ TypeOK /\ [Next]_vars => TypeOK'
<1> SUFFICES ASSUME Docs # {}, TypeOK, [Next]_vars PROVE TypeOK'
  OBVIOUS
<1>0. /\ db \in [Docs -> 0..Deleted] /\ doomed \subseteq Docs
      /\ index \in [Indices -> [Docs -> Versions]] /\ writeAlias \in Indices
      /\ exists \subseteq Indices /\ readAlias \subseteq Indices
      /\ target \in Indices /\ syncs \subseteq Docs /\ completions \subseteq Indices
      /\ command \in [pc : {"idle", "create", "switch", "schedule"},
                      new : Indices, old : Indices]
  BY DEF TypeOK
<1>1. NoCommand \in [pc : {"idle", "create", "switch", "schedule"},
                     new : Indices, old : Indices]
  BY IndexNumbers DEF NoCommand
<1>2. ASSUME NEW d \in Docs, SaveRow(d) PROVE TypeOK'
  <2>1. db' = [db EXCEPT ![d] = db[d] + 1] /\ db[d] + 1 \in 0..Deleted
    BY <1>0, <1>2, BoundsAssumption DEF SaveRow, Deleted
  <2>2. QED
    BY <1>0, <1>2, <2>1 DEF SaveRow, TypeOK, aliases
<1>3. ASSUME NEW d \in Docs, DeleteRow(d) PROVE TypeOK'
  <2>1. Deleted \in 0..Deleted
    BY BoundsAssumption DEF Deleted
  <2>2. QED
    BY <1>0, <1>3, <2>1 DEF DeleteRow, TypeOK, aliases, queues
<1>4. ASSUME NEW d \in Docs, DeleteDocument(d) PROVE TypeOK'
  <2>1. 0 \in Versions
    BY BoundsAssumption DEF Versions
  <2>2. index' \in [Indices -> [Docs -> Versions]]
    BY <1>0, <1>4, <2>1 DEF DeleteDocument
  <2>3. QED
    BY <1>0, <1>4, <2>2 DEF DeleteDocument, TypeOK, aliases, queues
<1>5. CASE Deploy
  <2>1. target' \in Indices
    BY <1>0, <1>5, BoundsAssumption DEF Deploy, Indices
  <2>2. QED
    BY <1>5, <2>1 DEF Deploy, TypeOK, source, aliases, queues
<1>6. CASE CommandStep
  <2>1. CASE MigrateApp
    BY <1>0, <2>1 DEF MigrateApp, TypeOK, source, aliases, queues
  <2>2. CASE CreateIndex
    BY <1>0, <1>1, <2>2 DEF CreateIndex, TypeOK, source, aliases, queues
  <2>3. CASE SwitchAliases
    BY <1>0, <2>3 DEF SwitchAliases, ReadFromBoth, TypeOK, source, queues
  <2>4. CASE ScheduleResync
    BY <1>0, <1>1, <2>4 DEF ScheduleResync, TypeOK, source, aliases
  <2>5. CASE CrashCommand
    BY <1>0, <1>1, <2>5 DEF CrashCommand, TypeOK, source, aliases, queues
  <2>6. QED
    BY <1>6, <2>1, <2>2, <2>3, <2>4, <2>5 DEF CommandStep
<1>7. ASSUME NEW i \in Indices, AbandonMigration(i) PROVE TypeOK'
  BY <1>0, <1>7 DEF AbandonMigration, TypeOK, source, aliases
<1>8. CASE UNCHANGED vars
  BY <1>8 DEF vars, TypeOK, source, aliases, queues
<1>9. QED
  BY <1>2, <1>3, <1>4, <1>5, <1>6, <1>7, <1>8, WorkerStepType DEF Next

\* The types of an app that has rows at all.
THEOREM SearchTypes ==
  ASSUME Docs # {}
  PROVE  Spec => []TypeOK
BY TypeInit, TypeStep, PTL DEF Spec

-----------------------------------------------------------------------------
(* One migration, beside whatever else is going on *)

OneMigration == MaxIndex <= 2

\* The rows a job still brings to an index, and those it has to do with.
ToCopy(st) == st.todo \cup (IF st.pc = "write" THEN {st.doc} ELSE {})
Rows(st) == st.todo \cup (IF st.pc \in {"write", "remove"} THEN {st.doc} ELSE {})

\* A row made after the migration began is not in the old index, and no job that
\* saw the aliases before brings it there.
Young(d) ==
  /\ index[1][d] = 0
  /\ \A q \in Workers : worker[q].writes = 1 => d \notin Rows(worker[q])

\* What the migration has not brought to the new index it is going to bring there.
Covered(st) ==
  \A d \in Docs : IsRow(d) => index[2][d] # 0 \/ d \in ToCopy(st) \/ Young(d)

CopyOK(st) ==
  /\ st.pc = "write" => st.copy # 0
  /\ st.pc = "remove" => st.writes = 2 /\ (IsRow(st.doc) => index[2][st.doc] # 0)
  /\ st.pc \in {"detach", "delete"} => st.mode = "migrate" /\ st.todo = {}
  /\ st.mode = "migrate" => st.writes = 2 /\ writeAlias = 2 /\ Covered(st)

\* Nothing knows of a row before it is made.
Unmade(d) ==
  /\ \A i \in Indices : index[i][d] = 0
  /\ d \notin syncs
  /\ \A q \in Workers : d \notin Rows(worker[q])

FoundInv ==
  /\ TypeOK
  /\ IInv
  /\ \A d \in doomed : db[d] = Deleted
  /\ \A d \in Docs : db[d] = 0 => Unmade(d)
  /\ \A p \in Workers : CopyOK(worker[p])

LEMMA IdleCopies == Rows(Idle) = {} /\ CopyOK(Idle)
BY DEF Rows, Idle, CopyOK

LEMMA RowNumbers ==
  ASSUME TypeOK, NEW d \in Docs
  PROVE  /\ IsRow(d) => db[d] # 0
         /\ db[d] = Deleted => ~IsRow(d) /\ db[d] # 0 /\ ~ (db[d] < MaxVersion)
         /\ IsRow(d) \/ db[d] = 0 \/ db[d] = Deleted
BY BoundsAssumption DEF TypeOK, IsRow, Deleted

LEMMA FoundInit == Docs # {} /\ Init => FoundInv
<1> SUFFICES ASSUME Docs # {}, Init PROVE FoundInv
  OBVIOUS
<1>1. TypeOK /\ IInv
  BY TypeInit, InitInv
<1>2. /\ doomed = {} /\ syncs = {} /\ worker = [q \in Workers |-> Idle]
      /\ index = [i \in Indices |-> IF i = 1 THEN db ELSE [d \in Docs |-> 0]]
  BY DEF Init
<1>3. \A d \in Docs : db[d] = 0 => Unmade(d)
  BY <1>2, IdleCopies DEF Unmade
<1>4. QED
  BY <1>1, <1>2, <1>3, IdleCopies DEF FoundInv

\* What a step of one job may do, and what the job is after it.  It has to do with
\* rows that were made, brings no row to an index but its own, takes none out of
\* the new one, and writes to the old one only if it did before.
Known(st) == \A d \in Docs : d \in Rows(st) \/ d \in syncs' => db[d] # 0

BringsItsOwn(p) ==
  \A d \in Docs : \A i \in Indices :
    index[i][d] = 0 =>
      index'[i][d] = 0 \/ (d \in Rows(worker[p]) /\ worker[p].writes = i)

KeepsNew == \A d \in Docs : 2 \in Indices /\ index[2][d] # 0 => index'[2][d] # 0

Follows(st, p) ==
  writeAlias = 2 /\ st.writes = 1 =>
    \A d \in Rows(st) : d \in Rows(worker[p]) /\ worker[p].writes = 1

CopyGoesOn(st) ==
  /\ st.pc = "write" => st.copy # 0
  /\ st.pc = "remove" => st.writes = 2 /\ (IsRow(st.doc) => index'[2][st.doc] # 0)
  /\ st.pc \in {"detach", "delete"} => st.mode = "migrate" /\ st.todo = {}
  /\ st.mode = "migrate" =>
       /\ st.writes = 2 /\ writeAlias = 2
       /\ \A d \in Docs :
            IsRow(d) => index'[2][d] # 0 \/ d \in ToCopy(st) \/ Young(d)

LEMMA JobStepFound ==
  ASSUME FoundInv, TypeOK', IInv', UNCHANGED <<db, doomed, writeAlias>>,
         NEW p \in Workers, NEW st, worker' = [worker EXCEPT ![p] = st],
         Known(st), BringsItsOwn(p), KeepsNew, Follows(st, p), CopyGoesOn(st)
  PROVE  FoundInv'
<1>1. \A q \in Workers : worker'[q] = IF q = p THEN st ELSE worker[q]
  BY TypeFold DEF FoundInv
<1>2. \A d \in Docs : IsRow(d)' <=> IsRow(d)
  BY DEF IsRow
<1>3. 1 \in Indices
  BY IndexNumbers
<1>4. ASSUME writeAlias = 2, NEW d \in Docs, Young(d) PROVE Young(d)'
  <2>1. index'[1][d] = 0
    BY <1>3, <1>4 DEF Young, BringsItsOwn
  <2>2. \A q \in Workers : worker'[q].writes = 1 => d \notin Rows(worker'[q])
    BY <1>1, <1>4 DEF Young, Follows
  <2>3. QED
    BY <2>1, <2>2 DEF Young, Rows
<1>5. \A d \in Docs : db'[d] = 0 => Unmade(d)'
  <2> SUFFICES ASSUME NEW d \in Docs, db[d] = 0 PROVE Unmade(d)'
    OBVIOUS
  <2>1. Unmade(d)
    BY DEF FoundInv
  <2>2. \A i \in Indices : index'[i][d] = 0
    BY <2>1 DEF Unmade, BringsItsOwn
  <2>3. \A q \in Workers : d \notin Rows(worker'[q])
    BY <1>1, <2>1 DEF Unmade, Known
  <2>4. QED
    BY <2>2, <2>3 DEF Unmade, Rows, Known
<1>6. ASSUME NEW q \in Workers PROVE CopyOK(worker[q])'
  <2>1. CASE q = p
    <3>1. worker'[q] = st
      BY <1>1, <2>1
    <3>2. st.mode = "migrate" => \A d \in Docs :
            IsRow(d)' => index'[2][d] # 0 \/ d \in ToCopy(st) \/ Young(d)'
      BY <1>2, <1>4 DEF CopyGoesOn
    <3>3. st.pc = "remove" => st.writes = 2 /\ (IsRow(st.doc)' => index'[2][st.doc] # 0)
      BY DEF IsRow, CopyGoesOn
    <3>4. QED
      BY <3>1, <3>2, <3>3 DEF CopyOK, CopyGoesOn, Covered, ToCopy, Young, Rows, IsRow
  <2>2. CASE q # p
    <3>1. worker'[q] = worker[q] /\ CopyOK(worker[q])
      BY <1>1, <2>2 DEF FoundInv
    <3>2. worker[q] \in JobType
      BY TypeFold DEF FoundInv
    <3>3. worker[q].writes \in Indices /\ worker[q].doc \in Docs
      BY <3>2 DEF JobType
    <3>4. worker[q].mode = "migrate" => \A d \in Docs :
            IsRow(d)' => index'[2][d] # 0 \/ d \in ToCopy(worker[q]) \/ Young(d)'
      BY <1>2, <1>4, <3>1, <3>3 DEF CopyOK, Covered, KeepsNew
    <3>5. worker[q].pc = "remove" =>
            worker[q].writes = 2 /\ (IsRow(worker[q].doc)' => index'[2][worker[q].doc] # 0)
      BY <1>2, <3>1, <3>3 DEF CopyOK, KeepsNew
    <3>6. QED
      BY <3>1, <3>4, <3>5 DEF CopyOK, Covered, ToCopy, Young, Rows, IsRow
  <2>3. QED
    BY <2>1, <2>2
<1>7. QED
  BY <1>5, <1>6 DEF FoundInv

\* What a row is to a job that goes on to the next one.
LEMMA ResumeCopies ==
  ASSUME NEW st \in JobType, NEW todo
  PROVE  /\ Rows(Resume(st, todo)) \subseteq todo
         /\ Resume(st, todo).pc \in {"idle", "read"}
         /\ \/ Resume(st, todo) = Idle
            \/ /\ Resume(st, todo).mode = st.mode
               /\ Resume(st, todo).writes = st.writes
               /\ ToCopy(Resume(st, todo)) = todo
         /\ Resume(st, todo).mode = "migrate" => st.mode = "migrate"
         /\ st.mode = "migrate" => Resume(st, todo) # Idle
BY DEF Resume, Rows, ToCopy, Idle, JobType

\* A job that begins after the aliases were switched writes to the new index, and
\* a migration begins after that.
LEMMA BeginFound ==
  ASSUME FoundInv, TypeOK', IInv', Docs # {}, OneMigration,
         UNCHANGED <<source, index, aliases>>,
         NEW p \in Workers, NEW mode \in {"object", "model", "migrate"},
         NEW rows \in SUBSET Docs, NEW mapping \in Indices,
         Begin(p, mode, rows, mapping), syncs' \subseteq syncs,
         \A d \in rows : db[d] # 0,
         mode = "migrate" => writeAlias = 2 /\ \A d \in Docs : IsRow(d) => d \in rows
  PROVE  FoundInv'
<1>1. PICK st \in JobType :
        /\ worker' = [worker EXCEPT ![p] = st]
        /\ st.mode = mode /\ st.pc = "read" /\ st.todo = rows
        /\ st.writes = writeAlias
  BY BeginType DEF FoundInv
<1>2. Rows(st) = rows /\ ToCopy(st) = rows
  BY <1>1 DEF Rows, ToCopy
<1>3. \A d \in Docs : d \in syncs' => db[d] # 0
  BY DEF FoundInv, Unmade
<1>4. UNCHANGED <<db, doomed, writeAlias>> /\ index' = index
  BY DEF source, aliases
<1>5. Known(st)
  BY <1>2, <1>3 DEF Known
<1>6. BringsItsOwn(p) /\ KeepsNew
  BY <1>4 DEF BringsItsOwn, KeepsNew
<1>7. Follows(st, p)
  BY <1>1 DEF Follows
<1>8. CopyGoesOn(st)
  BY <1>1, <1>2 DEF CopyGoesOn
<1>9. QED
  BY <1>1, <1>4, <1>5, <1>6, <1>7, <1>8, JobStepFound

LEMMA StartFound ==
  ASSUME FoundInv, TypeOK', IInv', Docs # {}, OneMigration,
         NEW p \in Workers, StartJob(p)
  PROVE  FoundInv'
<1>1. ASSUME NEW d \in Docs, SyncObject(p, d) PROVE FoundInv'
  <2>1. db[d] # 0
    BY <1>1 DEF SyncObject, FoundInv, Unmade
  <2>2. QED
    BY <1>1, <2>1, IndexNumbers, BeginFound DEF SyncObject
<1>2. CASE SyncModel(p)
  <2>1. /\ RowsToSync \in SUBSET Docs
        /\ \A d \in RowsToSync : db[d] # 0
    BY RowNumbers DEF RowsToSync, FoundInv
  <2>2. QED
    BY <1>2, <2>1, IndexNumbers, BeginFound DEF SyncModel, queues
<1>3. ASSUME NEW i \in Indices, CompleteModelMigration(p, i) PROVE FoundInv'
  <2> DEFINE rows == {d \in Docs : IsRow(d)}
  <2>1. \A d \in rows : db[d] # 0
    BY RowNumbers DEF FoundInv
  <2>2. writeAlias = 2
    <3>1. readAlias # {writeAlias}
      BY <1>3, FS_Singleton DEF CompleteModelMigration
    <3>2. PICK k \in readAlias : k # writeAlias
      BY <3>1 DEF FoundInv, IInv, AliasesSound
    <3>3. k \in Nat /\ 1 <= k /\ writeAlias \in Nat /\ writeAlias <= MaxIndex
          /\ k <= writeAlias
      BY IndexNumbers, BoundsAssumption DEF FoundInv, IInv, NamesOK, Indices
    <3>4. QED
      BY <3>2, <3>3, BoundsAssumption DEF OneMigration
  <2>3. /\ Begin(p, "migrate", rows, i) /\ syncs' = syncs
        /\ UNCHANGED <<source, index, aliases>>
    BY <1>3 DEF CompleteModelMigration
  <2>4. QED
    BY <2>1, <2>2, <2>3, BeginFound
<1>4. QED
  BY <1>1, <1>2, <1>3 DEF StartJob

\* Only what is written to the new index is removed from others.
LEMMA CopyFound ==
  ASSUME FoundInv, TypeOK', IInv', Docs # {}, OneMigration, NEW p \in Workers,
         ReadRow(p) \/ WriteDocument(p) \/ RemoveFromSecondary(p)
  PROVE  FoundInv'
<1>0. /\ worker[p] \in JobType /\ CopyOK(worker[p])
      /\ index \in [Indices -> [Docs -> Versions]]
      /\ UNCHANGED <<db, doomed, writeAlias>> /\ syncs' = syncs
  BY TypeFold DEF FoundInv, TypeOK, ReadRow, WriteDocument, RemoveFromSecondary,
       source, aliases, queues
<1>1. /\ worker[p].todo \in SUBSET Docs /\ worker[p].writes \in Indices
      /\ worker[p].doc \in Docs /\ worker[p].reads \subseteq Indices
  BY <1>0 DEF JobType
<1>2. \A d \in Docs : d \in Rows(worker[p]) \/ d \in syncs => db[d] # 0
  BY DEF FoundInv, Unmade
<1>3. CASE ReadRow(p)
  <2>1. /\ worker[p].pc = "read" /\ index' = index
        /\ \E d \in worker[p].todo :
             worker' = [worker EXCEPT ![p] =
               IF IsRow(d)
               THEN [worker[p] EXCEPT !.pc = "write", !.todo = worker[p].todo \ {d},
                                      !.doc = d, !.copy = db[d]]
               ELSE Resume(worker[p], worker[p].todo \ {d})]
    BY <1>3 DEF ReadRow
  <2>2. PICK d \in worker[p].todo :
          worker' = [worker EXCEPT ![p] =
            IF IsRow(d)
            THEN [worker[p] EXCEPT !.pc = "write", !.todo = worker[p].todo \ {d},
                                   !.doc = d, !.copy = db[d]]
            ELSE Resume(worker[p], worker[p].todo \ {d})]
    BY <2>1
  <2>3. /\ Rows(worker[p]) = worker[p].todo /\ ToCopy(worker[p]) = worker[p].todo
        /\ d \in Docs
    BY <1>1, <2>1 DEF Rows, ToCopy
  <2>4. CASE IsRow(d)
    <3> DEFINE st == [worker[p] EXCEPT !.pc = "write", !.todo = worker[p].todo \ {d},
                                       !.doc = d, !.copy = db[d]]
    <3>1. /\ st.pc = "write" /\ st.todo = worker[p].todo \ {d} /\ st.doc = d
          /\ st.copy = db[d] /\ st.mode = worker[p].mode
          /\ st.writes = worker[p].writes
      BY <1>0 DEF JobType
    <3>2. worker' = [worker EXCEPT ![p] = st]
      BY <2>2, <2>4
    <3> HIDE DEF st
    <3>3. Rows(st) = worker[p].todo /\ ToCopy(st) = worker[p].todo
      BY <3>1 DEF Rows, ToCopy
    <3>4. st.copy # 0
      BY <2>3, <2>4, <3>1, RowNumbers DEF FoundInv
    <3>5. Known(st) /\ Follows(st, p)
      BY <1>0, <1>2, <2>3, <3>1, <3>3 DEF Known, Follows
    <3>6. BringsItsOwn(p) /\ KeepsNew
      BY <2>1 DEF BringsItsOwn, KeepsNew
    <3>7. CopyGoesOn(st)
      BY <1>0, <2>1, <2>3, <3>1, <3>3, <3>4 DEF CopyGoesOn, CopyOK, Covered
    <3>8. QED
      BY <1>0, <3>2, <3>5, <3>6, <3>7, JobStepFound
  <2>5. CASE ~IsRow(d)
    <3> DEFINE st == Resume(worker[p], worker[p].todo \ {d})
    <3>1. worker' = [worker EXCEPT ![p] = st]
      BY <2>2, <2>5
    <3>2. /\ Rows(st) \subseteq worker[p].todo \ {d} /\ st.pc \in {"idle", "read"}
          /\ st = Idle \/ /\ st.mode = worker[p].mode /\ st.writes = worker[p].writes
                          /\ ToCopy(st) = worker[p].todo \ {d}
          /\ st.mode = "migrate" => worker[p].mode = "migrate"
          /\ worker[p].mode = "migrate" => st # Idle
      BY <1>0, ResumeCopies
    <3> HIDE DEF st
    <3>3. st = Idle => Rows(st) = {} /\ st.mode = "none"
      BY IdleCopies DEF Idle
    <3>4. st.mode = "migrate" => \A e \in Docs :
            IsRow(e) => index'[2][e] # 0 \/ e \in ToCopy(st) \/ Young(e)
      BY <1>0, <2>1, <2>3, <2>5, <3>2 DEF CopyOK, Covered
    <3>5. Known(st) /\ Follows(st, p)
      BY <1>0, <1>2, <2>3, <3>2, <3>3 DEF Known, Follows
    <3>6. BringsItsOwn(p) /\ KeepsNew
      BY <2>1 DEF BringsItsOwn, KeepsNew
    <3>7. CopyGoesOn(st)
      BY <1>0, <3>2, <3>3, <3>4 DEF CopyGoesOn, CopyOK
    <3>8. QED
      BY <1>0, <3>1, <3>5, <3>6, <3>7, JobStepFound
  <2>6. QED
    BY <2>4, <2>5
<1>4. CASE WriteDocument(p)
  <2>1. /\ worker[p].pc = "write"
        /\ worker' = [worker EXCEPT ![p] =
                        IF \/ worker[p].mode = "model"
                           \/ worker[p].reads \subseteq {worker[p].writes}
                        THEN Resume(worker[p], worker[p].todo)
                        ELSE [worker[p] EXCEPT !.pc = "remove", !.copy = 0]]
        /\ index' = [index EXCEPT ![worker[p].writes][worker[p].doc] = worker[p].copy]
    BY <1>4 DEF WriteDocument
  <2>2. /\ worker[p].copy # 0
        /\ worker[p].doc \in Rows(worker[p]) /\ worker[p].todo \subseteq Rows(worker[p])
        /\ ToCopy(worker[p]) = worker[p].todo \cup {worker[p].doc}
    BY <1>0, <2>1 DEF CopyOK, Rows, ToCopy
  <2>3. index'[worker[p].writes][worker[p].doc] = worker[p].copy
    BY <1>0, <1>1, <2>1
  <2>4. \A i \in Indices : \A d \in Docs :
          index'[i][d] = IF i = worker[p].writes /\ d = worker[p].doc
                         THEN worker[p].copy ELSE index[i][d]
    BY <1>0, <1>1, <2>1
  <2>5. BringsItsOwn(p)
    BY <2>2, <2>4 DEF BringsItsOwn
  <2>6. KeepsNew
    BY <2>2, <2>4 DEF KeepsNew
  <2>7. worker[p].mode = "migrate" => \A e \in Docs :
          IsRow(e) => index'[2][e] # 0 \/ e \in worker[p].todo \/ Young(e)
    BY <1>0, <1>1, <2>2, <2>3, <2>6 DEF CopyOK, Covered, KeepsNew
  <2>8. CASE \/ worker[p].mode = "model"
             \/ worker[p].reads \subseteq {worker[p].writes}
    <3> DEFINE st == Resume(worker[p], worker[p].todo)
    <3>1. worker' = [worker EXCEPT ![p] = st]
      BY <2>1, <2>8
    <3>2. /\ Rows(st) \subseteq worker[p].todo /\ st.pc \in {"idle", "read"}
          /\ st = Idle \/ /\ st.mode = worker[p].mode /\ st.writes = worker[p].writes
                          /\ ToCopy(st) = worker[p].todo
          /\ st.mode = "migrate" => worker[p].mode = "migrate"
          /\ worker[p].mode = "migrate" => st # Idle
      BY <1>0, ResumeCopies
    <3> HIDE DEF st
    <3>3. st = Idle => Rows(st) = {} /\ st.mode = "none"
      BY IdleCopies DEF Idle
    <3>4. Known(st) /\ Follows(st, p)
      BY <1>0, <1>2, <2>2, <3>2, <3>3 DEF Known, Follows
    <3>5. CopyGoesOn(st)
      BY <1>0, <2>7, <3>2, <3>3 DEF CopyGoesOn, CopyOK
    <3>6. QED
      BY <1>0, <2>5, <2>6, <3>1, <3>4, <3>5, JobStepFound
  <2>9. CASE ~ (\/ worker[p].mode = "model"
                \/ worker[p].reads \subseteq {worker[p].writes})
    <3> DEFINE st == [worker[p] EXCEPT !.pc = "remove", !.copy = 0]
    <3>1. worker' = [worker EXCEPT ![p] = st]
      BY <2>1, <2>9
    <3>2. /\ st.pc = "remove" /\ st.todo = worker[p].todo /\ st.doc = worker[p].doc
          /\ st.mode = worker[p].mode /\ st.writes = worker[p].writes
      BY <1>0 DEF JobType
    <3> HIDE DEF st
    <3>3. Rows(st) = worker[p].todo \cup {worker[p].doc} /\ ToCopy(st) = worker[p].todo
      BY <3>2 DEF Rows, ToCopy
    <3>4. worker[p].writes = 2
      <4>1. PICK i \in worker[p].reads : i # worker[p].writes
        BY <2>9
      <4>2. i <= worker[p].writes
        BY <4>1 DEF FoundInv, IInv, Past
      <4>3. i \in 1..MaxIndex /\ worker[p].writes \in 1..MaxIndex
        BY <1>1, <4>1 DEF Indices
      <4>4. QED
        BY <4>1, <4>2, <4>3, BoundsAssumption DEF OneMigration
    <3>5. st.writes = 2 /\ index'[2][st.doc] # 0
      BY <2>2, <2>3, <3>2, <3>4
    <3>6. Known(st) /\ Follows(st, p)
      BY <1>0, <1>2, <2>2, <3>2, <3>3 DEF Known, Follows
    <3>7. CopyGoesOn(st)
      BY <1>0, <2>7, <3>2, <3>3, <3>5 DEF CopyGoesOn, CopyOK
    <3>8. QED
      BY <1>0, <2>5, <2>6, <3>1, <3>6, <3>7, JobStepFound
  <2>10. QED
    BY <2>8, <2>9
<1>5. CASE RemoveFromSecondary(p)
  <2> DEFINE st == Resume(worker[p], worker[p].todo)
  <2>1. /\ worker[p].pc = "remove" /\ worker' = [worker EXCEPT ![p] = st]
        /\ index' = [i \in Indices |->
                       IF i \in worker[p].reads \ {worker[p].writes}
                       THEN [index[i] EXCEPT ![worker[p].doc] = 0] ELSE index[i]]
    BY <1>5 DEF RemoveFromSecondary
  <2>2. worker[p].writes = 2
    BY <1>0, <2>1 DEF CopyOK
  <2>3. \A i \in Indices : \A d \in Docs :
          index'[i][d] = IF i \in worker[p].reads \ {2} /\ d = worker[p].doc
                         THEN 0 ELSE index[i][d]
    BY <1>0, <2>1, <2>2
  <2>4. /\ Rows(st) \subseteq worker[p].todo /\ st.pc \in {"idle", "read"}
        /\ st = Idle \/ /\ st.mode = worker[p].mode /\ st.writes = worker[p].writes
                        /\ ToCopy(st) = worker[p].todo
        /\ st.mode = "migrate" => worker[p].mode = "migrate"
        /\ worker[p].mode = "migrate" => st # Idle
    BY <1>0, ResumeCopies
  <2> HIDE DEF st
  <2>5. st = Idle => Rows(st) = {} /\ st.mode = "none"
    BY IdleCopies DEF Idle
  <2>6. worker[p].todo \subseteq Rows(worker[p]) /\ ToCopy(worker[p]) = worker[p].todo
    BY <2>1 DEF Rows, ToCopy
  <2>7. st.mode = "migrate" => \A e \in Docs :
          IsRow(e) => index'[2][e] # 0 \/ e \in ToCopy(st) \/ Young(e)
    BY <1>0, <1>1, <2>2, <2>3, <2>4, <2>6 DEF CopyOK, Covered
  <2>8. Known(st) /\ Follows(st, p)
    BY <1>0, <1>2, <2>4, <2>5, <2>6 DEF Known, Follows
  <2>9. BringsItsOwn(p) /\ KeepsNew
    BY <2>3 DEF BringsItsOwn, KeepsNew
  <2>10. CopyGoesOn(st)
    BY <1>0, <2>4, <2>5, <2>7 DEF CopyGoesOn, CopyOK
  <2>11. QED
    BY <1>0, <2>1, <2>8, <2>9, <2>10, JobStepFound
<1>6. QED
  BY <1>3, <1>4, <1>5

\* A migration is over only when the new index has all that the old one has.
LEMMA CleanUpFound ==
  ASSUME FoundInv, TypeOK', IInv', Docs # {}, NEW p \in Workers,
         StartCleanUp(p) \/ DetachIndices(p) \/ DeleteIndices(p) \/ FailJob(p)
  PROVE  FoundInv'
<1>0. /\ worker[p] \in JobType /\ CopyOK(worker[p])
      /\ worker \in [Workers -> JobType]
      /\ index \in [Indices -> [Docs -> Versions]]
      /\ UNCHANGED <<db, doomed, writeAlias>>
  BY TypeFold DEF FoundInv, TypeOK, StartCleanUp, DetachIndices, DeleteIndices,
       FailJob, source, aliases
<1>1. \A d \in Docs : d \in Rows(worker[p]) \/ d \in syncs => db[d] # 0
  BY DEF FoundInv, Unmade
<1>2. CASE StartCleanUp(p)
  <2> DEFINE st == [worker[p] EXCEPT !.pc = "detach", !.reads = readAlias,
                                     !.writes = writeAlias]
  <2>1. /\ worker[p].pc = "read" /\ worker[p].todo = {} /\ worker[p].mode = "migrate"
        /\ worker' = [worker EXCEPT ![p] = st]
        /\ index' = index /\ syncs' = syncs
    BY <1>0, <1>2 DEF StartCleanUp, AllCopied, queues
  <2>2. /\ st.pc = "detach" /\ st.todo = worker[p].todo /\ st.writes = writeAlias
        /\ st.mode = worker[p].mode
    BY <1>0 DEF JobType
  <2> HIDE DEF st
  <2>3. Rows(st) = {} /\ ToCopy(st) = {} /\ ToCopy(worker[p]) = {}
    BY <2>1, <2>2 DEF Rows, ToCopy
  <2>4. Known(st) /\ Follows(st, p)
    BY <1>1, <2>1, <2>3 DEF Known, Follows
  <2>5. BringsItsOwn(p) /\ KeepsNew
    BY <2>1 DEF BringsItsOwn, KeepsNew
  <2>6. CopyGoesOn(st)
    BY <1>0, <2>1, <2>2, <2>3 DEF CopyGoesOn, CopyOK, Covered
  <2>7. QED
    BY <1>0, <2>1, <2>4, <2>5, <2>6, JobStepFound
<1>3. CASE DetachIndices(p)
  <2> DEFINE st == [worker[p] EXCEPT !.pc = "delete"]
  <2>1. /\ worker[p].pc = "detach"
        /\ worker' = [worker EXCEPT ![p] = st]
        /\ index' = index /\ syncs' = syncs
    BY <1>0, <1>3 DEF DetachIndices, queues
  <2>2. /\ st.pc = "delete" /\ st.todo = worker[p].todo
        /\ st.writes = worker[p].writes /\ st.mode = worker[p].mode
    BY <1>0 DEF JobType
  <2> HIDE DEF st
  <2>3. worker[p].todo = {} /\ worker[p].mode = "migrate"
    BY <1>0, <2>1 DEF CopyOK
  <2>4. Rows(st) = {} /\ ToCopy(st) = {} /\ ToCopy(worker[p]) = {}
    BY <2>1, <2>2, <2>3 DEF Rows, ToCopy
  <2>5. Known(st) /\ Follows(st, p)
    BY <1>1, <2>1, <2>4 DEF Known, Follows
  <2>6. BringsItsOwn(p) /\ KeepsNew
    BY <2>1 DEF BringsItsOwn, KeepsNew
  <2>7. CopyGoesOn(st)
    BY <1>0, <2>1, <2>2, <2>3, <2>4 DEF CopyGoesOn, CopyOK, Covered
  <2>8. QED
    BY <1>0, <2>1, <2>5, <2>6, <2>7, JobStepFound
\* A job that ends has no rows left.
<1>4. Known(Idle) <=> \A d \in Docs : d \in syncs' => db[d] # 0
  BY IdleCopies DEF Known
<1>5. Follows(Idle, p) /\ CopyGoesOn(Idle)
  BY IdleCopies DEF Follows, CopyGoesOn, Idle
<1>6. CASE DeleteIndices(p)
  <2> DEFINE unused == (worker[p].reads \ {worker[p].writes})
                         \ (readAlias \cup {writeAlias})
  <2>1. /\ worker[p].pc = "delete"
        /\ worker' = [worker EXCEPT ![p] = Idle] /\ syncs' = syncs
        /\ index' = [i \in Indices |->
                       IF i \in unused THEN [d \in Docs |-> 0] ELSE index[i]]
    BY <1>6 DEF DeleteIndices, queues
  <2>2. 2 \notin unused
    BY <1>0, <2>1 DEF CopyOK
  <2> HIDE DEF unused
  <2>3. BringsItsOwn(p) /\ KeepsNew
    BY <1>0, <2>1, <2>2 DEF BringsItsOwn, KeepsNew
  <2>4. Known(Idle)
    BY <1>1, <1>4, <2>1
  <2>5. QED
    BY <1>0, <1>5, <2>1, <2>3, <2>4, JobStepFound
<1>7. CASE FailJob(p)
  <2>1. /\ worker[p].pc # "idle"
        /\ worker' = [worker EXCEPT ![p] = Idle] /\ index' = index
        /\ syncs' = IF worker[p].mode # "object" THEN syncs
                    ELSE syncs \cup (IF worker[p].pc = "read" THEN worker[p].todo
                                     ELSE {worker[p].doc})
    BY <1>7 DEF FailJob
  <2>2. worker[p].mode = "object" => worker[p].pc \in {"read", "write", "remove"}
    BY <1>0, <2>1 DEF CopyOK, JobType
  <2>3. syncs' \subseteq syncs \cup Rows(worker[p])
    BY <2>1, <2>2 DEF Rows
  <2>4. Known(Idle)
    BY <1>1, <1>4, <2>3
  <2>5. BringsItsOwn(p) /\ KeepsNew
    BY <2>1 DEF BringsItsOwn, KeepsNew
  <2>6. QED
    BY <1>0, <1>5, <2>1, <2>4, <2>5, JobStepFound
<1>8. QED
  BY <1>2, <1>3, <1>6, <1>7

\* A row that is made while the migration goes on is a young one.
LEMMA RowStepFound ==
  ASSUME FoundInv, TypeOK', IInv', NEW d \in Docs,
         SaveRow(d) \/ DeleteRow(d) \/ DeleteDocument(d)
  PROVE  FoundInv'
<1>0. /\ worker' = worker /\ writeAlias' = writeAlias
      /\ db \in [Docs -> 0..Deleted]
      /\ index \in [Indices -> [Docs -> Versions]]
  BY DEF FoundInv, TypeOK, SaveRow, DeleteRow, DeleteDocument, aliases
<1>1. \A q \in Workers : /\ worker[q] \in JobType /\ worker[q].doc \in Docs
                         /\ worker[q].writes \in Indices
  BY TypeFold DEF FoundInv, JobType
<1>2. 1 \in Indices
  BY IndexNumbers
\* What is going to be a row, and is in which index.
<1>3. \A e \in Docs : db'[e] = 0 => db[e] = 0 /\ (e \notin syncs => e \notin syncs')
  BY <1>0, BoundsAssumption DEF SaveRow, DeleteRow, DeleteDocument, queues, Deleted
<1>4. \A e \in Docs : \A i \in Indices : index[i][e] = 0 => index'[i][e] = 0
  BY <1>0 DEF SaveRow, DeleteRow, DeleteDocument
<1>5. \A e \in Docs : IsRow(e)' =>
        /\ IsRow(e) \/ db[e] = 0
        /\ \A i \in Indices : index'[i][e] = index[i][e]
  <2> SUFFICES ASSUME NEW e \in Docs, IsRow(e)'
               PROVE  /\ IsRow(e) \/ db[e] = 0
                      /\ \A i \in Indices : index'[i][e] = index[i][e]
    OBVIOUS
  <2>1. CASE SaveRow(d)
    BY <1>0, <2>1, BoundsAssumption DEF SaveRow, IsRow, Deleted
  <2>2. CASE DeleteRow(d)
    BY <1>0, <2>2, BoundsAssumption DEF DeleteRow, IsRow, Deleted
  <2>3. CASE DeleteDocument(d)
    <3>1. db' = db /\ d \in doomed /\ index' = [index EXCEPT ![writeAlias][d] = 0]
      BY <2>3 DEF DeleteDocument
    <3>2. db[d] = Deleted
      BY <3>1 DEF FoundInv
    <3>3. e # d
      BY <3>1, <3>2, RowNumbers DEF FoundInv, IsRow
    <3>4. writeAlias \in Indices
      BY DEF FoundInv, TypeOK
    <3>5. QED
      BY <1>0, <3>1, <3>3, <3>4 DEF IsRow
  <2>4. QED
    BY <2>1, <2>2, <2>3
<1>6. \A e \in doomed' : db'[e] = Deleted
  <2>1. CASE SaveRow(d)
    <3>1. doomed' = doomed /\ db[d] < MaxVersion /\ db' = [db EXCEPT ![d] = db[d] + 1]
      BY <2>1 DEF SaveRow
    <3>2. d \notin doomed
      BY <3>1, RowNumbers DEF FoundInv
    <3>3. doomed \subseteq Docs
      BY DEF FoundInv, TypeOK
    <3>4. QED
      BY <1>0, <3>1, <3>2, <3>3 DEF FoundInv
  <2>2. CASE DeleteRow(d)
    <3>1. doomed \subseteq Docs
      BY DEF FoundInv, TypeOK
    <3>2. QED
      BY <1>0, <2>2, <3>1 DEF DeleteRow, FoundInv
  <2>3. CASE DeleteDocument(d)
    BY <2>3 DEF DeleteDocument, FoundInv
  <2>4. QED
    BY <2>1, <2>2, <2>3
<1>7. \A e \in Docs : db'[e] = 0 => Unmade(e)'
  <2>1. \A e \in Docs : db'[e] = 0 => Unmade(e)
    BY <1>3 DEF FoundInv
  <2>2. QED
    BY <1>0, <1>3, <1>4, <2>1 DEF Unmade, Rows
<1>8. \A e \in Docs : Young(e) => Young(e)'
  BY <1>0, <1>2, <1>4 DEF Young, Rows
<1>9. \A e \in Docs : db[e] = 0 => Young(e)
  BY <1>2 DEF FoundInv, Unmade, Young
<1>10. ASSUME NEW q \in Workers PROVE CopyOK(worker[q])'
  <2>1. CopyOK(worker[q])
    BY DEF FoundInv
  <2>2. worker[q].mode = "migrate" => \A e \in Docs :
          IsRow(e)' => index'[2][e] # 0 \/ e \in ToCopy(worker[q]) \/ Young(e)'
    BY <1>1, <1>5, <1>8, <1>9, <2>1 DEF CopyOK, Covered
  <2>3. worker[q].pc = "remove" /\ IsRow(worker[q].doc)' => index'[2][worker[q].doc] # 0
    <3>1. SUFFICES ASSUME worker[q].pc = "remove", IsRow(worker[q].doc)'
                   PROVE  index'[2][worker[q].doc] # 0
      OBVIOUS
    <3>2. worker[q].doc \in Rows(worker[q])
      BY <3>1 DEF Rows
    <3>3. db[worker[q].doc] # 0
      BY <1>1, <3>2 DEF FoundInv, Unmade
    <3>4. QED
      BY <1>0, <1>1, <1>5, <2>1, <3>1, <3>3 DEF CopyOK, IsRow
  <2>4. QED
    BY <1>0, <2>1, <2>2, <2>3 DEF CopyOK, Covered, ToCopy, Young, Rows, IsRow
<1>11. QED
  BY <1>6, <1>7, <1>10 DEF FoundInv

LEMMA FoundStep ==
  ASSUME Docs # {}, OneMigration
  PROVE  FoundInv /\ [Next]_vars => FoundInv'
<1> SUFFICES ASSUME FoundInv, [Next]_vars PROVE FoundInv'
  OBVIOUS
<1>1. TypeOK' /\ IInv'
  BY TypeStep, StepInv DEF FoundInv
<1>2. ASSUME NEW d \in Docs, SaveRow(d) \/ DeleteRow(d) \/ DeleteDocument(d)
      PROVE  FoundInv'
  BY <1>1, <1>2, RowStepFound
<1>3. ASSUME UNCHANGED <<source, index, worker>>, syncs' \subseteq syncs,
             writeAlias' = writeAlias \/ writeAlias < writeAlias'
      PROVE  FoundInv'
  <2>1. /\ writeAlias \in Nat /\ writeAlias' \in Nat /\ writeAlias' <= MaxIndex
        /\ MaxIndex \in Nat
    BY <1>1, BoundsAssumption DEF FoundInv, TypeOK, Indices
  <2>2. writeAlias = 2 => writeAlias' = 2
    BY <1>3, <2>1 DEF OneMigration
  <2>3. ASSUME NEW q \in Workers PROVE CopyOK(worker[q])'
    BY <1>3, <2>2 DEF FoundInv, CopyOK, Covered, ToCopy, Young, Rows, IsRow, source
  <2>4. \A d \in Docs : db'[d] = 0 => Unmade(d)'
    BY <1>3 DEF FoundInv, Unmade, Rows, source
  <2>5. \A d \in doomed' : db'[d] = Deleted
    BY <1>3 DEF FoundInv, source
  <2>6. QED
    BY <1>1, <2>3, <2>4, <2>5 DEF FoundInv
<1>4. CASE Deploy
  BY <1>3, <1>4 DEF Deploy, aliases, queues
<1>5. CASE CommandStep
  <2>1. CASE SwitchAliases
    <3>1. /\ command.pc = "switch" /\ writeAlias' = command.new
          /\ UNCHANGED <<source, index, worker>> /\ syncs' = syncs
      BY <2>1 DEF SwitchAliases, queues
    <3>2. writeAlias < command.new
      BY <3>1 DEF FoundInv, IInv, CommandOK, NoCommand
    <3>3. QED
      BY <1>3, <3>1, <3>2
  <2>2. CASE MigrateApp \/ CreateIndex \/ ScheduleResync \/ CrashCommand
    BY <1>3, <2>2 DEF MigrateApp, CreateIndex, ScheduleResync, CrashCommand,
         aliases, queues
  <2>3. QED
    BY <1>5, <2>1, <2>2 DEF CommandStep
<1>6. ASSUME NEW i \in Indices, AbandonMigration(i) PROVE FoundInv'
  BY <1>3, <1>6 DEF AbandonMigration, aliases
<1>7. CASE UNCHANGED vars
  BY <1>3, <1>7 DEF vars, aliases, queues
<1>8. ASSUME NEW p \in Workers, StartJob(p) \/ WorkerStep(p) \/ FailJob(p)
      PROVE  FoundInv'
  BY <1>1, <1>8, StartFound, CopyFound, CleanUpFound DEF WorkerStep
<1>9. QED
  BY <1>2, <1>4, <1>5, <1>6, <1>7, <1>8 DEF Next

\* Where the only copy of a row's document is behind the read alias, it stays.
LEMMA FoundStepKeeps ==
  ASSUME OneMigration
  PROVE  FoundInv /\ [Next]_vars => [KeepsFound]_vars
<1> SUFFICES ASSUME FoundInv, Next PROVE KeepsFound
  BY DEF KeepsFound, Found, vars, aliases
<1>0. /\ readAlias \subseteq Indices /\ writeAlias \in Indices
      /\ index \in [Indices -> [Docs -> Versions]] /\ Indices \subseteq Nat
      /\ writeAlias \in readAlias
      /\ \A i \in Indices : i = 1 \/ i = 2
  BY IndexNumbers, BoundsAssumption DEF FoundInv, TypeOK, IInv, AliasesSound, Indices,
       OneMigration
\* What only adds.
<1>1. ASSUME readAlias \subseteq readAlias',
             \A i \in readAlias : \A d \in Docs :
               index[i][d] # 0 /\ IsRow(d)' => index'[i][d] # 0
      PROVE  KeepsFound
  BY <1>1 DEF KeepsFound, Found
<1>2. ASSUME NEW d \in Docs, SaveRow(d) \/ DeleteRow(d) PROVE KeepsFound
  BY <1>1, <1>2 DEF SaveRow, DeleteRow, aliases
<1>3. ASSUME NEW d \in Docs, DeleteDocument(d) PROVE KeepsFound
  <2>1. db' = db /\ d \in doomed /\ index' = [index EXCEPT ![writeAlias][d] = 0]
        /\ readAlias' = readAlias
    BY <1>3 DEF DeleteDocument, aliases
  <2>2. ~IsRow(d)'
    BY <2>1, RowNumbers DEF FoundInv, IsRow
  <2>3. QED
    BY <1>0, <1>1, <2>1, <2>2
<1>4. CASE Deploy \/ CommandStep
  BY <1>1, <1>4 DEF Deploy, CommandStep, MigrateApp, CreateIndex, SwitchAliases,
       ReadFromBoth, ScheduleResync, CrashCommand, aliases
<1>5. ASSUME NEW i \in Indices, AbandonMigration(i) PROVE KeepsFound
  BY <1>1, <1>5 DEF AbandonMigration, aliases
<1>6. ASSUME NEW p \in Workers, StartJob(p) \/ FailJob(p) PROVE KeepsFound
  BY <1>1, <1>6 DEF StartJob, SyncObject, SyncModel, CompleteModelMigration, FailJob,
       aliases
<1>7. ASSUME NEW p \in Workers, WorkerStep(p) PROVE KeepsFound
  <2>0. worker[p] \in JobType /\ CopyOK(worker[p])
    BY TypeFold DEF FoundInv
  <2>1. CASE ReadRow(p) \/ StartCleanUp(p)
    BY <1>1, <2>1 DEF ReadRow, StartCleanUp, aliases
  <2>2. CASE WriteDocument(p)
    <3>1. /\ index' = [index EXCEPT ![worker[p].writes][worker[p].doc] = worker[p].copy]
          /\ readAlias' = readAlias /\ worker[p].pc = "write"
      BY <2>2 DEF WriteDocument, aliases
    <3>2. worker[p].copy # 0 /\ worker[p].writes \in Indices /\ worker[p].doc \in Docs
      BY <2>0, <3>1 DEF CopyOK, JobType
    <3>3. QED
      BY <1>0, <1>1, <3>1, <3>2
\* What is removed from the old index is in the new one, where it is found.
  <2>3. CASE RemoveFromSecondary(p)
    <3>1. /\ worker[p].pc = "remove" /\ readAlias' = readAlias /\ db' = db
          /\ index' = [i \in Indices |->
                         IF i \in worker[p].reads \ {worker[p].writes}
                         THEN [index[i] EXCEPT ![worker[p].doc] = 0] ELSE index[i]]
      BY <2>3 DEF RemoveFromSecondary, aliases, source
    <3>2. /\ worker[p].writes = 2 /\ 2 \in Indices /\ worker[p].doc \in Docs
          /\ IsRow(worker[p].doc) => index[2][worker[p].doc] # 0
      BY <2>0, <3>1 DEF CopyOK, JobType
    <3>3. 2 \in readAlias
      BY <1>0, <3>2 DEF FoundInv, IInv, Past
    <3>4. \A d \in Docs : index'[2][d] = index[2][d]
      BY <3>1, <3>2
    <3>5. \A i \in Indices : \A d \in Docs :
            d # worker[p].doc => index'[i][d] = index[i][d]
      BY <1>0, <3>1
    <3>6. ASSUME NEW d \in Docs, Found(d), IsRow(d)' PROVE Found(d)'
      <4>1. IsRow(d)
        BY <3>1, <3>6 DEF IsRow
      <4>2. PICK i \in readAlias : index[i][d] # 0
        BY <3>6 DEF Found
      <4>3. CASE d = worker[p].doc
        BY <3>1, <3>2, <3>3, <3>4, <4>1, <4>3 DEF Found
      <4>4. CASE d # worker[p].doc
        BY <1>0, <3>1, <3>5, <4>2, <4>4 DEF Found
      <4>5. QED
        BY <4>3, <4>4
    <3>7. QED
      BY <3>6 DEF KeepsFound
\* The migration is complete when the old index is detached.
  <2>4. CASE DetachIndices(p)
    <3>1. /\ worker[p].pc = "detach" /\ index' = index /\ db' = db
          /\ readAlias' = readAlias \ (worker[p].reads \ {worker[p].writes})
      BY <2>4 DEF DetachIndices, Detach, source
    <3>2. /\ worker[p].writes = 2 /\ writeAlias = 2 /\ worker[p].todo = {}
          /\ Covered(worker[p]) /\ worker[p].writes \in Indices
      BY <2>0, <3>1 DEF CopyOK, JobType
    <3>3. ToCopy(worker[p]) = {}
      BY <3>1, <3>2 DEF ToCopy
    <3>4. 2 \in readAlias'
      BY <1>0, <3>1, <3>2
    <3>5. ASSUME NEW d \in Docs, Found(d), IsRow(d)' PROVE Found(d)'
      <4>1. IsRow(d)
        BY <3>1, <3>5 DEF IsRow
      <4>2. PICK i \in readAlias : index[i][d] # 0
        BY <3>5 DEF Found
      <4>3. index[2][d] # 0
        BY <1>0, <3>2, <3>3, <4>1, <4>2 DEF Covered, Young
      <4>4. QED
        BY <3>1, <3>4, <4>3 DEF Found
    <3>6. QED
      BY <3>5 DEF KeepsFound
\* Only indices that searches do not reach are deleted.
  <2>5. CASE DeleteIndices(p)
    <3>1. \A i \in readAlias : index'[i] = index[i]
      BY <1>0, <2>5 DEF DeleteIndices
    <3>2. readAlias' = readAlias
      BY <2>5 DEF DeleteIndices, aliases
    <3>3. QED
      BY <1>1, <3>1, <3>2
  <2>6. QED
    BY <1>7, <2>1, <2>2, <2>3, <2>4, <2>5 DEF WorkerStep
<1>8. QED
  BY <1>2, <1>3, <1>4, <1>5, <1>6, <1>7 DEF Next

\* Throughout a migration, however many jobs and rows there are and wherever they
\* stop, what can be found is found as long as its row exists.
THEOREM OneMigrationLosesNothing ==
  ASSUME OneMigration
  PROVE  Spec => FoundStaysFound
<1>1. CASE Docs = {}
  <2>1. [Next]_vars => [KeepsFound]_vars
    BY <1>1 DEF KeepsFound
  <2>2. QED
    BY <2>1, PTL DEF Spec, FoundStaysFound
<1>2. CASE Docs # {}
  <2>1. Init => FoundInv
    BY <1>2, FoundInit
  <2>2. FoundInv /\ [Next]_vars => FoundInv'
    BY <1>2, FoundStep
  <2>3. FoundInv /\ [Next]_vars => [KeepsFound]_vars
    BY FoundStepKeeps
  <2>4. QED
    BY <2>1, <2>2, <2>3, PTL DEF Spec, FoundStaysFound
<1>3. QED
  BY <1>1, <1>2

=============================================================================
