-------------------------- MODULE InvestmentProject --------------------------
(***************************************************************************)
(* The stages of an investment project.  A PATCH is validated against the  *)
(* fields that the stage requires and a copy of the project, and then saves *)
(* every column of that copy; to-many fields are saved by themselves, and  *)
(* only if they are in the data.  A privileged request may set any stage.  *)
(*                                                                         *)
(* Three fields, filled in or not, stand for those that are required from  *)
(* some stage on: two columns and a to-many field.  The stage won requires *)
(* what verify_win requires, and is left out.                              *)
(***************************************************************************)
EXTENDS Naturals

CONSTANTS Requests

VARIABLES project,   \* the stage and the columns filled in
          related,   \* the to-many fields that are filled in
          stageLog,  \* the stage of the latest InvestmentProjectStageLog
          request,
          forced,    \* whether change_stage was ever used
          outdated   \* whether a save ever overwrote a newer row

vars == <<project, related, stageLog, request, forced, outdated>>

PROSPECT == 1
ASSIGN_PM == 2
ACTIVE == 3
VERIFY_WIN == 4
Stages == PROSPECT..VERIFY_WIN

Columns == {"client_requirements", "project_manager"}
ToMany == {"strategic_drivers"}
Fields == Columns \cup ToMany

RequiredFrom == [client_requirements |-> ASSIGN_PM, strategic_drivers |-> ASSIGN_PM,
                 project_manager |-> ACTIVE]

NewProject == [stage |-> PROSPECT, filled |-> {}]

\* read, row   the copy as it was loaded, and as it is going to be saved
\* to          what becomes of the to-many fields
Idle == [pc |-> "idle", read |-> NewProject, row |-> NewProject,
         add |-> {}, clear |-> {}]

Init ==
  /\ project = NewProject /\ related = {} /\ stageLog = PROSPECT
  /\ request = [r \in Requests |-> Idle]
  /\ forced = FALSE /\ outdated = FALSE

-----------------------------------------------------------------------------
Complete(stage, filled, fields) ==
  \A f \in fields : RequiredFrom[f] <= stage => f \in filled

\* Mutant: the fields in the data, whatever becomes of the stage.
InData(moves, data) == data.set \cup data.clear

\* All fields are validated if the stage is in the data, else those that are.
Validated(moves, data) == IF moves THEN Fields ELSE data.set \cup data.clear

\* The data of a request sets a field, clears one, or does neither.
Data == {[set |-> {}, clear |-> {}]}
        \cup {[set |-> {f}, clear |-> {}] : f \in Fields}
        \cup {[set |-> {}, clear |-> {f}] : f \in Fields}

\* PATCH of one field at most, and of the stage if that is in the data.
PatchProject(r) ==
  /\ request[r].pc = "idle"
  /\ \E moves \in BOOLEAN, new \in Stages, data \in Data :
       LET filled == (project.filled \cup related \cup data.set) \ data.clear IN
       /\ moves \/ new = project.stage
       /\ Complete(new, filled, Validated(moves, data))
       /\ request' = [request EXCEPT ![r] =
            [pc |-> "save", read |-> project,
             row |-> [stage |-> new, filled |-> filled \cap Columns],
             add |-> data.set \cap ToMany, clear |-> data.clear \cap ToMany]]
  /\ UNCHANGED <<project, related, stageLog, forced, outdated>>

\* change_stage, which needs the permission change_to_any_stage.
ChangeStage(r, stage) ==
  /\ request[r].pc = "idle"
  /\ request' = [request EXCEPT ![r] =
       [Idle EXCEPT !.pc = "save", !.read = project,
                    !.row = [project EXCEPT !.stage = stage]]]
  /\ forced' = TRUE
  /\ UNCHANGED <<project, related, stageLog, outdated>>

\* Mutant: only moves forward are logged.
MovesOn(st) == st.row.stage > st.read.stage

Moves(st) == st.row.stage # st.read.stage

\* InvestmentProject.save logs a stage that is not the one it was loaded with.
SaveProject(r) ==
  LET st == request[r] IN
  /\ st.pc = "save"
  /\ project' = st.row
  /\ stageLog' = IF Moves(st) THEN st.row.stage ELSE stageLog
  /\ related' = (related \cup st.add) \ st.clear
  /\ outdated' = (outdated \/ project # st.read)
  /\ request' = [request EXCEPT ![r] = Idle]
  /\ UNCHANGED forced

Next ==
  \E r \in Requests :
    \/ PatchProject(r)
    \/ \E stage \in Stages : ChangeStage(r, stage)
    \/ SaveProject(r)

Spec == Init /\ [][Next]_vars

-----------------------------------------------------------------------------
(* Properties *)

Rows == [stage : Stages, filled : SUBSET Columns]

TypeOK ==
  /\ project \in Rows /\ related \subseteq ToMany /\ stageLog \in Stages
  /\ request \in [Requests ->
       [pc : {"idle", "save"}, read : Rows, row : Rows,
        add : SUBSET ToMany, clear : SUBSET ToMany]]
  /\ forced \in BOOLEAN /\ outdated \in BOOLEAN

\* No two requests together bring a project to a stage without the columns it
\* requires, as long as nobody sets the stage by permission
\* (investment/project/serializers.py, validate).
StageIsComplete == forced \/ Complete(project.stage, project.filled, Columns)

\* The stage log ends with the stage of the project, unless an older copy was
\* saved over it (investment/project/models.py, _update_stage_log).
StageIsLogged == outdated \/ stageLog = project.stage

=============================================================================
