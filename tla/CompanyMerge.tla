---------------------------- MODULE CompanyMerge ----------------------------
(***************************************************************************)
(* Merging companies: what belongs to the source is moved to the target,   *)
(* and the source is archived as transferred, while requests archive,      *)
(* unarchive and edit companies, and add and edit what belongs to them.    *)
(*                                                                         *)
(* Each request is one transaction at the isolation level READ COMMITTED:  *)
(* it sees what others have committed when it reads, and saves every column *)
(* of the row it read.  The same code merges contacts.                     *)
(***************************************************************************)
EXTENDS MergeConstants

CONSTANTS Requests

VARIABLES company,   \* [archived, to] of each company; to is transferred_to
          kind,      \* the kind of the items
          owner,     \* the company of each item, or None if there is no such row
          request,
          late,      \* items written to a company behind the back of its merge
          overlapped, \* whether two merges ever overlapped
          outdated,   \* whether a save ever overwrote a newer row of a company
          ignored    \* items a merge left where they were

vars == <<company, kind, owner, request, late, overlapped, outdated, ignored>>

\* How MERGE_CONFIGURATION treats items: most are moved; those of a list are
\* deleted if the target is on that list already; members of a team are ignored
\* if the target has the same one.
Kinds == {"plain", "list", "team"}

Idle == [op |-> "none", source |-> None, target |-> None,
         copy |-> [archived |-> FALSE, to |-> None],
         done |-> FALSE, moved |-> {}, deleted |-> {}, left |-> {},
         item |-> None, was |-> None]

\* The columns of a list and of a team are unique together with the company.
Unique(own) ==
  \A i, k \in Items : i # k /\ own[i] = own[k] => own[i] = None \/ kind = "plain"

Init ==
  /\ company = [c \in Companies |-> [archived |-> FALSE, to |-> None]]
  /\ kind \in Kinds
  /\ owner \in [Items -> Companies \cup {None}] /\ Unique(owner)
  /\ request = [r \in Requests |-> Idle]
  /\ late = {} /\ overlapped = FALSE /\ outdated = FALSE /\ ignored = {}

Abandon(r) ==
  /\ request[r].op # "none"
  /\ request' = [request EXCEPT ![r] = Idle]
  /\ UNCHANGED <<company, kind, owner, late, overlapped, outdated, ignored>>

-----------------------------------------------------------------------------
(* Companies *)

\* get_object()
Visit(r, op, c) ==
  /\ request[r].op = "none"
  /\ request' = [request EXCEPT ![r] = [Idle EXCEPT !.op = op, !.source = c,
                                                    !.copy = company[c]]]
  /\ UNCHANGED <<company, kind, owner, late, overlapped, outdated, ignored>>

SaveCompany(r, new) ==
  /\ company' = [company EXCEPT ![request[r].source] = new]
  /\ outdated' = (outdated \/ company[request[r].source] # request[r].copy)
  /\ request' = [request EXCEPT ![r] = Idle]
  /\ UNCHANGED <<kind, owner, late, overlapped, ignored>>

Archive(r) ==
  /\ request[r].op = "archive"
  /\ SaveCompany(r, [request[r].copy EXCEPT !.archived = TRUE])

\* Mutant: NotATransferredCompanyValidator is not among the validators.
AnyCompany(copy) == TRUE

Unarchivable(copy) == copy.to = None

Unarchive(r) ==
  /\ request[r].op = "unarchive" /\ Unarchivable(request[r].copy)
  /\ SaveCompany(r, [request[r].copy EXCEPT !.archived = FALSE])

\* A PATCH of other fields.
UpdateCompany(r) ==
  request[r].op = "update" /\ SaveCompany(r, request[r].copy)

-----------------------------------------------------------------------------
(* Merges *)

Merging(r) == request[r].op = "merge"

\* Mutant: the target may be archived.
ValidSource(a, b) == company[a].to = None

\* is_model_a_valid_merge_source and is_model_a_valid_merge_target
Mergeable(a, b) == company[a].to = None /\ ~company[b].archived

StartMerge(r, a, b) ==
  /\ request[r].op = "none" /\ a # b /\ Mergeable(a, b)
  /\ request' = [request EXCEPT ![r] =
       [Idle EXCEPT !.op = "merge", !.source = a, !.target = b,
                    !.copy = company[a]]]
  /\ overlapped' = (overlapped \/ \E q \in Requests : Merging(q))
  /\ UNCHANGED <<company, kind, owner, late, outdated, ignored>>

Locked(i) == \E r \in Requests : i \in request[r].moved \cup request[r].deleted

\* Mutant: items are moved only if the target has none.
UnlessThere(there) == IF there THEN "team" ELSE "plain"

Treatment(there) == IF there THEN kind ELSE "plain"

\* update_objects. The updates lock the rows.
MoveObjects(r) ==
  LET mine == {i \in Items : owner[i] = request[r].source}
      there == \E k \in Items : owner[k] = request[r].target
      treated == Treatment(there) IN
  /\ Merging(r) /\ ~request[r].done
  /\ \A i \in mine : ~Locked(i)
  /\ request' = [request EXCEPT
       ![r].done = TRUE,
       ![r].moved = IF treated = "plain" THEN mine ELSE {},
       ![r].deleted = IF treated = "list" THEN mine ELSE {},
       ![r].left = IF treated = "team" THEN mine ELSE {}]
  /\ UNCHANGED <<company, kind, owner, late, overlapped, outdated, ignored>>

\* Whether a merge of company c has looked for its items.
Closed(c) ==
  \/ company[c].to # None
  \/ \E r \in Requests : request[r].done /\ request[r].source = c

\* mark_as_transferred saves the source, and the transaction commits.
MarkAsTransferred(r) ==
  LET st == request[r] IN
  /\ Merging(r) /\ st.done
  /\ owner' = [i \in Items |-> IF i \in st.moved THEN st.target
                              ELSE IF i \in st.deleted THEN None ELSE owner[i]]
  /\ Unique(owner')
  /\ company' = [company EXCEPT ![st.source] =
                   [st.copy EXCEPT !.archived = TRUE, !.to = st.target]]
  /\ outdated' = (outdated \/ company[st.source] # st.copy)
  /\ late' = (late \ (st.moved \cup st.deleted))
               \cup {i \in st.moved : Closed(st.target)}
  /\ ignored' = ignored \cup st.left
  /\ request' = [request EXCEPT ![r] = Idle]
  /\ UNCHANGED <<kind, overlapped>>

-----------------------------------------------------------------------------
(* Items *)

AddItem(i, c) ==
  /\ owner[i] = None /\ \A r \in Requests : request[r].item # i
  /\ owner' = [owner EXCEPT ![i] = c]
  /\ Unique(owner')
  /\ late' = IF Closed(c) THEN late \cup {i} ELSE late
  /\ UNCHANGED <<company, kind, request, overlapped, outdated, ignored>>

VisitItem(r, i) ==
  /\ request[r].op = "none" /\ owner[i] # None
  /\ request' = [request EXCEPT ![r] = [Idle EXCEPT !.op = "item", !.item = i,
                                                    !.was = owner[i]]]
  /\ UNCHANGED <<company, kind, owner, late, overlapped, outdated, ignored>>

\* Every column is saved, the company among them; a row that is gone comes back.
SaveItem(r) ==
  LET i == request[r].item IN
  /\ request[r].op = "item" /\ ~Locked(i)
  /\ owner' = [owner EXCEPT ![i] = request[r].was]
  /\ Unique(owner')
  /\ late' = IF Closed(request[r].was) /\ owner[i] # request[r].was
             THEN late \cup {i} ELSE late
  /\ request' = [request EXCEPT ![r] = Idle]
  /\ UNCHANGED <<company, kind, overlapped, outdated, ignored>>

-----------------------------------------------------------------------------
Next ==
  \/ \E r \in Requests :
       \/ \E c \in Companies, op \in {"archive", "unarchive", "update"} :
            Visit(r, op, c)
       \/ Archive(r) \/ Unarchive(r) \/ UpdateCompany(r)
       \/ \E a, b \in Companies : StartMerge(r, a, b)
       \/ MoveObjects(r) \/ MarkAsTransferred(r)
       \/ \E i \in Items : VisitItem(r, i)
       \/ SaveItem(r) \/ Abandon(r)
  \/ \E i \in Items, c \in Companies : AddItem(i, c)

Spec == Init /\ [][Next]_vars

-----------------------------------------------------------------------------
(* Properties *)

Rows == [archived : BOOLEAN, to : Companies \cup {None}]

TypeOK ==
  /\ company \in [Companies -> Rows]
  /\ kind \in Kinds
  /\ owner \in [Items -> Companies \cup {None}]
  /\ request \in [Requests ->
       [op : {"none", "archive", "unarchive", "update", "merge", "item"},
        source : Companies \cup {None}, target : Companies \cup {None},
        copy : Rows, done : BOOLEAN, moved : SUBSET Items, deleted : SUBSET Items,
        left : SUBSET Items, item : Items \cup {None},
        was : Companies \cup {None}]]
  /\ late \subseteq Items /\ ignored \subseteq Items
  /\ overlapped \in BOOLEAN /\ outdated \in BOOLEAN

\* A company whose data was transferred is archived, whatever requests save of
\* older copies of it (company/models/company.py, mark_as_transferred).
TransferredIsArchived ==
  \A c \in Companies : company[c].to # None => company[c].archived

\* Nothing is left with a company that was merged into another one, except what
\* was written to it too late for the merge, and members of its team that the
\* target has too, unless an older copy undid a transfer in between
\* (company/merge.py, update_objects).
NothingLeftBehind ==
  \A i \in Items :
    owner[i] # None /\ company[owner[i]].to # None
      => outdated \/ i \in late \/ (kind = "team" /\ i \in ignored)

\* Following where companies were transferred to always ends at one that was
\* not, unless merges overlap or an older copy is saved over one
\* (company/merge.py, is_model_a_valid_merge_source and ..._target).
TransfersEnd ==
  overlapped \/ outdated \/ ~ \E S \in SUBSET Companies :
    S # {} /\ \A c \in S : company[c].to \in S

=============================================================================
