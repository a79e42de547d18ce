------------------------- MODULE CompanyMergeProofs -------------------------
(***************************************************************************)
(* What CompanyMerge guarantees for any number of companies, items and     *)
(* concurrent requests.                                                    *)
(***************************************************************************)
EXTENDS CompanyMerge, TLAPS

Ops == {"none", "archive", "unarchive", "update", "merge", "item"}

RequestType ==
  [op : Ops, source : Companies \cup {None}, target : Companies \cup {None},
   copy : Rows, done : BOOLEAN, moved : SUBSET Items, deleted : SUBSET Items,
   left : SUBSET Items, item : Items \cup {None}, was : Companies \cup {None}]

\* A request knows the company or the item it is about.
Addressed ==
  \A r \in Requests :
    /\ request[r].op \in {"archive", "unarchive", "update", "merge"}
         => request[r].source \in Companies
    /\ request[r].op = "merge" =>
         /\ request[r].target \in Companies \ {request[r].source}
         /\ request[r].copy.to = None
    /\ request[r].op = "item" => request[r].item \in Items
    /\ request[r].op # "merge" =>
         ~request[r].done /\ request[r].moved = {} /\ request[r].deleted = {}

TypeInv == TypeOK /\ Addressed

-----------------------------------------------------------------------------
(* Types *)

LEMMA IdleType == Idle \in RequestType
BY DEF Idle, RequestType, Ops, Rows

LEMMA TypeFold == TypeOK => request \in [Requests -> RequestType]
BY DEF TypeOK, RequestType, Ops

LEMMA TypeInit == Init => TypeInv
<1> SUFFICES ASSUME Init PROVE TypeInv
  OBVIOUS
<1>1. company \in [Companies -> Rows]
  BY DEF Init, Rows
<1>2. request \in [Requests -> RequestType]
  BY IdleType DEF Init
<1>3. TypeOK
  BY <1>1, <1>2 DEF Init, TypeOK, RequestType, Ops
<1>4. Addressed
  BY DEF Init, Addressed, Idle
<1>5. QED
  BY <1>3, <1>4 DEF TypeInv

\* A step that leaves companies and items alone is one of a request.
LEMMA TypeOfRequests ==
  ASSUME TypeInv,
         UNCHANGED <<company, kind, owner, late, outdated, ignored>>,
         overlapped' \in BOOLEAN,
         NEW r \in Requests, NEW st \in RequestType,
         request' = [request EXCEPT ![r] = st],
         st.op \in {"archive", "unarchive", "update", "merge"} => st.source \in Companies,
         st.op = "merge" => /\ st.target \in Companies \ {st.source}
                            /\ st.copy.to = None,
         st.op = "item" => st.item \in Items,
         st.op # "merge" => ~st.done /\ st.moved = {} /\ st.deleted = {}
  PROVE  TypeInv'
<1>1. request \in [Requests -> RequestType]
  BY TypeFold DEF TypeInv
<1>2. request' \in [Requests -> RequestType]
  BY <1>1
<1>3. TypeOK'
  BY <1>2 DEF TypeInv, TypeOK, RequestType, Ops
<1>4. \A q \in Requests : request'[q] = IF q = r THEN st ELSE request[q]
  BY <1>1
<1>5. Addressed'
  BY <1>4 DEF TypeInv, Addressed
<1>6. QED
  BY <1>3, <1>5 DEF TypeInv

\* The end of a request.
LEMMA TypeOfEnds ==
  ASSUME TypeInv, NEW r \in Requests,
         request' = [request EXCEPT ![r] = Idle],
         company' \in [Companies -> Rows],
         kind' = kind,
         owner' \in [Items -> Companies \cup {None}],
         late' \subseteq Items, ignored' \subseteq Items,
         overlapped' \in BOOLEAN, outdated' \in BOOLEAN
  PROVE  TypeInv'
<1>1. request \in [Requests -> RequestType]
  BY TypeFold DEF TypeInv
<1>2. request' \in [Requests -> RequestType]
  BY <1>1, IdleType
<1>3. TypeOK'
  BY <1>2 DEF TypeInv, TypeOK, RequestType, Ops
<1>4. \A q \in Requests : request'[q] = IF q = r THEN Idle ELSE request[q]
  BY <1>1
<1>5. Addressed'
  BY <1>4 DEF TypeInv, Addressed, Idle
<1>6. QED
  BY <1>3, <1>5 DEF TypeInv

LEMMA TypeOfSave ==
  ASSUME TypeInv, NEW r \in Requests, NEW new \in Rows, SaveCompany(r, new)
  PROVE  TypeInv'
<1>1. company' \in [Companies -> Rows]
  BY DEF SaveCompany, TypeInv, TypeOK
<1>2. QED
  BY <1>1, TypeOfEnds DEF SaveCompany, TypeInv, TypeOK

\* update_objects sorts the items of the source, and changes nothing else.
LEMMA MovedRequest ==
  ASSUME TypeInv, NEW r \in Requests, MoveObjects(r)
  PROVE  \E st \in RequestType :
           /\ request' = [request EXCEPT ![r] = st]
           /\ st.op = "merge" /\ st.copy = request[r].copy
           /\ st.source = request[r].source /\ st.target = request[r].target
<1>1. request \in [Requests -> RequestType] /\ request[r].op = "merge"
  BY TypeFold DEF TypeInv, MoveObjects, Merging
<1>2. PICK moved \in SUBSET Items, deleted \in SUBSET Items, left \in SUBSET Items :
        request' = [request EXCEPT ![r].done = TRUE, ![r].moved = moved,
                                   ![r].deleted = deleted, ![r].left = left]
  BY DEF MoveObjects
<1> DEFINE st == [request[r] EXCEPT !.done = TRUE, !.moved = moved,
                                    !.deleted = deleted, !.left = left]
<1>3. request' = [request EXCEPT ![r] = st]
  BY <1>1, <1>2
<1>4. moved \subseteq Items /\ deleted \subseteq Items /\ left \subseteq Items
  BY <1>2
<1>5. st \in RequestType
  BY <1>1, <1>4 DEF RequestType
<1>6. /\ st.op = "merge" /\ st.copy = request[r].copy
      /\ st.source = request[r].source /\ st.target = request[r].target
  BY <1>1 DEF RequestType
<1> HIDE DEF st
<1>7. QED
  BY <1>3, <1>5, <1>6

LEMMA TypeStep == TypeInv /\ [Next]_vars => TypeInv'
<1> SUFFICES ASSUME TypeInv, [Next]_vars PROVE TypeInv'
  OBVIOUS
<1>0. /\ request \in [Requests -> RequestType]
      /\ company \in [Companies -> Rows]
      /\ owner \in [Items -> Companies \cup {None}]
      /\ late \subseteq Items /\ ignored \subseteq Items
      /\ overlapped \in BOOLEAN /\ outdated \in BOOLEAN
  BY TypeFold DEF TypeInv, TypeOK
<1>1. ASSUME NEW r \in Requests, NEW c \in Companies,
             NEW op \in {"archive", "unarchive", "update"}, Visit(r, op, c)
      PROVE  TypeInv'
  <2> DEFINE st == [Idle EXCEPT !.op = op, !.source = c, !.copy = company[c]]
  <2>1. st \in RequestType
    BY <1>0 DEF Idle, RequestType, Ops, Rows
  <2>2. /\ st.op = op /\ st.source = c
        /\ ~st.done /\ st.moved = {} /\ st.deleted = {}
    BY DEF Idle
  <2> HIDE DEF st
  <2>3. request' = [request EXCEPT ![r] = st]
    BY <1>1 DEF Visit, st
  <2>4. QED
    BY <1>0, <1>1, <2>1, <2>2, <2>3, TypeOfRequests DEF Visit
<1>2. ASSUME NEW r \in Requests, Archive(r) PROVE TypeInv'
  <2>1. [request[r].copy EXCEPT !.archived = TRUE] \in Rows
    BY <1>0 DEF RequestType, Rows
  <2>2. QED
    BY <1>2, <2>1, TypeOfSave DEF Archive
<1>3. ASSUME NEW r \in Requests, Unarchive(r) PROVE TypeInv'
  <2>1. [request[r].copy EXCEPT !.archived = FALSE] \in Rows
    BY <1>0 DEF RequestType, Rows
  <2>2. QED
    BY <1>3, <2>1, TypeOfSave DEF Unarchive
<1>4. ASSUME NEW r \in Requests, UpdateCompany(r) PROVE TypeInv'
  <2>1. request[r].copy \in Rows
    BY <1>0 DEF RequestType
  <2>2. QED
    BY <1>4, <2>1, TypeOfSave DEF UpdateCompany
<1>5. ASSUME NEW r \in Requests, NEW a \in Companies, NEW b \in Companies,
             StartMerge(r, a, b)
      PROVE  TypeInv'
  <2> DEFINE st == [Idle EXCEPT !.op = "merge", !.source = a, !.target = b,
                                !.copy = company[a]]
  <2>1. st \in RequestType
    BY <1>0 DEF Idle, RequestType, Ops, Rows
  <2>2. /\ st.op = "merge" /\ st.source = a /\ st.target = b
        /\ a # b /\ st.copy.to = None
    BY <1>5 DEF Idle, StartMerge, Mergeable
  <2> HIDE DEF st
  <2>3. request' = [request EXCEPT ![r] = st]
    BY <1>5 DEF StartMerge, st
  <2>4. overlapped' \in BOOLEAN
    BY <1>0, <1>5 DEF StartMerge
  <2>5. QED
    BY <1>5, <2>1, <2>2, <2>3, <2>4, TypeOfRequests DEF StartMerge
<1>6. ASSUME NEW r \in Requests, MoveObjects(r) PROVE TypeInv'
  <2>1. PICK st \in RequestType :
          /\ request' = [request EXCEPT ![r] = st]
          /\ st.op = "merge" /\ st.copy = request[r].copy
          /\ st.source = request[r].source /\ st.target = request[r].target
    BY <1>6, MovedRequest
  <2>2. /\ request[r].source \in Companies
        /\ request[r].target \in Companies \ {request[r].source}
        /\ request[r].copy.to = None
    BY <1>6 DEF TypeInv, Addressed, MoveObjects, Merging
  <2>3. /\ UNCHANGED <<company, kind, owner, late, outdated, ignored>>
        /\ overlapped' \in BOOLEAN
    BY <1>0, <1>6 DEF MoveObjects
  <2>4. QED
    BY <2>1, <2>2, <2>3, TypeOfRequests
<1>7. ASSUME NEW r \in Requests, MarkAsTransferred(r) PROVE TypeInv'
  <2>1. /\ request[r] \in RequestType
        /\ request[r].target \in Companies /\ request[r].source \in Companies
    BY <1>0, <1>7 DEF MarkAsTransferred, Merging, TypeInv, Addressed
  <2>2. [request[r].copy EXCEPT !.archived = TRUE, !.to = request[r].target] \in Rows
    BY <2>1 DEF RequestType, Rows
  <2>3. company' \in [Companies -> Rows]
    BY <1>0, <1>7, <2>2 DEF MarkAsTransferred
  <2>4. owner' \in [Items -> Companies \cup {None}]
    BY <1>0, <1>7, <2>1 DEF MarkAsTransferred
  <2>5. late' \subseteq Items /\ ignored' \subseteq Items
    BY <1>0, <1>7, <2>1 DEF MarkAsTransferred, RequestType
  <2>6. QED
    BY <1>0, <1>7, <2>3, <2>4, <2>5, TypeOfEnds DEF MarkAsTransferred
<1>8. ASSUME NEW r \in Requests, NEW i \in Items, VisitItem(r, i) PROVE TypeInv'
  <2> DEFINE st == [Idle EXCEPT !.op = "item", !.item = i, !.was = owner[i]]
  <2>1. st \in RequestType
    BY <1>0 DEF Idle, RequestType, Ops, Rows
  <2>2. /\ st.op = "item" /\ st.item = i
        /\ ~st.done /\ st.moved = {} /\ st.deleted = {}
    BY DEF Idle
  <2> HIDE DEF st
  <2>3. request' = [request EXCEPT ![r] = st]
    BY <1>8 DEF VisitItem, st
  <2>4. QED
    BY <1>0, <1>8, <2>1, <2>2, <2>3, TypeOfRequests DEF VisitItem
<1>9. ASSUME NEW r \in Requests, SaveItem(r) PROVE TypeInv'
  <2>1. request[r] \in RequestType /\ request[r].item \in Items
    BY <1>0, <1>9 DEF SaveItem, TypeInv, Addressed
  <2>2. owner' \in [Items -> Companies \cup {None}]
    BY <1>0, <1>9, <2>1 DEF SaveItem, RequestType
  <2>3. late' \subseteq Items
    BY <1>0, <1>9, <2>1 DEF SaveItem
  <2>4. QED
    BY <1>0, <1>9, <2>2, <2>3, TypeOfEnds DEF SaveItem
<1>10. ASSUME NEW r \in Requests, Abandon(r) PROVE TypeInv'
  BY <1>0, <1>10, TypeOfEnds DEF Abandon, TypeInv, TypeOK
<1>11. ASSUME NEW i \in Items, NEW c \in Companies, AddItem(i, c) PROVE TypeInv'
  <2>1. owner' \in [Items -> Companies \cup {None}] /\ late' \subseteq Items
    BY <1>0, <1>11 DEF AddItem
  <2>2. QED
    BY <1>11, <2>1 DEF AddItem, TypeInv, TypeOK, Addressed
<1>12. CASE UNCHANGED vars
  BY <1>12 DEF vars, TypeInv, TypeOK, Addressed
<1>13. QED
  BY <1>1, <1>2, <1>3, <1>4, <1>5, <1>6, <1>7, <1>8, <1>9, <1>10, <1>11, <1>12
     DEF Next

\* Every field of the companies, items and requests keeps its type, through
\* every request of CompanyMerge.
THEOREM MergeTypes == Spec => []TypeOK
<1>1. Spec => []TypeInv
  BY TypeInit, TypeStep, PTL DEF Spec
<1>2. TypeInv => TypeOK
  BY DEF TypeInv
<1>3. QED
  BY <1>1, <1>2, PTL

-----------------------------------------------------------------------------
(* Transferred companies are archived *)

Transferred(d) == d.to # None => d.archived

TransferInv ==
  /\ TypeInv
  /\ \A c \in Companies : Transferred(company[c])
  /\ \A r \in Requests : Transferred(request[r].copy)

LEMMA TransferStep == TransferInv /\ [Next]_vars => TransferInv'
<1> SUFFICES ASSUME TransferInv, [Next]_vars PROVE TransferInv'
  OBVIOUS
<1>0. TypeInv'
  BY TypeStep DEF TransferInv
<1>1. /\ request \in [Requests -> RequestType]
      /\ company \in [Companies -> Rows]
      /\ Transferred(Idle.copy)
  BY TypeFold DEF TransferInv, TypeInv, TypeOK, Transferred, Idle
<1>2. ASSUME NEW r \in Requests, NEW new \in Rows, SaveCompany(r, new),
             Transferred(new)
      PROVE  TransferInv'
  BY <1>0, <1>1, <1>2 DEF TransferInv, SaveCompany
<1>3. ASSUME NEW r \in Requests, company' = company, NEW st, Transferred(st.copy),
             request' = [request EXCEPT ![r] = st]
      PROVE  TransferInv'
  BY <1>0, <1>1, <1>3 DEF TransferInv
<1>4. ASSUME NEW r \in Requests, NEW c \in Companies,
             NEW op \in {"archive", "unarchive", "update"}, Visit(r, op, c)
      PROVE  TransferInv'
  <2>1. [Idle EXCEPT !.op = op, !.source = c, !.copy = company[c]].copy = company[c]
    BY DEF Idle
  <2>2. QED
    BY <1>3, <1>4, <2>1 DEF Visit, TransferInv
<1>5. ASSUME NEW r \in Requests, Archive(r) \/ Unarchive(r) \/ UpdateCompany(r)
      PROVE  TransferInv'
  <2>1. request[r].copy \in Rows /\ Transferred(request[r].copy)
    BY <1>1 DEF RequestType, TransferInv
  <2>2. CASE Archive(r)
    <3>1. /\ [request[r].copy EXCEPT !.archived = TRUE] \in Rows
          /\ Transferred([request[r].copy EXCEPT !.archived = TRUE])
      BY <2>1 DEF Rows, Transferred
    <3>2. QED
      BY <1>2, <2>2, <3>1 DEF Archive
  <2>3. CASE Unarchive(r)
    <3>1. /\ [request[r].copy EXCEPT !.archived = FALSE] \in Rows
          /\ Transferred([request[r].copy EXCEPT !.archived = FALSE])
      BY <2>1, <2>3 DEF Unarchive, Unarchivable, Rows, Transferred
    <3>2. QED
      BY <1>2, <2>3, <3>1 DEF Unarchive
  <2>4. CASE UpdateCompany(r)
    BY <1>2, <2>1, <2>4 DEF UpdateCompany
  <2>5. QED
    BY <1>5, <2>2, <2>3, <2>4
<1>6. ASSUME NEW r \in Requests, NEW a \in Companies, NEW b \in Companies,
             StartMerge(r, a, b)
      PROVE  TransferInv'
  <2>1. [Idle EXCEPT !.op = "merge", !.source = a, !.target = b,
                     !.copy = company[a]].copy = company[a]
    BY DEF Idle
  <2>2. QED
    BY <1>3, <1>6, <2>1 DEF StartMerge, TransferInv
<1>7. ASSUME NEW r \in Requests, MoveObjects(r) PROVE TransferInv'
  <2>1. \A q \in Requests : request'[q].copy = request[q].copy
    BY <1>1, <1>7, MovedRequest DEF TransferInv
  <2>2. QED
    BY <1>0, <1>7, <2>1 DEF TransferInv, MoveObjects
<1>8. ASSUME NEW r \in Requests, MarkAsTransferred(r) PROVE TransferInv'
  <2>1. [request[r].copy EXCEPT !.archived = TRUE, !.to = request[r].target].archived
    BY <1>1 DEF RequestType, Rows
  <2>2. \A c \in Companies : Transferred(company'[c])
    BY <1>1, <1>8, <2>1 DEF MarkAsTransferred, Transferred, TransferInv
  <2>3. \A q \in Requests : Transferred(request'[q].copy)
    BY <1>1, <1>8 DEF MarkAsTransferred, TransferInv
  <2>4. QED
    BY <1>0, <2>2, <2>3 DEF TransferInv
<1>9. ASSUME NEW r \in Requests, NEW i \in Items, VisitItem(r, i) PROVE TransferInv'
  <2>1. [Idle EXCEPT !.op = "item", !.item = i, !.was = owner[i]].copy = Idle.copy
    BY DEF Idle
  <2>2. QED
    BY <1>1, <1>3, <1>9, <2>1 DEF VisitItem
<1>10. ASSUME NEW r \in Requests, SaveItem(r) \/ Abandon(r) PROVE TransferInv'
  BY <1>1, <1>3, <1>10 DEF SaveItem, Abandon
<1>11. ASSUME NEW i \in Items, NEW c \in Companies, AddItem(i, c) PROVE TransferInv'
  BY <1>0, <1>11 DEF AddItem, TransferInv
<1>12. CASE UNCHANGED vars
  BY <1>0, <1>12 DEF vars, TransferInv
<1>13. QED
  BY <1>4, <1>5, <1>6, <1>7, <1>8, <1>9, <1>10, <1>11, <1>12 DEF Next

LEMMA TransferInit == Init => TransferInv
BY TypeInit DEF Init, TransferInv, Transferred, Idle

LEMMA TransferAlways == Spec => []TransferInv
BY TransferInit, TransferStep, PTL DEF Spec

\* A company whose data was transferred stays archived, though requests that
\* archive, unarchive and edit it save all columns of older copies: a copy is
\* always one of a row of which this was true.
THEOREM TransferredStayArchived == Spec => []TransferredIsArchived
<1>1. TransferInv => TransferredIsArchived
  BY DEF TransferInv, Transferred, TransferredIsArchived
<1>2. QED
  BY <1>1, TransferAlways, PTL

-----------------------------------------------------------------------------
(* What a save of a company changes, and what it does not *)

\* As long as no newer row is overwritten, only a merge says where a company
\* was transferred to.
LEMMA SaveKeepsTransfers ==
  ASSUME TypeInv, NEW r \in Requests, Archive(r) \/ Unarchive(r) \/ UpdateCompany(r)
  PROVE  /\ outdated => outdated'
         /\ outdated' \/ \A c \in Companies : company'[c].to = company[c].to
         /\ request' = [request EXCEPT ![r] = Idle]
         /\ UNCHANGED <<kind, owner, late, overlapped, ignored>>
<1>0. /\ request[r] \in RequestType /\ request[r].copy \in Rows
      /\ company \in [Companies -> Rows]
      /\ request[r].source \in Companies
  BY TypeFold DEF TypeInv, TypeOK, Addressed, RequestType, Archive, Unarchive,
                  UpdateCompany
<1>1. PICK new \in Rows : SaveCompany(r, new) /\ new.to = request[r].copy.to
  <2>1. CASE Archive(r)
    <3>1. /\ [request[r].copy EXCEPT !.archived = TRUE] \in Rows
          /\ [request[r].copy EXCEPT !.archived = TRUE].to = request[r].copy.to
      BY <1>0 DEF Rows
    <3>2. QED
      BY <2>1, <3>1 DEF Archive
  <2>2. CASE Unarchive(r)
    <3>1. /\ [request[r].copy EXCEPT !.archived = FALSE] \in Rows
          /\ [request[r].copy EXCEPT !.archived = FALSE].to = request[r].copy.to
      BY <1>0 DEF Rows
    <3>2. QED
      BY <2>2, <3>1 DEF Unarchive
  <2>3. CASE UpdateCompany(r)
    BY <1>0, <2>3 DEF UpdateCompany
  <2>4. QED
    BY <2>1, <2>2, <2>3
<1>2. outdated' \/ company[request[r].source] = request[r].copy
  BY <1>1 DEF SaveCompany
<1>3. company' = [company EXCEPT ![request[r].source] = new]
  BY <1>1 DEF SaveCompany
<1>4. outdated' \/ \A c \in Companies : company'[c].to = company[c].to
  BY <1>0, <1>1, <1>2, <1>3
<1>5. QED
  BY <1>1, <1>4 DEF SaveCompany

-----------------------------------------------------------------------------
(* Transfers end *)

\* A merge that is under way alone still has a target that was not transferred.
ChainInv ==
  /\ TransferInv
  /\ TransfersEnd
  /\ overlapped \/ \A q, r \in Requests : Merging(q) /\ Merging(r) => q = r
  /\ overlapped \/ outdated \/
       \A r \in Requests : Merging(r) => company[request[r].target].to = None

LEMMA ChainInit == Init => ChainInv
<1> SUFFICES ASSUME Init PROVE ChainInv
  OBVIOUS
<1>1. TransferInv
  BY TransferInit
<1>2. TransfersEnd
  <2>1. SUFFICES ASSUME NEW S \in SUBSET Companies, S # {},
                        \A c \in S : company[c].to \in S
                 PROVE  FALSE
    BY DEF TransfersEnd
  <2>2. PICK c \in S : company[c].to \in S
    BY <2>1
  <2>3. company[c].to = None
    BY <2>2 DEF Init
  <2>4. QED
    BY <2>2, <2>3, NoneAssumption
<1>3. \A r \in Requests : ~Merging(r)
  BY DEF Init, Merging, Idle
<1>4. QED
  BY <1>1, <1>2, <1>3 DEF ChainInv

\* What neither starts a merge nor moves a transfer keeps the invariant.
LEMMA ChainOfOthers ==
  ASSUME ChainInv, TransferInv', overlapped' = overlapped, outdated => outdated',
         outdated' \/ \A c \in Companies : company'[c].to = company[c].to,
         \A q \in Requests : Merging(q)' =>
           Merging(q) /\ request'[q].target = request[q].target
  PROVE  ChainInv'
<1>1. TransfersEnd'
  BY DEF ChainInv, TransfersEnd
<1>2. \A q \in Requests : Merging(q)' => request[q].target \in Companies
  BY DEF ChainInv, TransferInv, TypeInv, Addressed, Merging
<1>3. QED
  BY <1>1, <1>2 DEF ChainInv

LEMMA ChainOfMerge ==
  ASSUME ChainInv, TransferInv', NEW r \in Requests, MarkAsTransferred(r)
  PROVE  ChainInv'
<1>0. /\ request \in [Requests -> RequestType]
      /\ company \in [Companies -> Rows]
      /\ request[r].source \in Companies /\ request[r].target \in Companies
      /\ overlapped \in BOOLEAN /\ outdated \in BOOLEAN
  BY TypeFold DEF ChainInv, TransferInv, TypeInv, TypeOK, Addressed,
                  MarkAsTransferred, Merging
<1> DEFINE a == request[r].source
           b == request[r].target
<1>1. /\ request' = [request EXCEPT ![r] = Idle]
      /\ overlapped' = overlapped /\ (outdated => outdated') /\ Merging(r)
      /\ company' = [company EXCEPT ![a] =
                       [request[r].copy EXCEPT !.archived = TRUE, !.to = b]]
  BY DEF MarkAsTransferred
<1>2. company'[a].to = b
  <2>1. request[r].copy \in Rows
    BY <1>0 DEF RequestType
  <2>2. QED
    BY <1>0, <1>1, <2>1 DEF Rows
<1>3. \A q \in Requests : Merging(q)' => q # r /\ Merging(q)
  BY <1>0, <1>1 DEF Merging, Idle
<1>4. overlapped' \/ \A q \in Requests : ~Merging(q)'
  BY <1>1, <1>3 DEF ChainInv
<1>5. TransfersEnd'
  <2>1. SUFFICES ASSUME ~overlapped, ~outdated,
                        NEW S \in SUBSET Companies, S # {},
                        \A c \in S : company'[c].to \in S
                 PROVE  FALSE
    BY <1>1 DEF TransfersEnd
  <2>2. company[b].to = None
    BY <1>1, <2>1 DEF ChainInv
  <2>3. \A c \in Companies \ {a} : company'[c].to = company[c].to
    BY <1>0, <1>1
  <2>4. b \notin S \/ b = a
    BY <2>1, <2>2, <2>3, NoneAssumption
  <2>5. b # a
    BY <1>1 DEF ChainInv, TransferInv, TypeInv, Addressed, Merging
  <2>6. a \notin S
    BY <1>2, <2>1, <2>4, <2>5
  <2>7. \A c \in S : company[c].to \in S
    BY <2>1, <2>3, <2>6
  <2>8. QED
    BY <2>1, <2>7 DEF ChainInv, TransfersEnd
<1>6. QED
  BY <1>4, <1>5 DEF ChainInv

LEMMA ChainOfStart ==
  ASSUME ChainInv, TransferInv', NEW r \in Requests,
         NEW a \in Companies, NEW b \in Companies, StartMerge(r, a, b)
  PROVE  ChainInv'
<1>0. request \in [Requests -> RequestType] /\ overlapped \in BOOLEAN
  BY TypeFold DEF ChainInv, TransferInv, TypeInv, TypeOK
<1>1. /\ company' = company /\ outdated' = outdated
      /\ overlapped' = (overlapped \/ \E q \in Requests : Merging(q))
      /\ ~company[b].archived
  BY DEF StartMerge, Mergeable
<1>2. /\ \A q \in Requests \ {r} : request'[q] = request[q]
      /\ request'[r].target = b
  BY <1>0 DEF StartMerge, Idle
<1>3. company[b].to = None
  BY <1>1 DEF ChainInv, TransferInv, Transferred
<1>4. TransfersEnd'
  BY <1>1 DEF ChainInv, TransfersEnd
<1>5. overlapped' \/ \A q \in Requests : Merging(q)' => q = r
  BY <1>1, <1>2 DEF Merging
<1>6. QED
  BY <1>1, <1>2, <1>3, <1>4, <1>5 DEF ChainInv

LEMMA ChainStep == ChainInv /\ [Next]_vars => ChainInv'
<1> SUFFICES ASSUME ChainInv, [Next]_vars PROVE ChainInv'
  OBVIOUS
<1>0. TransferInv'
  BY TransferStep DEF ChainInv
<1>1. request \in [Requests -> RequestType] /\ TypeInv
  BY TypeFold DEF ChainInv, TransferInv, TypeInv
<1>2. ASSUME NEW r \in Requests, overlapped' = overlapped, outdated => outdated',
             outdated' \/ \A c \in Companies : company'[c].to = company[c].to,
             NEW st, request' = [request EXCEPT ![r] = st], st.op # "merge"
      PROVE  ChainInv'
  <2>1. \A q \in Requests : Merging(q)' =>
           Merging(q) /\ request'[q].target = request[q].target
    BY <1>1, <1>2 DEF Merging
  <2>2. QED
    BY <1>0, <1>2, <2>1, ChainOfOthers
<1>3. ASSUME NEW r \in Requests, NEW c \in Companies,
             NEW op \in {"archive", "unarchive", "update"}, Visit(r, op, c)
      PROVE  ChainInv'
  <2>1. [Idle EXCEPT !.op = op, !.source = c, !.copy = company[c]].op # "merge"
    BY DEF Idle
  <2>2. QED
    BY <1>2, <1>3, <2>1 DEF Visit
<1>4. ASSUME NEW r \in Requests, Archive(r) \/ Unarchive(r) \/ UpdateCompany(r)
      PROVE  ChainInv'
  <2>1. Idle.op # "merge"
    BY DEF Idle
  <2>2. QED
    BY <1>1, <1>2, <1>4, <2>1, SaveKeepsTransfers
<1>5. ASSUME NEW r \in Requests, MoveObjects(r) PROVE ChainInv'
  <2>1. \A q \in Requests : /\ request'[q].op = request[q].op
                            /\ request'[q].target = request[q].target
    <3>1. request[r].op = "merge"
      BY <1>5 DEF MoveObjects, Merging
    <3>2. QED
      BY <1>1, <1>5, <3>1, MovedRequest
  <2>2. \A q \in Requests : Merging(q)' =>
           Merging(q) /\ request'[q].target = request[q].target
    BY <2>1 DEF Merging
  <2>3. company' = company /\ overlapped' = overlapped /\ outdated' = outdated
    BY <1>5 DEF MoveObjects
  <2>4. QED
    BY <1>0, <2>2, <2>3, ChainOfOthers
<1>6. ASSUME NEW r \in Requests, NEW i \in Items, VisitItem(r, i) PROVE ChainInv'
  <2>1. [Idle EXCEPT !.op = "item", !.item = i, !.was = owner[i]].op # "merge"
    BY DEF Idle
  <2>2. QED
    BY <1>2, <1>6, <2>1 DEF VisitItem
<1>7. ASSUME NEW r \in Requests, SaveItem(r) \/ Abandon(r) PROVE ChainInv'
  <2>1. Idle.op # "merge"
    BY DEF Idle
  <2>2. QED
    BY <1>2, <1>7, <2>1 DEF SaveItem, Abandon
<1>8. ASSUME NEW i \in Items, NEW c \in Companies, AddItem(i, c) PROVE ChainInv'
  BY <1>0, <1>8, ChainOfOthers DEF AddItem, Merging
<1>9. CASE UNCHANGED vars
  BY <1>0, <1>9, ChainOfOthers DEF vars, Merging
<1>10. QED
  BY <1>0, <1>3, <1>4, <1>5, <1>6, <1>7, <1>8, <1>9, ChainOfMerge, ChainOfStart
     DEF Next

\* Merges one after the other never make a cycle: the target of a merge is not
\* archived when it starts, so it was not transferred, and nobody else can
\* transfer it before the merge is done.
THEOREM TransfersAlwaysEnd == Spec => []TransfersEnd
<1>1. Spec => []ChainInv
  BY ChainInit, ChainStep, PTL DEF Spec
<1>2. ChainInv => TransfersEnd
  BY DEF ChainInv
<1>3. QED
  BY <1>1, <1>2, PTL

-----------------------------------------------------------------------------
(* Nothing is left behind *)

Ignored(i, which) == kind = "team" /\ i \in which

\* A merge that has looked for the items of its source knows what becomes of
\* each of them, unless the item came later.
Known(r, i) ==
  i \in late \cup request[r].moved \cup request[r].deleted \/ Ignored(i, request[r].left)

ItemsInv ==
  /\ TypeInv
  /\ NothingLeftBehind
  /\ outdated \/ \A r \in Requests, i \in Items :
       request[r].done /\ owner[i] = request[r].source => Known(r, i)

LEMMA ItemsInit == Init => ItemsInv
<1> SUFFICES ASSUME Init PROVE ItemsInv
  OBVIOUS
<1>1. TypeInv
  BY TypeInit
<1>2. \A r \in Requests : ~request[r].done
  BY DEF Init, Idle
<1>3. NothingLeftBehind
  BY DEF Init, NothingLeftBehind
<1>4. QED
  BY <1>1, <1>2, <1>3 DEF ItemsInv

\* A step that writes no item and transfers no company.
LEMMA ItemsOfRequests ==
  ASSUME ItemsInv, TypeInv', UNCHANGED <<kind, owner, late, ignored>>,
         outdated => outdated',
         outdated' \/ \A c \in Companies : company'[c].to = company[c].to,
         NEW r \in Requests, NEW st, request' = [request EXCEPT ![r] = st],
         outdated' \/ \A i \in Items : ~(st.done /\ owner[i] = st.source)
  PROVE  ItemsInv'
<1>1. request \in [Requests -> RequestType] /\ owner \in [Items -> Companies \cup {None}]
  BY TypeFold DEF ItemsInv, TypeInv, TypeOK
<1>2. NothingLeftBehind'
  BY <1>1 DEF ItemsInv, NothingLeftBehind
<1>3. \A q \in Requests : request'[q] = IF q = r THEN st ELSE request[q]
  BY <1>1
<1>4. QED
  BY <1>2, <1>3 DEF ItemsInv, Known, Ignored

LEMMA ItemsOfMove ==
  ASSUME ItemsInv, TypeInv', NEW r \in Requests, MoveObjects(r)
  PROVE  ItemsInv'
<1>1. /\ request \in [Requests -> RequestType]
      /\ request[r] \in RequestType /\ kind \in Kinds
  BY TypeFold DEF ItemsInv, TypeInv, TypeOK
<1> DEFINE mine == {i \in Items : owner[i] = request[r].source}
           treated == Treatment(\E k \in Items : owner[k] = request[r].target)
<1>2. request' = [request EXCEPT
        ![r].done = TRUE,
        ![r].moved = IF treated = "plain" THEN mine ELSE {},
        ![r].deleted = IF treated = "list" THEN mine ELSE {},
        ![r].left = IF treated = "team" THEN mine ELSE {}]
  BY DEF MoveObjects
<1>3. treated \in Kinds /\ (treated = "team" => kind = "team")
  BY <1>1 DEF Treatment, Kinds
<1> HIDE DEF mine, treated
<1>4. /\ request'[r].moved = IF treated = "plain" THEN mine ELSE {}
      /\ request'[r].deleted = IF treated = "list" THEN mine ELSE {}
      /\ request'[r].left = IF treated = "team" THEN mine ELSE {}
      /\ request'[r].source = request[r].source
      /\ \A q \in Requests \ {r} : request'[q] = request[q]
  BY <1>1, <1>2 DEF RequestType
<1>5. /\ UNCHANGED <<kind, owner, late>>
      /\ company' = company /\ outdated' = outdated /\ ignored' = ignored
  BY DEF MoveObjects
<1>6. \A i \in Items : owner'[i] = request'[r].source => Known(r, i)'
  <2>1. \A i \in Items : owner[i] = request[r].source => i \in mine
    BY DEF mine
  <2>2. QED
    BY <1>3, <1>4, <1>5, <2>1 DEF Known, Ignored, Kinds
<1>7. NothingLeftBehind'
  BY <1>5 DEF ItemsInv, NothingLeftBehind
<1>8. QED
  BY <1>4, <1>5, <1>6, <1>7 DEF ItemsInv, Known, Ignored

LEMMA ItemsOfMerge ==
  ASSUME ItemsInv, TypeInv', NEW r \in Requests, MarkAsTransferred(r)
  PROVE  ItemsInv'
<1>0. /\ request \in [Requests -> RequestType]
      /\ company \in [Companies -> Rows]
      /\ owner \in [Items -> Companies \cup {None}]
      /\ request[r].source \in Companies
      /\ request[r].target \in Companies \ {request[r].source}
  BY TypeFold DEF ItemsInv, TypeInv, TypeOK, Addressed, MarkAsTransferred, Merging
<1> DEFINE a == request[r].source
           b == request[r].target
           moved == request[r].moved
           deleted == request[r].deleted
<1>1. /\ request[r].done /\ kind' = kind /\ (outdated => outdated')
      /\ company' = [company EXCEPT ![a] =
                       [request[r].copy EXCEPT !.archived = TRUE, !.to = b]]
      /\ owner' = [i \in Items |-> IF i \in moved THEN b
                                  ELSE IF i \in deleted THEN None ELSE owner[i]]
      /\ late' = (late \ (moved \cup deleted)) \cup {i \in moved : Closed(b)}
      /\ ignored' = ignored \cup request[r].left
      /\ request' = [request EXCEPT ![r] = Idle]
  BY DEF MarkAsTransferred
<1>2. \A c \in Companies \ {a} : company'[c] = company[c]
  BY <1>0, <1>1
<1>3. \A i \in Items : owner'[i] \in Companies =>
        \/ i \in moved /\ owner'[i] = b /\ (Closed(b) => i \in late')
        \/ i \notin moved \cup deleted /\ owner'[i] = owner[i] /\ (i \in late => i \in late')
  BY <1>1, NoneAssumption
<1>4. NothingLeftBehind'
  <2>1. SUFFICES ASSUME NEW i \in Items, owner'[i] # None,
                        company'[owner'[i]].to # None, ~outdated'
                 PROVE  i \in late' \/ Ignored(i, ignored')
    BY <1>1 DEF NothingLeftBehind, Ignored
  <2>2. owner'[i] \in Companies
    BY <2>1 DEF TypeInv, TypeOK
  <2>3. CASE owner'[i] = a
    BY <1>0, <1>1, <1>3, <2>1, <2>2, <2>3 DEF ItemsInv, Known, Ignored
  <2>4. CASE owner'[i] # a /\ i \in moved
    BY <1>0, <1>1, <1>2, <1>3, <2>1, <2>2, <2>4, NoneAssumption DEF Closed
  <2>5. CASE owner'[i] # a /\ i \notin moved
    BY <1>1, <1>2, <1>3, <2>1, <2>2, <2>5 DEF ItemsInv, NothingLeftBehind, Ignored
  <2>6. QED
    BY <2>3, <2>4, <2>5
<1>5. ASSUME NEW q \in Requests, NEW i \in Items, ~outdated',
             request'[q].done, owner'[i] = request'[q].source
      PROVE  Known(q, i)'
  <2>1. q # r /\ request'[q] = request[q]
    BY <1>0, <1>1, <1>5 DEF Idle
  <2>2. owner'[i] \in Companies
    BY <1>5, <2>1 DEF ItemsInv, TypeInv, Addressed
  <2>3. CASE i \in moved /\ owner'[i] = b
    BY <1>3, <1>5, <2>1, <2>2, <2>3 DEF Closed, Known
  <2>4. CASE i \notin moved \cup deleted /\ owner'[i] = owner[i]
    BY <1>1, <1>3, <1>5, <2>1, <2>2, <2>4 DEF ItemsInv, Known, Ignored
  <2>5. QED
    BY <1>3, <2>2, <2>3, <2>4
<1>6. QED
  BY <1>4, <1>5 DEF ItemsInv

\* An item that comes to a company whose merge has looked for its items is late.
LEMMA ItemsOfWrite ==
  ASSUME ItemsInv, TypeInv', NEW j \in Items, NEW c \in Companies \cup {None},
         owner' = [owner EXCEPT ![j] = c],
         \/ owner[j] = c
         \/ c \in Companies /\ (Closed(c) => j \in late')
         \/ c = None,
         late \subseteq late', UNCHANGED <<kind, company, outdated, ignored>>,
         \A q \in Requests : request'[q].done =>
           /\ request[q].done /\ request'[q] = request[q]
  PROVE  ItemsInv'
<1>0. owner \in [Items -> Companies \cup {None}]
  BY DEF ItemsInv, TypeInv, TypeOK
<1>1. \A i \in Items :
        \/ owner'[i] = owner[i]
        \/ owner'[i] = None
        \/ i = j /\ owner'[i] = c /\ (Closed(c) => j \in late')
  BY <1>0
<1>2. NothingLeftBehind'
  BY <1>1 DEF ItemsInv, NothingLeftBehind, Closed
<1>3. ASSUME NEW q \in Requests, NEW i \in Items, ~outdated',
             request'[q].done, owner'[i] = request'[q].source
      PROVE  Known(q, i)'
  <2>1. request[q].done /\ request'[q] = request[q]
    BY <1>3
  <2>2. owner'[i] # None
    BY <1>3, <2>1, NoneAssumption DEF ItemsInv, TypeInv, Addressed
  <2>3. CASE owner'[i] = owner[i]
    BY <1>3, <2>1, <2>3 DEF ItemsInv, Known, Ignored
  <2>4. CASE i = j /\ owner'[i] = c /\ (Closed(c) => j \in late')
    BY <1>3, <2>1, <2>4 DEF Closed, Known
  <2>5. QED
    BY <1>1, <2>2, <2>3, <2>4
<1>4. QED
  BY <1>2, <1>3 DEF ItemsInv

LEMMA ItemsStep == ItemsInv /\ [Next]_vars => ItemsInv'
<1> SUFFICES ASSUME ItemsInv, [Next]_vars PROVE ItemsInv'
  OBVIOUS
<1>0. TypeInv'
  BY TypeStep DEF ItemsInv
<1>1. request \in [Requests -> RequestType] /\ TypeInv /\ ~Idle.done
  BY TypeFold DEF ItemsInv, TypeInv, Idle
<1>2. ASSUME NEW r \in Requests, NEW c \in Companies,
             NEW op \in {"archive", "unarchive", "update"}, Visit(r, op, c)
      PROVE  ItemsInv'
  <2>1. ~[Idle EXCEPT !.op = op, !.source = c, !.copy = company[c]].done
    BY DEF Idle
  <2>2. QED
    BY <1>0, <1>2, <2>1, ItemsOfRequests DEF Visit
<1>3. ASSUME NEW r \in Requests, Archive(r) \/ Unarchive(r) \/ UpdateCompany(r)
      PROVE  ItemsInv'
  BY <1>0, <1>1, <1>3, SaveKeepsTransfers, ItemsOfRequests
<1>4. ASSUME NEW r \in Requests, NEW a \in Companies, NEW b \in Companies,
             StartMerge(r, a, b)
      PROVE  ItemsInv'
  <2>1. ~[Idle EXCEPT !.op = "merge", !.source = a, !.target = b,
                      !.copy = company[a]].done
    BY DEF Idle
  <2>2. QED
    BY <1>0, <1>4, <2>1, ItemsOfRequests DEF StartMerge
<1>5. ASSUME NEW r \in Requests, NEW i \in Items, VisitItem(r, i) PROVE ItemsInv'
  <2>1. ~[Idle EXCEPT !.op = "item", !.item = i, !.was = owner[i]].done
    BY DEF Idle
  <2>2. QED
    BY <1>0, <1>5, <2>1, ItemsOfRequests DEF VisitItem
<1>6. ASSUME NEW r \in Requests, Abandon(r) PROVE ItemsInv'
  BY <1>0, <1>1, <1>6, ItemsOfRequests DEF Abandon
<1>7. ASSUME NEW r \in Requests, SaveItem(r) PROVE ItemsInv'
  <2>1. /\ request[r].item \in Items
        /\ request[r].was \in Companies \cup {None}
    BY <1>1, <1>7 DEF SaveItem, TypeInv, Addressed, RequestType
  <2>2. \A q \in Requests : request'[q].done =>
           /\ request[q].done /\ request'[q] = request[q]
    BY <1>1, <1>7 DEF SaveItem
  <2>3. QED
    BY <1>0, <1>7, <2>1, <2>2, ItemsOfWrite DEF SaveItem
<1>8. ASSUME NEW i \in Items, NEW c \in Companies, AddItem(i, c) PROVE ItemsInv'
  BY <1>0, <1>8, ItemsOfWrite DEF AddItem
<1>9. CASE UNCHANGED vars
  BY <1>0, <1>9 DEF vars, ItemsInv, NothingLeftBehind, Known, Ignored
<1>10. QED
  BY <1>0, <1>2, <1>3, <1>4, <1>5, <1>6, <1>7, <1>8, <1>9, ItemsOfMove, ItemsOfMerge
     DEF Next

\* Whatever other requests write while a company is merged, all that is left
\* with it afterwards was written too late for the merge, or was ignored by it,
\* unless an older copy of a company undid a transfer.
THEOREM NothingIsLeftBehind == Spec => []NothingLeftBehind
<1>1. Spec => []ItemsInv
  BY ItemsInit, ItemsStep, PTL DEF Spec
<1>2. ItemsInv => NothingLeftBehind
  BY DEF ItemsInv
<1>3. QED
  BY <1>1, <1>2, PTL

=============================================================================
