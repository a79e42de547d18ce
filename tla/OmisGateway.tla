---------------------------- MODULE OmisGateway -----------------------------
(***************************************************************************)
(* Card payments of one OMIS order: the payment gateway sessions on record, *)
(* the GOV.UK payments they stand for, and the transactions that keep the  *)
(* two and the order in step:                                              *)
(*   viewers    GET payment-gateway-session/<id>, by the client's browser; *)
(*   jobs       refresh_payment_gateway_session, queued every hour for     *)
(*              each ongoing session;                                      *)
(*   creators   POST payment-gateway-session, by the client's browser.     *)
(*                                                                         *)
(* A transaction reads committed rows and its own, keeps its writes until  *)
(* Commit, and holds the row locks of SELECT FOR UPDATE and of UPDATE      *)
(* until it ends.  Everything else that happens to the order comes from    *)
(* OrderLifecycle, one whole request at a time.                            *)
(***************************************************************************)
EXTENDS Naturals, FiniteSets, OmisConstants

CONSTANTS Viewers, Jobs, Creators,  \* the processes, by what they run
          Nobody,                   \* who holds a lock that is free
          Prices,                   \* what an order may cost
          GovUkStatus,              \* statuses clients take a payment to
          MaxSessions               \* bound on the GOV.UK payments created

Procs == Viewers \cup Jobs \cup Creators
Sessions == 1..MaxSessions

ASSUME GatewayAssumption ==
  /\ Nobody \notin Procs
  /\ Viewers \cap Jobs = {} /\ Creators \cap (Viewers \cup Jobs) = {}
  /\ IsFiniteSet(Creators)
  /\ Prices \subseteq Nat /\ Prices # {}
  /\ GovUkStatus \subseteq SessionStatus
  /\ MaxSessions \in Nat

VARIABLES status, quote, price,       \* the order
          row,          \* the status of each session on record
          credits,      \* how often the payment of a session is on record
          remote,       \* the status of each GOV.UK payment
          amount,       \* what each GOV.UK payment is for
          sessionLock, orderLock,     \* who holds the rows
          proc          \* what each process is doing

orderVars == <<status, quote, price>>
gateway == <<remote, amount>>
locks == <<sessionLock, orderLock>>
vars == <<orderVars, row, credits, gateway, locks, proc>>

\* Status of a session or a payment that does not exist.
NoRow == "none"

Lifecycle == INSTANCE OrderLifecycle

PublicStatus == {ACCEPTED, PAID, COMPLETE}

NoOrder == [status |-> DRAFT, price |-> 0]

\* session   the session being refreshed         then   where that returns to
\* todo      sessions the loop has left          copy   the status as read
\* seen      what GOV.UK answered                order  the copy of the order
\* saved     uncommitted session rows            paid   uncommitted payments
Idle == [pc |-> "idle", session |-> 0, then |-> "commit", todo |-> {},
         copy |-> NoRow, seen |-> NoRow, order |-> NoOrder,
         saved |-> [s \in Sessions |-> NoRow], paid |-> {}]

-----------------------------------------------------------------------------
(* What a transaction sees and holds *)

RowOf(p, s) == IF proc[p].saved[s] = NoRow THEN row[s] ELSE proc[p].saved[s]

\* refresh_from_db() and a lazily loaded session.order.
OrderOf(p) == IF proc[p].paid = {} THEN [status |-> status, price |-> price]
              ELSE proc[p].order

Ongoing(p) == {s \in Sessions : RowOf(p, s) \in OngoingStatus}

Free(lock, p) == lock \in {Nobody, p}

\* Loops and SELECTs take the sessions latest first (Meta.ordering).
Latest(s, S) == s \in S /\ \A t \in S : t <= s

\* The transaction ends and its locks are released.
End(p) ==
  /\ proc' = [proc EXCEPT ![p] = Idle]
  /\ sessionLock' = [s \in Sessions |->
                       IF sessionLock[s] = p THEN Nobody ELSE sessionLock[s]]
  /\ orderLock' = IF orderLock = p THEN Nobody ELSE orderLock

Rollback(p) == End(p) /\ UNCHANGED <<orderVars, row, credits, gateway>>

\* The process moves on without touching anything that others see.
Step(p, st) ==
  /\ proc' = [proc EXCEPT ![p] = st]
  /\ UNCHANGED <<orderVars, row, credits, gateway, locks>>

-----------------------------------------------------------------------------
(* Who starts *)

\* Reading a finished session changes nothing and is left out.
View(p, s) ==
  /\ proc[p].pc = "idle"
  /\ status \in PublicStatus
  /\ row[s] \in OngoingStatus
  /\ Step(p, [Idle EXCEPT !.pc = "fetch", !.session = s, !.copy = row[s]])

\* Mutant: sessions whose details have been submitted are not refreshed.
RunJobEarlyOnly(p, s) ==
  /\ proc[p].pc = "idle"
  /\ row[s] \in {"created", "started"}
  /\ sessionLock[s] = Nobody
  /\ sessionLock' = [sessionLock EXCEPT ![s] = p]
  /\ proc' = [proc EXCEPT ![p] = [Idle EXCEPT !.pc = "fetch", !.session = s,
                                              !.copy = row[s]]]
  /\ UNCHANGED <<orderVars, row, credits, gateway, orderLock>>

\* The job locks the session first.  It was queued for an ongoing session; one
\* that has finished by now is left alone.
RunJob(p, s) ==
  /\ proc[p].pc = "idle"
  /\ row[s] \in OngoingStatus
  /\ sessionLock[s] = Nobody
  /\ sessionLock' = [sessionLock EXCEPT ![s] = p]
  /\ proc' = [proc EXCEPT ![p] = [Idle EXCEPT !.pc = "fetch", !.session = s,
                                              !.copy = row[s]]]
  /\ UNCHANGED <<orderVars, row, credits, gateway, orderLock>>

\* The creator selects the ongoing sessions of the order.
Create(p) ==
  /\ proc[p].pc = "idle"
  /\ status \in PublicStatus
  /\ Step(p, [Idle EXCEPT !.pc = "lock", !.todo = Ongoing(p), !.then = "refresh"])

-----------------------------------------------------------------------------
(* refresh_from_govuk_payment *)

Fetch(p) ==
  LET st == proc[p]
      new == remote[st.session] IN
  /\ st.pc = "fetch"
  /\ Step(p, IF new = st.copy THEN [st EXCEPT !.pc = st.then]
             ELSE [st EXCEPT !.pc = "save", !.seen = new])

\* The UPDATE waits for the row, then overwrites whatever is there by now.
Save(p) ==
  LET st == proc[p] IN
  /\ st.pc = "save"
  /\ Free(sessionLock[st.session], p)
  /\ sessionLock' = [sessionLock EXCEPT ![st.session] = p]
  /\ proc' = [proc EXCEPT ![p].saved[st.session] = st.seen,
                          ![p].pc = IF st.seen = "success" THEN "order" ELSE st.then]
  /\ UNCHANGED <<orderVars, row, credits, gateway, orderLock>>

\* Mutant: an order that is already paid is paid again.
PayableTwice(o) == o.status \in {ACCEPTED, PAID}

Payable(o) == o.status = ACCEPTED

\* Mutant: any amount will do.
AnyAmount(o, s) == TRUE

Reconcilable(o, s) == amount[s] >= o.price

\* mark_as_paid reads the order and validates it.  A conflict undoes the refresh
\* of this session; a creator answers 409 and keeps what it refreshed before.
ReadOrder(p) ==
  LET st == proc[p]
      o == OrderOf(p) IN
  /\ st.pc = "order"
  /\ \/ /\ Payable(o) /\ Reconcilable(o, st.session)
        /\ Step(p, [st EXCEPT !.pc = "credit", !.order = o])
     \/ /\ ~Payable(o) /\ p \in Creators
        /\ Step(p, [st EXCEPT !.pc = "commit", !.saved[st.session] = NoRow])
     \/ /\ IF Payable(o) THEN ~Reconcilable(o, st.session) ELSE p \notin Creators
        /\ Rollback(p)

\* mark_as_paid records the payment and writes the whole row of the order.
Credit(p) ==
  LET st == proc[p] IN
  /\ st.pc = "credit"
  /\ Free(orderLock, p)
  /\ orderLock' = p
  /\ proc' = [proc EXCEPT ![p].paid = @ \cup {st.session},
                          ![p].order.status = PAID,
                          ![p].pc = st.then]
  /\ UNCHANGED <<orderVars, row, credits, gateway, sessionLock>>

-----------------------------------------------------------------------------
(* create_from_order *)

\* SELECT FOR UPDATE locks the rows one after the other, the latest first; one
\* that has finished by the time it is free no longer matches.
LockSession(p, s) ==
  /\ proc[p].pc = "lock" /\ Latest(s, proc[p].todo)
  /\ sessionLock[s] = Nobody
  /\ sessionLock' = IF row[s] \in OngoingStatus
                    THEN [sessionLock EXCEPT ![s] = p] ELSE sessionLock
  /\ proc' = [proc EXCEPT ![p].todo = @ \ {s}]
  /\ UNCHANGED <<orderVars, row, credits, gateway, orderLock>>

SessionsLocked(p) ==
  /\ proc[p].pc = "lock" /\ proc[p].todo = {}
  /\ Step(p, [proc[p] EXCEPT !.pc = "refresh",
                             !.todo = {s \in Sessions : sessionLock[s] = p}])

RefreshSession(p, s) ==
  LET st == proc[p] IN
  /\ st.pc = "refresh" /\ Latest(s, st.todo)
  /\ Step(p, [st EXCEPT !.pc = "fetch", !.todo = @ \ {s}, !.session = s,
                        !.copy = RowOf(p, s)])

\* order.refresh_from_db() and the validator; a conflict is answered with 409
\* and keeps what was refreshed.
ValidateOrder(p) ==
  LET st == proc[p] IN
  /\ st.pc = "refresh" /\ st.todo = {}
  /\ Step(p, IF Payable(OrderOf(p))
             THEN [st EXCEPT !.pc = "lockOrder", !.order = OrderOf(p)]
             ELSE [st EXCEPT !.pc = "commit"])

\* Mutant: the order is selected without FOR UPDATE.
SelectOrder(p) ==
  LET st == proc[p] IN
  /\ st.pc = "lockOrder"
  /\ Step(p, [st EXCEPT !.pc = "cancel", !.todo = Ongoing(p), !.then = "cancel"])

\* The order is locked, and the ongoing sessions are selected again.
LockOrder(p) ==
  LET st == proc[p] IN
  /\ st.pc = "lockOrder"
  /\ Free(orderLock, p)
  /\ orderLock' = p
  /\ proc' = [proc EXCEPT ![p] = [st EXCEPT !.pc = "cancel", !.todo = Ongoing(p),
                                            !.then = "cancel"]]
  /\ UNCHANGED <<orderVars, row, credits, gateway, sessionLock>>

\* Mutant: an error of the cancellation is ignored.
CancelSessionAnyway(p, s) ==
  LET st == proc[p] IN
  /\ st.pc = "cancel" /\ Latest(s, st.todo)
  /\ remote' = IF remote[s] \in OngoingStatus
               THEN [remote EXCEPT ![s] = "cancelled"] ELSE remote
  /\ proc' = [proc EXCEPT ![p] = [st EXCEPT !.pc = "fetch", !.todo = @ \ {s},
                                            !.session = s, !.copy = RowOf(p, s)]]
  /\ UNCHANGED <<orderVars, row, credits, amount, locks>>

\* Mutant: the session is marked as cancelled before GOV.UK is asked.
CancelSessionLocally(p, s) ==
  LET st == proc[p] IN
  /\ st.pc = "cancel" /\ Latest(s, st.todo)
  /\ Step(p, [st EXCEPT !.pc = "save", !.todo = @ \ {s}, !.session = s,
                        !.seen = "cancelled"])

\* GOV.UK cancels a payment that is not over, and answers with an error
\* otherwise, which fails the request.
CancelSession(p, s) ==
  LET st == proc[p] IN
  /\ st.pc = "cancel" /\ Latest(s, st.todo)
  /\ \/ /\ remote[s] \in OngoingStatus
        /\ remote' = [remote EXCEPT ![s] = "cancelled"]
        /\ proc' = [proc EXCEPT ![p] = [st EXCEPT !.pc = "fetch", !.todo = @ \ {s},
                                            !.session = s, !.copy = RowOf(p, s)]]
        /\ UNCHANGED <<orderVars, row, credits, amount, locks>>
     \/ /\ remote[s] \in FinishedStatus
        /\ Rollback(p)

\* Mutant: a status GOV.UK knows and the model of the session does not.
PendingStatus == "pending"

NewStatus == "created"

\* The new GOV.UK payment is for the price of the copy that was validated.
CreatePayment(p, s) ==
  LET st == proc[p] IN
  /\ st.pc = "cancel" /\ st.todo = {}
  /\ remote[s] = NoRow
  /\ \A t \in Sessions : t < s => remote[t] # NoRow
  /\ remote' = [remote EXCEPT ![s] = "created"]
  /\ amount' = [amount EXCEPT ![s] = st.order.price]
  /\ proc' = [proc EXCEPT ![p].saved[s] = NewStatus, ![p].pc = "commit"]
  /\ UNCHANGED <<orderVars, row, credits, locks>>

-----------------------------------------------------------------------------
(* How a transaction ends *)

Commit(p) ==
  LET st == proc[p] IN
  /\ st.pc = "commit"
  /\ row' = [s \in Sessions |-> RowOf(p, s)]
  /\ credits' = [s \in Sessions |->
                   IF s \in st.paid THEN credits[s] + 1 ELSE credits[s]]
  /\ status' = OrderOf(p).status
  /\ price' = OrderOf(p).price
  /\ End(p)
  /\ UNCHANGED <<quote, gateway>>

\* A call of GOV.UK fails or times out, or the process dies.
Abort(p) == proc[p].pc # "idle" /\ Rollback(p)

-----------------------------------------------------------------------------
(* The rest of the world *)

\* The client, who was given the session's link, and GOV.UK move the payment on;
\* it may go through several statuses before anyone looks again.
LaterStatus(st) ==
  CASE st = "created" -> {"started", "submitted"} \cup FinishedStatus
    [] st = "started" -> {"submitted"} \cup FinishedStatus
    [] st = "submitted" -> FinishedStatus
    [] OTHER -> {}

Pay(s) ==
  /\ row[s] # NoRow
  /\ \E new \in LaterStatus(remote[s]) \cap GovUkStatus : remote' = [remote EXCEPT ![s] = new]
  /\ UNCHANGED <<orderVars, row, credits, amount, locks, proc>>

\* The other requests on the order.  A new quote may ask for another price.
UpdateOrder ==
  /\ orderLock = Nobody
  /\ \/ Lifecycle!GenerateQuote /\ price' \in Prices
     \/ (Lifecycle!Next /\ ~Lifecycle!GenerateQuote) /\ UNCHANGED price
  /\ UNCHANGED <<row, credits, gateway, locks, proc>>

\* The VAT of an order that is not paid can be edited.
UpdateVat ==
  /\ orderLock = Nobody
  /\ status \in {DRAFT, AWAITING, ACCEPTED}
  /\ price' \in Prices
  /\ UNCHANGED <<status, quote, row, credits, gateway, locks, proc>>

-----------------------------------------------------------------------------

Init == /\ Lifecycle!Init
        /\ price \in Prices
        /\ row = [s \in Sessions |-> NoRow]
        /\ credits = [s \in Sessions |-> 0]
        /\ remote = [s \in Sessions |-> NoRow]
        /\ amount = [s \in Sessions |-> 0]
        /\ sessionLock = [s \in Sessions |-> Nobody]
        /\ orderLock = Nobody
        /\ proc = [p \in Procs |-> Idle]

\* A transaction under way takes its next step.
Advance(p) == \/ Fetch(p) \/ Save(p) \/ ReadOrder(p) \/ Credit(p)
              \/ SessionsLocked(p) \/ ValidateOrder(p) \/ LockOrder(p)
              \/ \E s \in Sessions : \/ LockSession(p, s) \/ RefreshSession(p, s)
                                    \/ CancelSession(p, s) \/ CreatePayment(p, s)
              \/ Commit(p)

Next == \/ \E p \in Viewers, s \in Sessions : View(p, s)
        \/ \E p \in Jobs, s \in Sessions : RunJob(p, s)
        \/ \E p \in Creators : Create(p)
        \/ \E p \in Procs : Advance(p) \/ Abort(p)
        \/ \E s \in Sessions : Pay(s)
        \/ UpdateOrder
        \/ UpdateVat

Spec == Init /\ [][Next]_vars

\* No request hangs; and as the hourly job is queued again for as long as the
\* session is ongoing, one of its runs in the end gets through each step.
Fairness ==
  /\ \A p \in Procs : WF_vars(Advance(p))
  /\ \A p \in Jobs :
       /\ \A s \in Sessions : SF_vars(RunJob(p, s))
       /\ SF_vars(Fetch(p)) /\ SF_vars(Save(p)) /\ SF_vars(ReadOrder(p))
       /\ SF_vars(Credit(p)) /\ SF_vars(Commit(p))

FairSpec == Spec /\ Fairness

-----------------------------------------------------------------------------
(* Properties *)

Statuses == SessionStatus \cup {NoRow}

ProcStates ==
  [pc : {"idle", "fetch", "save", "order", "credit", "lock", "refresh",
         "lockOrder", "cancel", "commit"},
   session : Sessions \cup {0}, then : {"commit", "refresh", "cancel"},
   todo : SUBSET Sessions, copy : Statuses, seen : Statuses,
   order : [status : OrderStatus, price : Prices \cup {0}],
   saved : [Sessions -> Statuses], paid : SUBSET Sessions]

TypeOK ==
  /\ Lifecycle!TypeOK
  /\ price \in Prices
  /\ row \in [Sessions -> Statuses] /\ remote \in [Sessions -> Statuses]
  /\ credits \in [Sessions -> Nat] /\ amount \in [Sessions -> Prices \cup {0}]
  /\ sessionLock \in [Sessions -> Procs \cup {Nobody}]
  /\ orderLock \in Procs \cup {Nobody}
  /\ proc \in [Procs -> ProcStates]

\* The client never holds two links with which he could pay: creating a session
\* cancels the others, whatever other creators, viewers and jobs are doing
\* ("cancel other ongoing sessions", omis/payment/managers.py:35-40).
OnePayable ==
  Cardinality({s \in Sessions : row[s] # NoRow /\ remote[s] \in OngoingStatus}) <= 1

\* A session is recorded as finished only when its GOV.UK payment finished that
\* way, so giving up on it loses no money (refresh_from_govuk_payment,
\* omis/payment/models.py:85-94, with no lock on the views' path).
FinishedAsGovUk == \A s \in Sessions : row[s] \in FinishedStatus => row[s] = remote[s]

\* A card payment is put on record at most once, although views, jobs and
\* creators may all learn of its success (omis/payment/models.py:93-102).
CreditedOnce ==
  \A s \in Sessions : /\ credits[s] <= 1
                      /\ credits[s] > 0 => remote[s] = "success"
                      /\ row[s] = "success" => credits[s] = 1

\* An order paid by card shows a price that its card payment covers
\* (ReconcilablePaymentsSubValidator, omis/payment/validators.py:14-21).
CreditCoversPrice ==
  \A s \in Sessions : status = PAID /\ credits[s] > 0 => amount[s] >= price

\* p waits for a row that q holds.
WaitsFor(p, q) ==
  LET st == proc[p] IN
  /\ p # q
  /\ \/ st.pc = "save" /\ sessionLock[st.session] = q
     \/ st.pc = "lock" /\ \E s \in st.todo : Latest(s, st.todo) /\ sessionLock[s] = q
     \/ st.pc \in {"credit", "lockOrder"} /\ orderLock = q

\* Transactions each of which waits for another of them.
WaitCycles == {P \in (SUBSET Procs) \ {{}} : \A p \in P : \E q \in P : WaitsFor(p, q)}

\* Sessions are locked before the order by mark_as_paid and after it by the
\* creator's cancellations, yet refreshing never closes a circle of waiting
\* transactions: it takes two creators (omis/payment/managers.py:25-40,
\* omis/payment/tasks.py:40-43).
RefreshCannotDeadlock == \A P \in WaitCycles : Cardinality(P \cap Creators) > 1

\* Money that GOV.UK took for a session is put on record in the end, as long as
\* the order waits for a payment of at most that much
\* (refresh_pending_payment_gateway_sessions, omis/payment/tasks.py:51-70).
PaidIsCredited ==
  \A s \in Sessions :
    row[s] \in OngoingStatus /\ remote[s] = "success"
      ~> credits[s] > 0 \/ status # ACCEPTED \/ amount[s] < price

-----------------------------------------------------------------------------
(* What the documentation says and interleavings can break *)

\* A finished session has "no need to refresh" (omis/payment/models.py:85).
FinishedStaysFinished ==
  [][\A s \in Sessions : row[s] \in FinishedStatus => row'[s] = row[s]]_vars

\* "lock order to avoid race conditions" (omis/payment/managers.py:35): creators
\* that race wait for each other's turn, never for each other's end.
NoWaitCycle == WaitCycles = {}

\* create_from_order raises Conflict "if the order is not in the allowed status"
\* (omis/payment/managers.py:22).
SessionOnlyIfAccepted ==
  [][\A s \in Sessions : row[s] = NoRow /\ row'[s] # NoRow => status = ACCEPTED]_vars

=============================================================================
