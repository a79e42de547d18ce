------------------------- MODULE OmisGatewayProofs --------------------------
(***************************************************************************)
(* What OmisGateway guarantees for every number of viewers, jobs, creators *)
(* and sessions, whatever the statuses GOV.UK may answer.                  *)
(*                                                                         *)
(* What is recorded about a session rests on what some process learnt of   *)
(* it some time ago.  The inductive invariant says what each process still *)
(* knows when it acts: an answer that the payment is over is true for      *)
(* ever, and a payment that is about to be put on record is guarded by the *)
(* lock of its session.                                                    *)
(***************************************************************************)
EXTENDS OmisGateway, TLAPS, FiniteSetTheorems

\* Process p, in the state st, given the GOV.UK payments rem, the locks of the
\* sessions lock and the payments on record cr.
ProcInv(p, st, rem, lock, cr) ==
  \* What it was told of a payment that is over is still so.
  /\ \A s \in Sessions : st.saved[s] \in FinishedStatus => st.saved[s] = rem[s]
  /\ st.pc = "save" /\ st.seen \in FinishedStatus => st.seen = rem[st.session]
  \* It refreshes a session it has not been through yet.
  /\ st.pc \in {"fetch", "save", "order", "credit"} =>
       st.session \in Sessions \ (st.todo \cup st.paid)
  /\ st.todo \cap st.paid = {}
  /\ st.pc \in {"lock", "lockOrder", "credit"} => st.paid = {}
  \* Once it has paid the order, it sees it as paid.
  /\ st.paid # {} => st.order.status = PAID
  /\ st.pc = "credit" \/ st.paid # {} => st.order.price \in Prices
  \* A success that it saved is on record, or is going to be.
  /\ \A s \in Sessions : st.saved[s] = "success" =>
       s \in st.paid \/ (st.pc \in {"order", "credit"} /\ s = st.session)
  \* It puts payments on record that nobody else has put there or can.
  /\ st.pc \in {"order", "credit"} =>
       st.saved[st.session] = "success" /\ lock[st.session] = p
  /\ st.pc = "credit" => cr[st.session] = 0
  /\ \A s \in st.paid : st.saved[s] = "success" /\ lock[s] = p /\ cr[s] = 0

\* The rows of the session s.
RowInv(s) ==
  /\ row[s] \in FinishedStatus => row[s] = remote[s]
  /\ row[s] = "success" => credits[s] = 1
  /\ credits[s] <= 1
  /\ credits[s] > 0 => status \in {PAID, COMPLETE, CANCELLED} /\ remote[s] = "success"

IInv == /\ TypeOK
        /\ \A p \in Procs : ProcInv(p, proc[p], remote, sessionLock, credits)
        /\ \A s \in Sessions : RowInv(s)

-----------------------------------------------------------------------------
(* A process that does nothing knows what it knew *)

\* Its knowledge survives what others do: payments that are over stay as they
\* are, and others respect its locks.
LEMMA OthersKeep ==
  ASSUME NEW p, NEW st \in ProcStates,
         NEW rem, NEW rem2, NEW lock, NEW lock2, NEW cr, NEW cr2,
         ProcInv(p, st, rem, lock, cr),
         \A s \in Sessions : rem[s] \in FinishedStatus => rem2[s] = rem[s],
         \A s \in Sessions : lock[s] = p => lock2[s] = p /\ cr2[s] = cr[s]
  PROVE  ProcInv(p, st, rem2, lock2, cr2)
<1>1. st.paid \subseteq Sessions
  BY DEF ProcStates
<1>2. st.pc \in {"fetch", "save", "order", "credit"} => st.session \in Sessions
  BY DEF ProcInv
<1>3. QED
  BY <1>1, <1>2 DEF ProcInv

\* A process that has just started, or is done, knows nothing.
LEMMA IdleKnows ==
  ASSUME NEW p, NEW rem, NEW lock, NEW cr
  PROVE  Idle \in ProcStates /\ ProcInv(p, Idle, rem, lock, cr)
<1>1. Idle \in ProcStates
  BY DEF Idle, ProcStates, NoOrder, OrderStatus, Statuses
<1>2. \A s \in Sessions : Idle.saved[s] = "none"
  BY DEF Idle, NoRow
<1>3. ProcInv(p, Idle, rem, lock, cr)
  BY <1>2 DEF ProcInv, Idle, FinishedStatus
<1>4. QED
  BY <1>1, <1>3

LEMMA ProcType == IInv => proc \in [Procs -> ProcStates]
  BY DEF IInv, TypeOK

\* One process moves, the others keep what they know.
LEMMA OneMoves ==
  ASSUME IInv, NEW p \in Procs, NEW st \in ProcStates,
         proc' = [proc EXCEPT ![p] = st],
         ProcInv(p, st, remote', sessionLock', credits'),
         \A s \in Sessions : remote[s] \in FinishedStatus => remote'[s] = remote[s],
         \A q \in Procs \ {p}, s \in Sessions :
           sessionLock[s] = q => sessionLock'[s] = q /\ credits'[s] = credits[s]
  PROVE  /\ proc' \in [Procs -> ProcStates]
         /\ \A q \in Procs : ProcInv(q, proc'[q], remote', sessionLock', credits')
<1>1. proc \in [Procs -> ProcStates]
  BY DEF IInv, TypeOK
<1>2. proc' \in [Procs -> ProcStates]
  BY <1>1
<1>3. ASSUME NEW q \in Procs
      PROVE  ProcInv(q, proc'[q], remote', sessionLock', credits')
  <2>1. CASE q = p
    BY <1>1, <2>1
  <2>2. CASE q # p
    <3>1. proc'[q] = proc[q] /\ proc[q] \in ProcStates
      BY <1>1, <2>2
    <3>2. ProcInv(q, proc[q], remote, sessionLock, credits)
      BY DEF IInv
    <3>3. QED
      BY <2>2, <3>1, <3>2, OthersKeep
  <2>3. QED
    BY <2>1, <2>2
<1>4. QED
  BY <1>2, <1>3

\* A step that touches nothing that others see.
LEMMA StepKeeps ==
  ASSUME IInv, NEW p \in Procs, NEW st \in ProcStates, Step(p, st),
         ProcInv(p, st, remote, sessionLock, credits)
  PROVE  IInv'
<1>1. /\ proc' \in [Procs -> ProcStates]
      /\ \A q \in Procs : ProcInv(q, proc'[q], remote', sessionLock', credits')
  BY OneMoves DEF Step, gateway, locks
<1>2. UNCHANGED <<orderVars, row, credits, remote, amount, sessionLock, orderLock>>
  BY DEF Step, gateway, locks
<1>3. TypeOK'
  BY <1>1, <1>2 DEF IInv, TypeOK, Lifecycle!TypeOK, orderVars
<1>4. (\A s \in Sessions : RowInv(s))'
  BY <1>2 DEF IInv, RowInv, orderVars
<1>5. QED
  BY <1>1, <1>3, <1>4 DEF IInv

\* The locks of the others survive the end of a transaction.
LEMMA EndKeepsLocks ==
  ASSUME IInv, NEW p \in Procs, End(p)
  PROVE  /\ proc' = [proc EXCEPT ![p] = Idle]
         /\ sessionLock' \in [Sessions -> Procs \cup {Nobody}]
         /\ orderLock' \in Procs \cup {Nobody}
         /\ \A q \in Procs \ {p}, s \in Sessions : sessionLock[s] = q => sessionLock'[s] = q
  BY DEF End, IInv, TypeOK

LEMMA RollbackInv ==
  ASSUME IInv, NEW p \in Procs, Rollback(p)
  PROVE  IInv'
<1>1. UNCHANGED <<orderVars, row, credits, remote, amount>> /\ End(p)
  BY DEF Rollback, gateway
<1>2. /\ proc' \in [Procs -> ProcStates]
      /\ \A q \in Procs : ProcInv(q, proc'[q], remote', sessionLock', credits')
  BY <1>1, EndKeepsLocks, IdleKnows, OneMoves
<1>3. TypeOK'
  BY <1>1, <1>2, EndKeepsLocks DEF IInv, TypeOK, Lifecycle!TypeOK, orderVars
<1>4. (\A s \in Sessions : RowInv(s))'
  BY <1>1 DEF IInv, RowInv, orderVars
<1>5. QED
  BY <1>2, <1>3, <1>4 DEF IInv

-----------------------------------------------------------------------------
(* Who starts *)

LEMMA ViewInv ==
  ASSUME IInv, NEW p \in Procs, NEW s \in Sessions, View(p, s)
  PROVE  IInv'
<1> DEFINE st == [Idle EXCEPT !.pc = "fetch", !.session = s, !.copy = row[s]]
<1>1. row[s] \in Statuses
  BY DEF IInv, TypeOK
<1>2. st \in ProcStates
  BY <1>1, IdleKnows DEF ProcStates
<1>3. ProcInv(p, st, remote, sessionLock, credits)
  BY IdleKnows DEF ProcInv, Idle, NoRow, FinishedStatus
<1>4. Step(p, st)
  BY DEF View
<1> HIDE DEF st
<1>5. QED
  BY <1>2, <1>3, <1>4, StepKeeps

LEMMA CreateInv ==
  ASSUME IInv, NEW p \in Procs, Create(p)
  PROVE  IInv'
<1> DEFINE st == [Idle EXCEPT !.pc = "lock", !.todo = Ongoing(p), !.then = "refresh"]
<1>1. Ongoing(p) \subseteq Sessions
  BY DEF Ongoing
<1>2. st \in ProcStates
  BY <1>1, IdleKnows DEF ProcStates
<1>3. ProcInv(p, st, remote, sessionLock, credits)
  BY IdleKnows DEF ProcInv, Idle, NoRow, FinishedStatus
<1>4. Step(p, st)
  BY DEF Create
<1> HIDE DEF st
<1>5. QED
  BY <1>2, <1>3, <1>4, StepKeeps

\* A process takes a free lock, or one it has.
LEMMA TakesSession ==
  ASSUME IInv, NEW p \in Procs, NEW s \in Sessions, Free(sessionLock[s], p),
         sessionLock' = [sessionLock EXCEPT ![s] = p]
  PROVE  /\ sessionLock' \in [Sessions -> Procs \cup {Nobody}]
         /\ sessionLock'[s] = p
         /\ \A q \in Procs, t \in Sessions :
              sessionLock[t] = q => sessionLock'[t] = q
  BY GatewayAssumption DEF Free, IInv, TypeOK

\* Nothing but locks of sessions and the process changes.
LEMMA LockKeeps ==
  ASSUME IInv, NEW p \in Procs, NEW st \in ProcStates,
         proc' = [proc EXCEPT ![p] = st],
         sessionLock' \in [Sessions -> Procs \cup {Nobody}],
         orderLock' \in Procs \cup {Nobody},
         \A q \in Procs, t \in Sessions : sessionLock[t] = q => sessionLock'[t] = q,
         UNCHANGED <<orderVars, row, credits, gateway>>,
         ProcInv(p, st, remote, sessionLock', credits)
  PROVE  IInv'
<1>1. UNCHANGED <<status, quote, price, row, credits, remote, amount>>
  BY DEF gateway, orderVars
<1>2. /\ proc' \in [Procs -> ProcStates]
      /\ \A q \in Procs : ProcInv(q, proc'[q], remote', sessionLock', credits')
  <2>1. ProcInv(p, st, remote', sessionLock', credits')
    BY <1>1
  <2>2. \A s \in Sessions : remote[s] \in FinishedStatus => remote'[s] = remote[s]
    BY <1>1
  <2>3. \A q \in Procs \ {p}, s \in Sessions :
          sessionLock[s] = q => sessionLock'[s] = q /\ credits'[s] = credits[s]
    BY <1>1
  <2>4. QED
    BY <2>1, <2>2, <2>3, OneMoves
<1>3. TypeOK'
  BY <1>1, <1>2 DEF IInv, TypeOK, Lifecycle!TypeOK
<1>4. (\A s \in Sessions : RowInv(s))'
  BY <1>1 DEF IInv, RowInv
<1>5. QED
  BY <1>2, <1>3, <1>4 DEF IInv

LEMMA RunJobInv ==
  ASSUME IInv, NEW p \in Procs, NEW s \in Sessions, RunJob(p, s)
  PROVE  IInv'
<1> DEFINE st == [Idle EXCEPT !.pc = "fetch", !.session = s, !.copy = row[s]]
<1>1. row[s] \in Statuses
  BY DEF IInv, TypeOK
<1>2. st \in ProcStates
  BY <1>1, IdleKnows DEF ProcStates
<1>3. ProcInv(p, st, remote, sessionLock', credits)
  BY IdleKnows DEF ProcInv, Idle, NoRow, FinishedStatus
<1>4. proc' = [proc EXCEPT ![p] = st]
  BY DEF RunJob
<1>5. /\ Free(sessionLock[s], p)
      /\ sessionLock' = [sessionLock EXCEPT ![s] = p]
      /\ UNCHANGED <<orderVars, row, credits, gateway>> /\ orderLock' = orderLock
  BY DEF RunJob, Free
<1>6. orderLock' \in Procs \cup {Nobody}
  BY <1>5 DEF IInv, TypeOK
<1> HIDE DEF st
<1>7. QED
  BY <1>2, <1>3, <1>4, <1>5, <1>6, TakesSession, LockKeeps

-----------------------------------------------------------------------------
(* refresh_from_govuk_payment *)

\* What a process is doing, and what is known of it.
LEMMA Doing ==
  ASSUME IInv, NEW p \in Procs
  PROVE  /\ proc[p] \in ProcStates
         /\ ProcInv(p, proc[p], remote, sessionLock, credits)
  BY DEF IInv, TypeOK

LEMMA FetchInv ==
  ASSUME IInv, NEW p \in Procs, Fetch(p)
  PROVE  IInv'
<1> DEFINE old == proc[p]
           new == remote[old.session]
           st == IF new = old.copy THEN [old EXCEPT !.pc = old.then]
                 ELSE [old EXCEPT !.pc = "save", !.seen = new]
<1>1. old \in ProcStates /\ ProcInv(p, old, remote, sessionLock, credits)
  BY Doing
<1>2. old.pc = "fetch" /\ Step(p, st)
  BY DEF Fetch
<1> HIDE DEF old
<1>3. old.session \in Sessions
  BY <1>1, <1>2 DEF ProcInv
<1>4. new \in Statuses
  BY <1>3 DEF IInv, TypeOK
<1>5. CASE new = old.copy
  <2>1. st = [old EXCEPT !.pc = old.then] /\ old.then \in {"commit", "refresh", "cancel"}
    BY <1>1, <1>5 DEF ProcStates
  <2>2. st \in ProcStates
    BY <1>1, <2>1 DEF ProcStates
  <2>3. ProcInv(p, st, remote, sessionLock, credits)
    BY <1>1, <1>2, <2>1 DEF ProcInv, ProcStates
  <2> HIDE DEF st
  <2>4. QED
    BY <1>2, <2>2, <2>3, StepKeeps
<1>6. CASE new # old.copy
  <2>1. st = [old EXCEPT !.pc = "save", !.seen = new]
    BY <1>6
  <2>2. st \in ProcStates
    BY <1>1, <1>4, <2>1 DEF ProcStates
  <2>3. ProcInv(p, st, remote, sessionLock, credits)
    BY <1>1, <1>2, <2>1 DEF ProcInv, ProcStates
  <2> HIDE DEF st
  <2>4. QED
    BY <1>2, <2>2, <2>3, StepKeeps
<1>7. QED
  BY <1>5, <1>6

\* What is saved of a finished payment is so; a success is to be recorded next.
LEMMA SaveInv ==
  ASSUME IInv, NEW p \in Procs, Save(p)
  PROVE  IInv'
<1> DEFINE old == proc[p]
           s == old.session
           next == IF old.seen = "success" THEN "order" ELSE old.then
           st == [old EXCEPT !.saved[s] = old.seen, !.pc = next]
<1>1. old \in ProcStates /\ ProcInv(p, old, remote, sessionLock, credits)
  BY Doing
<1>2. /\ old.pc = "save" /\ Free(sessionLock[s], p)
      /\ sessionLock' = [sessionLock EXCEPT ![s] = p]
      /\ UNCHANGED <<orderVars, row, credits, gateway>> /\ orderLock' = orderLock
  BY DEF Save
<1>3. proc' = [proc EXCEPT ![p] = st]
  BY ProcType DEF Save, ProcStates
<1> HIDE DEF old
<1>4. s \in Sessions /\ s \notin old.todo /\ s \notin old.paid
  BY <1>1, <1>2 DEF ProcInv
<1>5. /\ sessionLock' \in [Sessions -> Procs \cup {Nobody}]
      /\ sessionLock'[s] = p
      /\ \A q \in Procs, t \in Sessions : sessionLock[t] = q => sessionLock'[t] = q
  BY <1>2, <1>4, TakesSession
<1>6. orderLock' \in Procs \cup {Nobody}
  BY <1>2 DEF IInv, TypeOK
<1>7. next \in {"order", "commit", "refresh", "cancel"}
  BY <1>1 DEF ProcStates
<1>8. st \in ProcStates
  BY <1>1, <1>7 DEF ProcStates
<1>9. /\ st.saved[s] = old.seen
      /\ \A t \in Sessions \ {s} : st.saved[t] = old.saved[t]
      /\ st.pc = next /\ st.session = s /\ st.todo = old.todo
      /\ st.paid = old.paid /\ st.order = old.order
  BY <1>1, <1>4 DEF ProcStates
<1>10. st.pc = "order" <=> old.seen = "success"
  BY <1>1, <1>9 DEF ProcStates
<1>11. st.paid \subseteq Sessions
  BY <1>8 DEF ProcStates
<1> HIDE DEF st, next, s
<1>12. ProcInv(p, old, remote, sessionLock', credits)
  BY <1>1, <1>5, OthersKeep
<1>13. s = old.session
  BY DEF s
<1>14. ProcInv(p, st, remote, sessionLock', credits)
  BY <1>2, <1>4, <1>5, <1>7, <1>9, <1>10, <1>11, <1>12, <1>13 DEF ProcInv
<1>15. QED
  BY <1>2, <1>3, <1>5, <1>6, <1>8, <1>14, LockKeeps

\* What a transaction sees of the order; it is the committed row if that is
\* still to be paid.
LEMMA OrderSeen ==
  ASSUME IInv, NEW p \in Procs
  PROVE  /\ OrderOf(p) \in [status : OrderStatus, price : Prices]
         /\ Payable(OrderOf(p)) => proc[p].paid = {} /\ status = ACCEPTED
<1> DEFINE old == proc[p]
<1>1. old \in ProcStates /\ ProcInv(p, old, remote, sessionLock, credits)
  BY Doing
<1>2. status \in OrderStatus /\ price \in Prices
  BY DEF IInv, TypeOK, Lifecycle!TypeOK, Lifecycle!OrderStatus, OrderStatus,
         Lifecycle!DRAFT, Lifecycle!AWAITING, Lifecycle!ACCEPTED, Lifecycle!PAID,
         Lifecycle!COMPLETE, Lifecycle!CANCELLED,
         DRAFT, AWAITING, ACCEPTED, PAID, COMPLETE, CANCELLED
<1>3. CASE old.paid = {}
  BY <1>2, <1>3 DEF OrderOf, Payable
<1>4. CASE old.paid # {}
  <2>1. OrderOf(p) = old.order
    BY <1>4 DEF OrderOf
  <2>2. old.order \in [status : OrderStatus, price : Prices \cup {0}]
    BY <1>1 DEF ProcStates
  <2>3. old.order.status = PAID /\ old.order.price \in Prices
    BY <1>1, <1>4 DEF ProcInv
  <2>4. OrderOf(p) \in [status : OrderStatus, price : Prices]
    BY <2>1, <2>2, <2>3
  <2>5. ~Payable(OrderOf(p))
    BY <2>1, <2>3 DEF Payable, PAID, ACCEPTED
  <2>6. QED
    BY <2>4, <2>5
<1>5. QED
  BY <1>3, <1>4

\* Nothing has been put on record of an order that is still to be paid.
LEMMA NothingCredited ==
  ASSUME IInv, status = ACCEPTED, NEW s \in Sessions
  PROVE  credits[s] = 0
<1>1. credits[s] \in Nat /\ ~(credits[s] > 0)
  BY DEF IInv, TypeOK, RowInv, ACCEPTED, PAID, COMPLETE, CANCELLED
<1>2. QED
  BY <1>1

LEMMA ReadOrderInv ==
  ASSUME IInv, NEW p \in Procs, ReadOrder(p)
  PROVE  IInv'
<1> DEFINE old == proc[p]
           o == OrderOf(p)
<1>1. old \in ProcStates /\ ProcInv(p, old, remote, sessionLock, credits)
  BY Doing
<1>2. old.pc = "order"
  BY DEF ReadOrder
<1>3. old.session \in Sessions \ (old.todo \cup old.paid)
  BY <1>1, <1>2 DEF ProcInv
<1>4. CASE Payable(o) /\ Step(p, [old EXCEPT !.pc = "credit", !.order = o])
  <2> DEFINE st == [old EXCEPT !.pc = "credit", !.order = o]
  <2>1. /\ o \in [status : OrderStatus, price : Prices]
        /\ old.paid = {} /\ status = ACCEPTED
    BY <1>4, OrderSeen
  <2>2. credits[old.session] = 0
    BY <1>3, <2>1, NothingCredited
  <2> HIDE DEF old, o
  <2>3. st \in ProcStates
    BY <1>1, <2>1 DEF ProcStates
  <2>4. ProcInv(p, st, remote, sessionLock, credits)
    BY <1>1, <1>2, <2>1, <2>2 DEF ProcInv, ProcStates
  <2>5. Step(p, st)
    BY <1>4
  <2> HIDE DEF st
  <2>6. QED
    BY <2>3, <2>4, <2>5, StepKeeps
<1>5. CASE Step(p, [old EXCEPT !.pc = "commit", !.saved[old.session] = NoRow])
  <2> DEFINE st == [old EXCEPT !.pc = "commit", !.saved[old.session] = NoRow]
  <2> HIDE DEF old
  <2>1. st \in ProcStates
    BY <1>1 DEF ProcStates, Statuses
  <2>2. /\ st.saved[old.session] = "none"
        /\ \A s \in Sessions \ {old.session} : st.saved[s] = old.saved[s]
        /\ st.pc = "commit" /\ st.todo = old.todo
        /\ st.paid = old.paid /\ st.order = old.order
    BY <1>1, <1>3 DEF ProcStates, NoRow
  <2>3. st.paid \subseteq Sessions
    BY <2>1 DEF ProcStates
  <2>4. Step(p, st)
    BY <1>5
  <2> HIDE DEF st
  <2>5. ProcInv(p, st, remote, sessionLock, credits)
    BY <1>1, <1>2, <1>3, <2>2, <2>3 DEF ProcInv, FinishedStatus
  <2>6. QED
    BY <2>1, <2>4, <2>5, StepKeeps
<1>6. CASE Rollback(p)
  BY <1>6, RollbackInv
<1>7. QED
  BY <1>4, <1>5, <1>6 DEF ReadOrder

LEMMA CreditInv ==
  ASSUME IInv, NEW p \in Procs, Credit(p)
  PROVE  IInv'
<1> DEFINE old == proc[p]
           st == [old EXCEPT !.paid = @ \cup {old.session}, !.order.status = PAID,
                             !.pc = old.then]
<1>1. old \in ProcStates /\ ProcInv(p, old, remote, sessionLock, credits)
  BY Doing
<1>2. /\ old.pc = "credit" /\ orderLock' = p
      /\ UNCHANGED <<orderVars, row, credits, gateway>> /\ sessionLock' = sessionLock
  BY DEF Credit
<1>3. proc' = [proc EXCEPT ![p] = st]
  BY ProcType DEF Credit, ProcStates
<1> HIDE DEF old
<1>4. old.session \in Sessions \ old.todo /\ old.paid = {}
  BY <1>1, <1>2 DEF ProcInv
<1>5. st \in ProcStates
  BY <1>1, <1>4 DEF ProcStates, OrderStatus
<1>6. /\ st.paid = {old.session} /\ st.todo = old.todo /\ st.saved = old.saved
      /\ st.order.status = PAID /\ st.order.price = old.order.price
      /\ st.pc \in {"commit", "refresh", "cancel"}
  BY <1>1, <1>4 DEF ProcStates
<1> HIDE DEF st
<1>7. ProcInv(p, st, remote, sessionLock', credits)
  BY <1>1, <1>2, <1>4, <1>6 DEF ProcInv
<1>8. sessionLock' \in [Sessions -> Procs \cup {Nobody}]
  BY <1>2 DEF IInv, TypeOK
<1>9. QED
  BY <1>2, <1>3, <1>5, <1>7, <1>8, LockKeeps

-----------------------------------------------------------------------------
(* create_from_order *)

LEMMA LockSessionInv ==
  ASSUME IInv, NEW p \in Procs, NEW s \in Sessions, LockSession(p, s)
  PROVE  IInv'
<1> DEFINE old == proc[p]
           st == [old EXCEPT !.todo = @ \ {s}]
<1>1. old \in ProcStates /\ ProcInv(p, old, remote, sessionLock, credits)
  BY Doing
<1>2. /\ old.pc = "lock" /\ Free(sessionLock[s], p)
      /\ \/ sessionLock' = [sessionLock EXCEPT ![s] = p]
         \/ sessionLock' = sessionLock
      /\ UNCHANGED <<orderVars, row, credits, gateway>> /\ orderLock' = orderLock
  BY DEF LockSession, Free
<1>3. proc' = [proc EXCEPT ![p] = st]
  BY ProcType DEF LockSession, ProcStates
<1>4. /\ sessionLock' \in [Sessions -> Procs \cup {Nobody}]
      /\ \A q \in Procs, t \in Sessions : sessionLock[t] = q => sessionLock'[t] = q
  <2>1. CASE sessionLock' = [sessionLock EXCEPT ![s] = p]
    BY <1>2, <2>1, TakesSession
  <2>2. CASE sessionLock' = sessionLock
    BY <2>2 DEF IInv, TypeOK
  <2>3. QED
    BY <1>2, <2>1, <2>2
<1> HIDE DEF old
<1>5. st \in ProcStates
  BY <1>1 DEF ProcStates
<1>6. ProcInv(p, old, remote, sessionLock', credits)
  BY <1>1, <1>4, OthersKeep
<1>7. ProcInv(p, st, remote, sessionLock', credits)
  BY <1>1, <1>2, <1>6 DEF ProcInv, ProcStates
<1>8. orderLock' \in Procs \cup {Nobody}
  BY <1>2 DEF IInv, TypeOK
<1> HIDE DEF st
<1>9. QED
  BY <1>2, <1>3, <1>4, <1>5, <1>7, <1>8, LockKeeps

LEMMA SessionsLockedInv ==
  ASSUME IInv, NEW p \in Procs, SessionsLocked(p)
  PROVE  IInv'
<1> DEFINE old == proc[p]
           locked == {s \in Sessions : sessionLock[s] = p}
           st == [old EXCEPT !.pc = "refresh", !.todo = locked]
<1>1. old \in ProcStates /\ ProcInv(p, old, remote, sessionLock, credits)
  BY Doing
<1>2. old.pc = "lock" /\ Step(p, st)
  BY DEF SessionsLocked
<1>3. locked \subseteq Sessions
  OBVIOUS
<1> HIDE DEF old, locked
<1>4. st \in ProcStates
  BY <1>1, <1>3 DEF ProcStates
<1>5. ProcInv(p, st, remote, sessionLock, credits)
  BY <1>1, <1>2 DEF ProcInv, ProcStates
<1> HIDE DEF st
<1>6. QED
  BY <1>2, <1>4, <1>5, StepKeeps

\* A row as a transaction sees it has a status.
LEMMA RowOfType ==
  ASSUME IInv, NEW p \in Procs, NEW s \in Sessions
  PROVE  RowOf(p, s) \in Statuses
<1>1. proc[p].saved[s] \in Statuses
  BY Doing DEF ProcStates
<1>2. row[s] \in Statuses
  BY DEF IInv, TypeOK
<1>3. QED
  BY <1>1, <1>2 DEF RowOf

LEMMA RefreshSessionInv ==
  ASSUME IInv, NEW p \in Procs, NEW s \in Sessions, RefreshSession(p, s)
  PROVE  IInv'
<1> DEFINE old == proc[p]
           copy == RowOf(p, s)
           st == [old EXCEPT !.pc = "fetch", !.todo = @ \ {s}, !.session = s,
                             !.copy = copy]
<1>1. old \in ProcStates /\ ProcInv(p, old, remote, sessionLock, credits)
  BY Doing
<1>2. old.pc = "refresh" /\ s \in old.todo /\ Step(p, st)
  BY DEF RefreshSession, Latest
<1>3. copy \in Statuses
  BY RowOfType
<1> HIDE DEF old, copy
<1>4. st \in ProcStates
  BY <1>1, <1>3 DEF ProcStates
<1>5. ProcInv(p, st, remote, sessionLock, credits)
  BY <1>1, <1>2 DEF ProcInv, ProcStates
<1> HIDE DEF st
<1>6. QED
  BY <1>2, <1>4, <1>5, StepKeeps

LEMMA ValidateOrderInv ==
  ASSUME IInv, NEW p \in Procs, ValidateOrder(p)
  PROVE  IInv'
<1> DEFINE old == proc[p]
           o == OrderOf(p)
           go == [old EXCEPT !.pc = "lockOrder", !.order = o]
           stop == [old EXCEPT !.pc = "commit"]
<1>1. old \in ProcStates /\ ProcInv(p, old, remote, sessionLock, credits)
  BY Doing
<1>2. /\ old.pc = "refresh"
      /\ \/ Payable(o) /\ Step(p, go)
         \/ Step(p, stop)
  BY DEF ValidateOrder
<1>3. /\ o \in [status : OrderStatus, price : Prices]
      /\ Payable(o) => old.paid = {}
  BY OrderSeen
<1> HIDE DEF old, o
<1>4. go \in ProcStates /\ stop \in ProcStates
  BY <1>1, <1>3 DEF ProcStates
<1>5. CASE Payable(o) /\ Step(p, go)
  <2>1. ProcInv(p, go, remote, sessionLock, credits)
    BY <1>1, <1>2, <1>3, <1>5 DEF ProcInv, ProcStates
  <2> HIDE DEF go
  <2>2. QED
    BY <1>4, <1>5, <2>1, StepKeeps
<1>6. CASE Step(p, stop)
  <2>1. ProcInv(p, stop, remote, sessionLock, credits)
    BY <1>1, <1>2 DEF ProcInv, ProcStates
  <2> HIDE DEF stop
  <2>2. QED
    BY <1>4, <1>6, <2>1, StepKeeps
<1>7. QED
  BY <1>2, <1>5, <1>6

LEMMA LockOrderInv ==
  ASSUME IInv, NEW p \in Procs, LockOrder(p)
  PROVE  IInv'
<1> DEFINE old == proc[p]
           ongoing == Ongoing(p)
           st == [old EXCEPT !.pc = "cancel", !.todo = ongoing, !.then = "cancel"]
<1>1. old \in ProcStates /\ ProcInv(p, old, remote, sessionLock, credits)
  BY Doing
<1>2. /\ old.pc = "lockOrder" /\ orderLock' = p
      /\ UNCHANGED <<orderVars, row, credits, gateway>> /\ sessionLock' = sessionLock
      /\ proc' = [proc EXCEPT ![p] = st]
  BY DEF LockOrder
<1>3. ongoing \subseteq Sessions
  BY DEF Ongoing
<1> HIDE DEF old, ongoing
<1>4. st \in ProcStates
  BY <1>1, <1>3 DEF ProcStates
<1>5. ProcInv(p, st, remote, sessionLock', credits)
  BY <1>1, <1>2 DEF ProcInv, ProcStates
<1>6. sessionLock' \in [Sessions -> Procs \cup {Nobody}]
  BY <1>2 DEF IInv, TypeOK
<1> HIDE DEF st
<1>7. QED
  BY <1>2, <1>4, <1>5, <1>6, LockKeeps

\* Nothing but a GOV.UK payment that is not over and the process changes.
LEMMA RemoteKeeps ==
  ASSUME IInv, NEW p \in Procs, NEW st \in ProcStates, NEW s \in Sessions,
         NEW new \in Statuses,
         remote[s] \notin FinishedStatus,
         remote' = [remote EXCEPT ![s] = new],
         amount' \in [Sessions -> Prices \cup {0}],
         proc' = [proc EXCEPT ![p] = st],
         UNCHANGED <<orderVars, row, credits, locks>>,
         ProcInv(p, st, remote', sessionLock, credits)
  PROVE  IInv'
<1>1. UNCHANGED <<status, quote, price, row, credits, sessionLock, orderLock>>
  BY DEF locks, orderVars
<1>2. /\ remote' \in [Sessions -> Statuses]
      /\ \A t \in Sessions : remote[t] \in FinishedStatus => remote'[t] = remote[t]
  BY DEF IInv, TypeOK
<1>3. /\ proc' \in [Procs -> ProcStates]
      /\ \A q \in Procs : ProcInv(q, proc'[q], remote', sessionLock', credits')
  <2>1. ProcInv(p, st, remote', sessionLock', credits')
    BY <1>1
  <2>2. \A q \in Procs \ {p}, t \in Sessions :
          sessionLock[t] = q => sessionLock'[t] = q /\ credits'[t] = credits[t]
    BY <1>1
  <2>3. QED
    BY <1>2, <2>1, <2>2, OneMoves
<1>4. TypeOK'
  BY <1>1, <1>2, <1>3 DEF IInv, TypeOK, Lifecycle!TypeOK
<1>5. (\A t \in Sessions : RowInv(t))'
  BY <1>1, <1>2 DEF IInv, RowInv, FinishedStatus
<1>6. QED
  BY <1>3, <1>4, <1>5 DEF IInv

\* GOV.UK cancels only what is not over, so nobody's knowledge is spoilt.
LEMMA CancelSessionInv ==
  ASSUME IInv, NEW p \in Procs, NEW s \in Sessions, CancelSession(p, s)
  PROVE  IInv'
<1> DEFINE old == proc[p]
           copy == RowOf(p, s)
           st == [old EXCEPT !.pc = "fetch", !.todo = @ \ {s}, !.session = s,
                             !.copy = copy]
<1>1. old \in ProcStates /\ ProcInv(p, old, remote, sessionLock, credits)
  BY Doing
<1>2. /\ old.pc = "cancel" /\ s \in old.todo
      /\ \/ /\ remote[s] \in OngoingStatus
            /\ remote' = [remote EXCEPT ![s] = "cancelled"]
            /\ proc' = [proc EXCEPT ![p] = st]
            /\ UNCHANGED <<orderVars, row, credits, amount, locks>>
         \/ Rollback(p)
  BY DEF CancelSession, Latest
<1>3. CASE Rollback(p)
  BY <1>3, RollbackInv
<1>4. CASE ~Rollback(p)
  <2>1. copy \in Statuses
    BY RowOfType
  <2> HIDE DEF old, copy
  <2>2. st \in ProcStates
    BY <1>1, <2>1 DEF ProcStates
  <2>3. remote[s] \notin FinishedStatus
    BY <1>2, <1>4 DEF OngoingStatus, FinishedStatus
  <2>4. \A t \in Sessions : remote[t] \in FinishedStatus => remote'[t] = remote[t]
    BY <1>2, <1>4, <2>3 DEF IInv, TypeOK
  <2>5. ProcInv(p, old, remote', sessionLock, credits)
    BY <1>1, <2>4, OthersKeep
  <2>6. ProcInv(p, st, remote', sessionLock, credits)
    BY <1>1, <1>2, <2>5 DEF ProcInv, ProcStates
  <2>7. amount' \in [Sessions -> Prices \cup {0}] /\ "cancelled" \in Statuses
    BY <1>2, <1>4 DEF IInv, TypeOK, Statuses, SessionStatus, FinishedStatus
  <2> HIDE DEF st
  <2>8. QED
    BY <1>2, <1>4, <2>2, <2>3, <2>6, <2>7, RemoteKeeps
<1>5. QED
  BY <1>3, <1>4

LEMMA CreatePaymentInv ==
  ASSUME IInv, NEW p \in Procs, NEW s \in Sessions, CreatePayment(p, s)
  PROVE  IInv'
<1> DEFINE old == proc[p]
           st == [old EXCEPT !.saved[s] = NewStatus, !.pc = "commit"]
<1>1. old \in ProcStates /\ ProcInv(p, old, remote, sessionLock, credits)
  BY Doing
<1>2. /\ old.pc = "cancel" /\ remote[s] = NoRow
      /\ remote' = [remote EXCEPT ![s] = "created"]
      /\ amount' = [amount EXCEPT ![s] = old.order.price]
      /\ UNCHANGED <<orderVars, row, credits, locks>>
  BY DEF CreatePayment
<1>3. proc' = [proc EXCEPT ![p] = st]
  BY ProcType DEF CreatePayment, ProcStates
<1> HIDE DEF old
<1>4. st \in ProcStates
  BY <1>1 DEF ProcStates, NewStatus, Statuses, SessionStatus, OngoingStatus
<1>5. remote[s] \notin FinishedStatus
  BY <1>2 DEF NoRow, FinishedStatus
<1>6. \A t \in Sessions : remote[t] \in FinishedStatus => remote'[t] = remote[t]
  BY <1>2, <1>5 DEF IInv, TypeOK
<1>7. ProcInv(p, old, remote', sessionLock, credits)
  BY <1>1, <1>6, OthersKeep
<1>8. /\ st.saved[s] = "created"
      /\ \A t \in Sessions \ {s} : st.saved[t] = old.saved[t]
      /\ st.pc = "commit" /\ st.todo = old.todo
      /\ st.paid = old.paid /\ st.order = old.order
  BY <1>1 DEF ProcStates, NewStatus
<1>9. s \notin st.paid /\ st.paid \subseteq Sessions
  BY <1>1, <1>5, <1>8 DEF ProcInv, ProcStates, FinishedStatus
<1>10. amount' \in [Sessions -> Prices \cup {0}] /\ "created" \in Statuses
  <2>1. old.order.price \in Prices \cup {0}
    BY <1>1 DEF ProcStates
  <2>2. QED
    BY <1>2, <2>1 DEF IInv, TypeOK, Statuses, SessionStatus, OngoingStatus
<1> HIDE DEF st
<1>11. ProcInv(p, st, remote', sessionLock, credits)
  BY <1>2, <1>7, <1>8, <1>9 DEF ProcInv, FinishedStatus
<1>12. QED
  BY <1>2, <1>3, <1>4, <1>5, <1>10, <1>11, RemoteKeeps

-----------------------------------------------------------------------------
(* How a transaction ends *)

\* The statuses of OrderLifecycle are the ones used here.
LEMMA LifecycleStatus ==
  /\ Lifecycle!OrderStatus = OrderStatus
  /\ Lifecycle!DRAFT = DRAFT /\ Lifecycle!AWAITING = AWAITING
  /\ Lifecycle!ACCEPTED = ACCEPTED /\ Lifecycle!PAID = PAID
  /\ Lifecycle!COMPLETE = COMPLETE /\ Lifecycle!CANCELLED = CANCELLED
  BY DEF Lifecycle!OrderStatus, OrderStatus, Lifecycle!DRAFT, Lifecycle!AWAITING,
         Lifecycle!ACCEPTED, Lifecycle!PAID, Lifecycle!COMPLETE, Lifecycle!CANCELLED,
         DRAFT, AWAITING, ACCEPTED, PAID, COMPLETE, CANCELLED

\* Each payment that is committed is the first of its session.
LEMMA CommitInv ==
  ASSUME IInv, NEW p \in Procs, Commit(p)
  PROVE  IInv'
<1> DEFINE old == proc[p]
           o == OrderOf(p)
<1>1. old \in ProcStates /\ ProcInv(p, old, remote, sessionLock, credits)
  BY Doing
<1>2. /\ old.pc = "commit" /\ End(p)
      /\ row' = [s \in Sessions |-> RowOf(p, s)]
      /\ credits' = [s \in Sessions |->
                       IF s \in old.paid THEN credits[s] + 1 ELSE credits[s]]
      /\ status' = o.status /\ price' = o.price
      /\ UNCHANGED <<quote, remote, amount>>
  BY DEF Commit, gateway
<1>3. o \in [status : OrderStatus, price : Prices]
  BY OrderSeen
<1>4. old.paid # {} => o.status = PAID
  BY <1>1 DEF OrderOf, ProcInv
<1>5. old.paid = {} => o.status = status
  BY DEF OrderOf
<1>6. credits' \in [Sessions -> Nat] /\ row' \in [Sessions -> Statuses]
  BY <1>2, RowOfType DEF IInv, TypeOK
<1> HIDE DEF old, o
<1>7. /\ proc' \in [Procs -> ProcStates]
      /\ \A q \in Procs : ProcInv(q, proc'[q], remote', sessionLock', credits')
  <2>1. ASSUME NEW q \in Procs \ {p}, NEW s \in Sessions, sessionLock[s] = q
        PROVE  sessionLock'[s] = q /\ credits'[s] = credits[s]
    <3>1. s \notin old.paid
      BY <1>1, <2>1 DEF ProcInv
    <3>2. QED
      BY <1>2, <2>1, <3>1, EndKeepsLocks
  <2>2. ProcInv(p, Idle, remote', sessionLock', credits') /\ Idle \in ProcStates
    BY IdleKnows
  <2>3. proc' = [proc EXCEPT ![p] = Idle]
    BY <1>2, EndKeepsLocks
  <2>4. \A s \in Sessions : remote[s] \in FinishedStatus => remote'[s] = remote[s]
    BY <1>2
  <2>5. QED
    BY <2>1, <2>2, <2>3, <2>4, OneMoves
<1>8. TypeOK'
  <2>1. sessionLock' \in [Sessions -> Procs \cup {Nobody}]
        /\ orderLock' \in Procs \cup {Nobody}
    BY <1>2, EndKeepsLocks
  <2>2. QED
    BY <1>2, <1>3, <1>6, <1>7, <2>1, LifecycleStatus
       DEF IInv, TypeOK, Lifecycle!TypeOK
<1>9. ASSUME NEW s \in Sessions
      PROVE  RowInv(s)'
  <2>1. RowInv(s) /\ credits[s] \in Nat
    BY DEF IInv, TypeOK
  <2>2. CASE s \in old.paid
    <3>1. old.saved[s] = "success" /\ credits[s] = 0 /\ o.status = PAID
      BY <1>1, <1>4, <2>2 DEF ProcInv
    <3>2. remote[s] = "success"
      BY <1>1, <3>1 DEF ProcInv, FinishedStatus
    <3>3. row'[s] = "success" /\ credits'[s] = 1
      BY <1>2, <2>2, <3>1 DEF RowOf, NoRow, old
    <3>4. QED
      BY <1>2, <3>1, <3>2, <3>3 DEF RowInv
  <2>3. CASE s \notin old.paid
    <3>1. credits'[s] = credits[s] /\ remote'[s] = remote[s]
      BY <1>2, <2>3
    <3>2. status \in {PAID, COMPLETE, CANCELLED} => status' \in {PAID, COMPLETE, CANCELLED}
      BY <1>2, <1>4, <1>5
    <3>3. old.saved[s] # "success"
      BY <1>1, <1>2, <2>3 DEF ProcInv
    <3>4. row'[s] = old.saved[s] \/ row'[s] = row[s]
      BY <1>2 DEF RowOf, old
    <3>5. old.saved[s] \in FinishedStatus => old.saved[s] = remote[s]
      BY <1>1 DEF ProcInv
    <3>6. QED
      BY <2>1, <3>1, <3>2, <3>3, <3>4, <3>5 DEF RowInv
  <2>4. QED
    BY <2>2, <2>3
<1>10. QED
  BY <1>7, <1>8, <1>9 DEF IInv

-----------------------------------------------------------------------------
(* The rest of the world *)

\* A payment that is over stays as it is.
LEMMA PayInv ==
  ASSUME IInv, NEW s \in Sessions, Pay(s)
  PROVE  IInv'
<1>1. PICK new \in LaterStatus(remote[s]) \cap GovUkStatus :
             remote' = [remote EXCEPT ![s] = new]
  BY DEF Pay
<1>2. new \in Statuses
  BY <1>1, GatewayAssumption DEF Statuses
<1>3. remote[s] \notin FinishedStatus
  BY <1>1 DEF LaterStatus, FinishedStatus
<1>4. UNCHANGED <<status, quote, price, row, credits, amount, sessionLock, orderLock, proc>>
  BY DEF Pay, orderVars, locks
<1>5. /\ remote' \in [Sessions -> Statuses]
      /\ \A t \in Sessions : remote[t] \in FinishedStatus => remote'[t] = remote[t]
  BY <1>1, <1>2, <1>3 DEF IInv, TypeOK
<1>6. TypeOK'
  BY <1>4, <1>5 DEF IInv, TypeOK, Lifecycle!TypeOK
<1>7. ASSUME NEW q \in Procs
      PROVE  ProcInv(q, proc[q], remote', sessionLock, credits)
  BY <1>5, <1>7, Doing, OthersKeep
<1>8. (\A q \in Procs : ProcInv(q, proc[q], remote, sessionLock, credits))'
  BY <1>4, <1>7
<1>9. (\A t \in Sessions : RowInv(t))'
  BY <1>4, <1>5 DEF IInv, RowInv, FinishedStatus
<1>10. QED
  BY <1>6, <1>8, <1>9 DEF IInv

\* Once paid, an order is never to be paid again.
LEMMA OrderInv ==
  ASSUME IInv, UpdateOrder \/ UpdateVat
  PROVE  IInv'
<1>1. UNCHANGED <<row, credits, remote, amount, sessionLock, orderLock, proc>>
  BY DEF UpdateOrder, UpdateVat, gateway, locks
<1>2. price' \in Prices
  BY DEF UpdateOrder, UpdateVat, IInv, TypeOK
<1>3. /\ Lifecycle!TypeOK'
      /\ status \in {PAID, COMPLETE, CANCELLED} => status' \in {PAID, COMPLETE, CANCELLED}
  <2>1. Lifecycle!TypeOK
    BY DEF IInv, TypeOK
  <2>2. CASE UpdateVat
    BY <2>1, <2>2 DEF UpdateVat, Lifecycle!TypeOK
  <2>3. CASE UpdateOrder
    <3>1. Lifecycle!Next
      BY <2>3 DEF UpdateOrder, Lifecycle!Next
    <3>2. status' \in OrderStatus /\ quote' \in Lifecycle!QuoteStates
      BY <2>1, <3>1, LifecycleStatus
         DEF Lifecycle!TypeOK, Lifecycle!Next, Lifecycle!GenerateQuote, Lifecycle!Reopen,
             Lifecycle!AcceptQuote, Lifecycle!MarkAsPaid, Lifecycle!Deliver,
             Lifecycle!Cancel, Lifecycle!QuoteStates, OrderStatus
    <3>3. status \in {PAID, COMPLETE, CANCELLED} => status' \in {PAID, COMPLETE, CANCELLED}
      BY <3>1, LifecycleStatus
         DEF Lifecycle!Next, Lifecycle!GenerateQuote, Lifecycle!Reopen,
             Lifecycle!AcceptQuote, Lifecycle!MarkAsPaid, Lifecycle!Deliver,
             Lifecycle!Cancel, DRAFT, AWAITING, ACCEPTED, PAID, COMPLETE, CANCELLED
    <3>4. QED
      BY <3>2, <3>3, LifecycleStatus DEF Lifecycle!TypeOK
  <2>4. QED
    BY <2>2, <2>3
<1>4. TypeOK'
  BY <1>1, <1>2, <1>3 DEF IInv, TypeOK
<1>5. (\A t \in Sessions : RowInv(t))'
  BY <1>1, <1>3 DEF IInv, RowInv
<1>6. (\A q \in Procs : ProcInv(q, proc[q], remote, sessionLock, credits))'
  BY <1>1 DEF IInv
<1>7. QED
  BY <1>4, <1>5, <1>6 DEF IInv

-----------------------------------------------------------------------------
(* The invariant *)

LEMMA InitInv == Init => IInv
<1> SUFFICES ASSUME Init PROVE IInv
  OBVIOUS
<1>1. TypeOK
  BY IdleKnows, GatewayAssumption, LifecycleStatus
     DEF Init, TypeOK, Lifecycle!Init, Lifecycle!TypeOK, Lifecycle!QuoteStates,
         OrderStatus, Statuses
<1>2. \A p \in Procs : ProcInv(p, proc[p], remote, sessionLock, credits)
  BY IdleKnows DEF Init
<1>3. \A s \in Sessions : RowInv(s)
  BY DEF Init, RowInv, NoRow, FinishedStatus
<1>4. QED
  BY <1>1, <1>2, <1>3 DEF IInv

LEMMA AdvanceInv ==
  ASSUME IInv, NEW p \in Procs, Advance(p)
  PROVE  IInv'
<1>1. CASE Fetch(p)
  BY <1>1, FetchInv
<1>2. CASE Save(p)
  BY <1>2, SaveInv
<1>3. CASE ReadOrder(p)
  BY <1>3, ReadOrderInv
<1>4. CASE Credit(p)
  BY <1>4, CreditInv
<1>5. CASE SessionsLocked(p)
  BY <1>5, SessionsLockedInv
<1>6. CASE ValidateOrder(p)
  BY <1>6, ValidateOrderInv
<1>7. CASE LockOrder(p)
  BY <1>7, LockOrderInv
<1>8. CASE \E s \in Sessions : LockSession(p, s)
  BY <1>8, LockSessionInv
<1>9. CASE \E s \in Sessions : RefreshSession(p, s)
  BY <1>9, RefreshSessionInv
<1>10. CASE \E s \in Sessions : CancelSession(p, s)
  BY <1>10, CancelSessionInv
<1>11. CASE \E s \in Sessions : CreatePayment(p, s)
  BY <1>11, CreatePaymentInv
<1>12. CASE Commit(p)
  BY <1>12, CommitInv
<1>13. QED
  BY <1>1, <1>2, <1>3, <1>4, <1>5, <1>6, <1>7, <1>8, <1>9, <1>10, <1>11, <1>12
     DEF Advance

LEMMA StepInv == IInv /\ [Next]_vars => IInv'
<1> SUFFICES ASSUME IInv, [Next]_vars PROVE IInv'
  OBVIOUS
<1>1. CASE \E p \in Viewers, s \in Sessions : View(p, s)
  BY <1>1, ViewInv DEF Procs
<1>2. CASE \E p \in Jobs, s \in Sessions : RunJob(p, s)
  BY <1>2, RunJobInv DEF Procs
<1>3. CASE \E p \in Creators : Create(p)
  BY <1>3, CreateInv DEF Procs
<1>4. CASE \E p \in Procs : Advance(p)
  BY <1>4, AdvanceInv
<1>5. CASE \E p \in Procs : Abort(p)
  BY <1>5, RollbackInv DEF Abort
<1>6. CASE \E s \in Sessions : Pay(s)
  BY <1>6, PayInv
<1>7. CASE UpdateOrder \/ UpdateVat
  BY <1>7, OrderInv
<1>8. CASE UNCHANGED vars
  BY <1>8 DEF vars, orderVars, gateway, locks, IInv, TypeOK, Lifecycle!TypeOK, RowInv
<1>9. QED
  BY <1>1, <1>2, <1>3, <1>4, <1>5, <1>6, <1>7, <1>8 DEF Next

LEMMA Invariance == Spec => []IInv
  BY InitInv, StepInv, PTL DEF Spec

-----------------------------------------------------------------------------

\* The variables keep their types: in particular every status that GOV.UK
\* answers and every price an order has had can be recorded.
THEOREM TypeCorrect == Spec => []TypeOK
<1>1. IInv => TypeOK
  BY DEF IInv
<1>2. QED
  BY <1>1, Invariance, PTL

\* Whatever views, jobs and creators do at the same time, a session is recorded
\* as finished only when its GOV.UK payment finished that way: no link that was
\* paid is given up.
THEOREM FinishedIsAsGovUk == Spec => []FinishedAsGovUk
<1>1. IInv => FinishedAsGovUk
  BY DEF IInv, RowInv, FinishedAsGovUk
<1>2. QED
  BY <1>1, Invariance, PTL

\* However many processes learn of a successful payment, it is on record at most
\* once, and it is there when the session says so.
THEOREM CreditedAtMostOnce == Spec => []CreditedOnce
<1>1. IInv => CreditedOnce
  BY DEF IInv, RowInv, CreditedOnce
<1>2. QED
  BY <1>1, Invariance, PTL

-----------------------------------------------------------------------------
(* The client holds at most one link with which he can pay, for every      *)
(* number of viewers, jobs, creators and sessions.                         *)
(*                                                                         *)
(* The lock of the order is the reason: a creator that has it cancels, one *)
(* by one, the sessions on record that can be paid, and no other creator   *)
(* can commit a session meanwhile.  That it read the sessions before, and  *)
(* that some of them change while it works, does no harm: GOV.UK never     *)
(* takes up a payment that is over again, and what is recorded as finished *)
(* is finished (IInv above).                                               *)

\* A payment that may still bring money, or has, of which nothing is on record.
Open(rem, cr) == (rem \in OngoingStatus \/ rem = "success") /\ cr = 0

\* The client has the link to the session s and can pay with it, or has paid.
CanBePaid(s) == row[s] # NoRow /\ Open(remote[s], credits[s])

\* The creator is in the loop that cancels the ongoing sessions.
Cancelling(st) ==
  \/ st.pc = "cancel"
  \/ st.pc \in {"fetch", "save", "order", "credit"} /\ st.then = "cancel"

\* Process p, in the state st, given the sessions on record rw, the GOV.UK
\* payments rem, what is on record of them and who holds the order.
CreatorInv(p, st, rw, rem, cr, lock) ==
  /\ \A s \in Sessions : st.saved[s] # NoRow => rem[s] # NoRow
  \* It works on sessions that are on record.
  /\ st.pc \in {"fetch", "save", "order", "credit"} => rw[st.session] # NoRow
  /\ \A s \in st.todo : rw[s] # NoRow
  /\ st.pc \in {"lock", "refresh"} => st.then # "cancel"
  \* It has still to cancel what can be paid, and nobody interferes.
  /\ Cancelling(st) =>
          /\ lock = p
          /\ \A s \in Sessions : rw[s] # NoRow /\ Open(rem[s], cr[s]) => s \in st.todo
  \* When it adds a session, no other can be paid.
  /\ \A s \in Sessions : st.saved[s] # NoRow /\ rw[s] = NoRow =>
       /\ st.pc = "commit" /\ lock = p
       /\ \A t \in Sessions : rw[t] # NoRow => ~Open(rem[t], cr[t])
       /\ \A t \in Sessions : st.saved[t] # NoRow /\ rw[t] = NoRow => t = s

PInv == /\ \A s \in Sessions : row[s] # NoRow => remote[s] # NoRow
        /\ \A s \in Sessions : sessionLock[s] # Nobody => row[s] # NoRow
        /\ \A s, t \in Sessions : CanBePaid(s) /\ CanBePaid(t) => s = t
        /\ \A p \in Procs : CreatorInv(p, proc[p], row, remote, credits, orderLock)

-----------------------------------------------------------------------------
(* A process that does nothing *)

\* What it relies on survives what the others do: rows and payments come to
\* stay, its lock of the order is respected, and while it has that lock nothing
\* else becomes payable.
LEMMA OthersRely ==
  ASSUME NEW p, NEW st \in ProcStates, NEW rw, NEW rw2, NEW rem, NEW rem2,
         NEW cr, NEW cr2, NEW lock, NEW lock2,
         CreatorInv(p, st, rw, rem, cr, lock),
         st.pc \in {"fetch", "save", "order", "credit"} => st.session \in Sessions,
         \A s \in Sessions : rem[s] # NoRow => rem2[s] # NoRow,
         \A s \in Sessions : rw[s] # NoRow => rw2[s] # NoRow,
         lock = p => /\ lock2 = p
                     /\ \A s \in Sessions : rw2[s] # NoRow /\ Open(rem2[s], cr2[s]) =>
                                            rw[s] # NoRow /\ Open(rem[s], cr[s])
  PROVE  CreatorInv(p, st, rw2, rem2, cr2, lock2)
<1>1. st.todo \subseteq Sessions
  BY DEF ProcStates
<1>2. QED
  BY <1>1 DEF CreatorInv

LEMMA IdleRelies ==
  ASSUME NEW p, NEW rw, NEW rem, NEW cr, NEW lock
  PROVE  CreatorInv(p, Idle, rw, rem, cr, lock)
<1>1. \A s \in Sessions : Idle.saved[s] = NoRow
  BY DEF Idle
<1>2. Idle.pc = "idle" /\ Idle.todo = {}
  BY DEF Idle
<1>3. QED
  BY <1>1, <1>2 DEF CreatorInv, Cancelling

\* What is known of a process that is about to move.
LEMMA Relying ==
  ASSUME IInv, PInv, NEW p \in Procs
  PROVE  /\ proc[p] \in ProcStates
         /\ CreatorInv(p, proc[p], row, remote, credits, orderLock)
         /\ proc[p].pc \in {"fetch", "save", "order", "credit"} =>
              proc[p].session \in Sessions
  BY Doing DEF PInv, ProcInv

\* One process moves, the others still rely on what they did.
LEMMA OneRelies ==
  ASSUME IInv, PInv, NEW p \in Procs, NEW st \in ProcStates,
         proc' = [proc EXCEPT ![p] = st],
         CreatorInv(p, st, row', remote', credits', orderLock'),
         \A s \in Sessions : remote[s] # NoRow => remote'[s] # NoRow,
         \A s \in Sessions : row[s] # NoRow => row'[s] # NoRow,
         \A q \in Procs \ {p} : orderLock = q =>
           /\ orderLock' = q
           /\ \A s \in Sessions : row'[s] # NoRow /\ Open(remote'[s], credits'[s]) =>
                                  row[s] # NoRow /\ Open(remote[s], credits[s])
  PROVE  \A q \in Procs : CreatorInv(q, proc'[q], row', remote', credits', orderLock')
<1> TAKE q \in Procs
<1>1. proc \in [Procs -> ProcStates]
  BY DEF IInv, TypeOK
<1>2. CASE q = p
  BY <1>1, <1>2
<1>3. CASE q # p
  <2>1. proc'[q] = proc[q]
    BY <1>1, <1>3
  <2>2. /\ proc[q] \in ProcStates
        /\ CreatorInv(q, proc[q], row, remote, credits, orderLock)
        /\ proc[q].pc \in {"fetch", "save", "order", "credit"} =>
             proc[q].session \in Sessions
    BY Relying
  <2>3. orderLock = q =>
          /\ orderLock' = q
          /\ \A s \in Sessions : row'[s] # NoRow /\ Open(remote'[s], credits'[s]) =>
                                 row[s] # NoRow /\ Open(remote[s], credits[s])
    BY <1>3
  <2> HIDE DEF CreatorInv
  <2>4. CreatorInv(q, proc[q], row', remote', credits', orderLock')
    BY <2>2, <2>3, OthersRely
  <2>5. QED
    BY <2>1, <2>4
<1>4. QED
  BY <1>2, <1>3

\* A step that touches neither rows nor payments, only locks and the process.
LEMMA QuietKeeps ==
  ASSUME IInv, PInv, NEW p \in Procs, NEW st \in ProcStates,
         proc' = [proc EXCEPT ![p] = st],
         UNCHANGED <<row, remote, credits>>,
         \A q \in Procs \ {p} : orderLock = q => orderLock' = q,
         \A s \in Sessions : sessionLock'[s] # Nobody => row[s] # NoRow,
         CreatorInv(p, st, row, remote, credits, orderLock')
  PROVE  PInv'
<1>1. CreatorInv(p, st, row', remote', credits', orderLock')
  OBVIOUS
<1>2. \A q \in Procs : CreatorInv(q, proc'[q], row', remote', credits', orderLock')
  <2> HIDE DEF CreatorInv
  <2>1. \A s \in Sessions : remote[s] # NoRow => remote'[s] # NoRow
    OBVIOUS
  <2>2. \A s \in Sessions : row[s] # NoRow => row'[s] # NoRow
    OBVIOUS
  <2>3. \A q \in Procs \ {p} : orderLock = q =>
          /\ orderLock' = q
          /\ \A s \in Sessions : row'[s] # NoRow /\ Open(remote'[s], credits'[s]) =>
                                 row[s] # NoRow /\ Open(remote[s], credits[s])
    OBVIOUS
  <2>4. QED
    BY <1>1, <2>1, <2>2, <2>3, OneRelies
<1>3. QED
  BY <1>2 DEF PInv, CanBePaid

\* A step of a process by itself.
LEMMA StepRelies ==
  ASSUME IInv, PInv, NEW p \in Procs, NEW st \in ProcStates, Step(p, st),
         CreatorInv(p, st, row, remote, credits, orderLock)
  PROVE  PInv'
<1>1. /\ proc' = [proc EXCEPT ![p] = st]
      /\ UNCHANGED <<row, remote, credits, sessionLock, orderLock>>
  BY DEF Step, gateway, locks
<1>2. \A s \in Sessions : sessionLock'[s] # Nobody => row[s] # NoRow
  BY <1>1 DEF PInv
<1>3. QED
  BY <1>1, <1>2, QuietKeeps

LEMMA RollbackRelies ==
  ASSUME IInv, PInv, NEW p \in Procs, Rollback(p)
  PROVE  PInv'
<1>1. /\ proc' = [proc EXCEPT ![p] = Idle]
      /\ UNCHANGED <<row, remote, credits>>
      /\ \A q \in Procs \ {p} : orderLock = q => orderLock' = q
  BY DEF Rollback, End, gateway
<1>2. \A s \in Sessions : sessionLock'[s] # Nobody => row[s] # NoRow
  BY DEF Rollback, End, PInv
<1>3. Idle \in ProcStates /\ CreatorInv(p, Idle, row, remote, credits, orderLock')
  BY IdleKnows, IdleRelies
<1>4. QED
  BY <1>1, <1>2, <1>3, QuietKeeps

-----------------------------------------------------------------------------
(* Steps that change neither rows nor payments *)

\* The state a process moves to has its type.
LEMMA MovesTo ==
  ASSUME IInv, IInv', NEW p \in Procs, NEW st, proc' = [proc EXCEPT ![p] = st]
  PROVE  st \in ProcStates
<1>1. proc'[p] = st
  BY DEF IInv, TypeOK
<1>2. QED
  BY <1>1 DEF IInv, TypeOK

LEMMA StepMovesTo ==
  ASSUME IInv, IInv', NEW p \in Procs, NEW st, Step(p, st)
  PROVE  st \in ProcStates
  BY MovesTo DEF Step

LEMMA ViewRelies ==
  ASSUME IInv, IInv', PInv, NEW p \in Procs, NEW s \in Sessions, View(p, s)
  PROVE  PInv'
<1> DEFINE st == [Idle EXCEPT !.pc = "fetch", !.session = s, !.copy = row[s]]
<1>1. Step(p, st) /\ row[s] # NoRow
  BY DEF View, NoRow, OngoingStatus
<1>2. /\ st.pc = "fetch" /\ st.session = s /\ st.then = "commit" /\ st.todo = {}
      /\ st.saved = Idle.saved
  BY DEF Idle
<1>3. \A t \in Sessions : Idle.saved[t] = NoRow
  BY DEF Idle
<1> HIDE DEF st
<1>4. CreatorInv(p, st, row, remote, credits, orderLock)
  BY <1>1, <1>2, <1>3 DEF CreatorInv, Cancelling
<1>5. QED
  BY <1>1, <1>4, StepMovesTo, StepRelies

LEMMA RunJobRelies ==
  ASSUME IInv, IInv', PInv, NEW p \in Procs, NEW s \in Sessions, RunJob(p, s)
  PROVE  PInv'
<1> DEFINE st == [Idle EXCEPT !.pc = "fetch", !.session = s, !.copy = row[s]]
<1>1. /\ proc' = [proc EXCEPT ![p] = st] /\ row[s] # NoRow
      /\ UNCHANGED <<row, remote, credits, orderLock>>
      /\ sessionLock' = [sessionLock EXCEPT ![s] = p]
  BY DEF RunJob, NoRow, OngoingStatus, gateway
<1>2. /\ st.pc = "fetch" /\ st.session = s /\ st.then = "commit" /\ st.todo = {}
      /\ st.saved = Idle.saved
  BY DEF Idle
<1>3. \A t \in Sessions : Idle.saved[t] = NoRow
  BY DEF Idle
<1>4. \A t \in Sessions : sessionLock'[t] # Nobody => row[t] # NoRow
  BY <1>1 DEF PInv, IInv, TypeOK
<1> HIDE DEF st
<1>5. CreatorInv(p, st, row, remote, credits, orderLock')
  BY <1>1, <1>2, <1>3 DEF CreatorInv, Cancelling
<1>6. QED
  BY <1>1, <1>4, <1>5, MovesTo, QuietKeeps

\* A transaction that has saved nothing new sees the ongoing sessions on record.
LEMMA OngoingOnRecord ==
  ASSUME IInv, PInv, NEW p \in Procs, proc[p].pc # "commit", NEW s \in Ongoing(p)
  PROVE  row[s] # NoRow
<1>1. s \in Sessions /\ RowOf(p, s) \in OngoingStatus
  BY DEF Ongoing
<1>2. RowOf(p, s) # NoRow
  BY <1>1 DEF OngoingStatus, NoRow
<1>3. CreatorInv(p, proc[p], row, remote, credits, orderLock)
  BY Relying
<1>4. QED
  BY <1>1, <1>2, <1>3 DEF RowOf, CreatorInv

LEMMA CreateRelies ==
  ASSUME IInv, IInv', PInv, NEW p \in Procs, Create(p)
  PROVE  PInv'
<1> DEFINE ongoing == Ongoing(p)
           st == [Idle EXCEPT !.pc = "lock", !.todo = ongoing, !.then = "refresh"]
<1>1. Step(p, st) /\ proc[p].pc = "idle"
  BY DEF Create
<1>2. \A s \in ongoing : row[s] # NoRow
  BY <1>1, OngoingOnRecord
<1> HIDE DEF ongoing
<1>3. /\ st.pc = "lock" /\ st.then = "refresh" /\ st.todo = ongoing
      /\ st.saved = Idle.saved
  BY DEF Idle
<1>4. \A t \in Sessions : Idle.saved[t] = NoRow
  BY DEF Idle
<1>5. st \in ProcStates
  BY <1>1, StepMovesTo
<1> HIDE DEF st
<1>6. CreatorInv(p, st, row, remote, credits, orderLock)
  BY <1>2, <1>3, <1>4 DEF CreatorInv, Cancelling
<1>7. QED
  BY <1>1, <1>5, <1>6, StepRelies

LEMMA FetchRelies ==
  ASSUME IInv, IInv', PInv, NEW p \in Procs, Fetch(p)
  PROVE  PInv'
<1> DEFINE old == proc[p]
           new == remote[old.session]
           st == IF new = old.copy THEN [old EXCEPT !.pc = old.then]
                 ELSE [old EXCEPT !.pc = "save", !.seen = new]
<1>1. /\ old \in ProcStates /\ CreatorInv(p, old, row, remote, credits, orderLock)
      /\ old.pc = "fetch" /\ Step(p, st)
  BY Relying DEF Fetch
<1>2. st \in ProcStates
  BY <1>1, StepMovesTo
<1> HIDE DEF old, new
<1>3. /\ st.session = old.session /\ st.then = old.then /\ st.todo = old.todo
      /\ st.saved = old.saved
      /\ st.pc = old.then \/ st.pc = "save"
  BY <1>1 DEF ProcStates
<1>4. old.then \in {"commit", "refresh", "cancel"}
  BY <1>1 DEF ProcStates
<1> HIDE DEF st
<1>5. CreatorInv(p, st, row, remote, credits, orderLock)
  BY <1>1, <1>3, <1>4 DEF CreatorInv, Cancelling
<1>6. QED
  BY <1>1, <1>2, <1>5, StepRelies

LEMMA SaveRelies ==
  ASSUME IInv, IInv', PInv, NEW p \in Procs, Save(p)
  PROVE  PInv'
<1> DEFINE old == proc[p]
           s == old.session
           next == IF old.seen = "success" THEN "order" ELSE old.then
           st == [old EXCEPT !.saved[s] = old.seen, !.pc = next]
<1>1. /\ old \in ProcStates /\ CreatorInv(p, old, row, remote, credits, orderLock)
      /\ old.pc = "save" /\ s \in Sessions
      /\ UNCHANGED <<row, remote, credits, orderLock>>
      /\ sessionLock' = [sessionLock EXCEPT ![s] = p]
  BY Relying DEF Save, gateway
<1>2. proc' = [proc EXCEPT ![p] = st]
  BY ProcType DEF Save, ProcStates
<1>3. st \in ProcStates
  BY <1>2, MovesTo
<1> HIDE DEF old
<1>4. next \in {"order", "commit", "refresh", "cancel"} /\ (next = "order" \/ next = old.then)
  BY <1>1 DEF ProcStates
<1>5. /\ st.session = s /\ st.then = old.then /\ st.todo = old.todo /\ st.pc = next
      /\ \A t \in Sessions \ {s} : st.saved[t] = old.saved[t]
  BY <1>1 DEF ProcStates
<1>6. s = old.session
  OBVIOUS
<1> HIDE DEF st, next, s
<1>7. row[s] # NoRow /\ remote[s] # NoRow
  BY <1>1, <1>6 DEF CreatorInv, PInv
<1>8. \A t \in Sessions : sessionLock'[t] # Nobody => row[t] # NoRow
  BY <1>1, <1>7 DEF PInv, IInv, TypeOK
<1>9. CreatorInv(p, st, row, remote, credits, orderLock')
  BY <1>1, <1>4, <1>5, <1>6, <1>7 DEF CreatorInv, Cancelling
<1>10. QED
  BY <1>1, <1>2, <1>3, <1>8, <1>9, QuietKeeps

LEMMA ReadOrderRelies ==
  ASSUME IInv, IInv', PInv, NEW p \in Procs, ReadOrder(p)
  PROVE  PInv'
<1> DEFINE old == proc[p]
           o == OrderOf(p)
           go == [old EXCEPT !.pc = "credit", !.order = o]
           stop == [old EXCEPT !.pc = "commit", !.saved[old.session] = NoRow]
<1>1. /\ old \in ProcStates /\ CreatorInv(p, old, row, remote, credits, orderLock)
      /\ old.pc = "order" /\ old.session \in Sessions
      /\ Step(p, go) \/ Step(p, stop) \/ Rollback(p)
  BY Relying DEF ReadOrder
<1> HIDE DEF old, o
<1>2. CASE Step(p, go)
  <2>1. go \in ProcStates
    BY <1>2, StepMovesTo
  <2>2. /\ go.session = old.session /\ go.then = old.then /\ go.todo = old.todo
        /\ go.saved = old.saved /\ go.pc = "credit"
    BY <1>1 DEF ProcStates
  <2> HIDE DEF go
  <2>3. CreatorInv(p, go, row, remote, credits, orderLock)
    BY <1>1, <2>2 DEF CreatorInv, Cancelling
  <2>4. QED
    BY <1>2, <2>1, <2>3, StepRelies
<1>3. CASE Step(p, stop)
  <2>1. stop \in ProcStates
    BY <1>3, StepMovesTo
  <2>2. /\ stop.todo = old.todo /\ stop.pc = "commit"
        /\ stop.saved[old.session] = NoRow
        /\ \A t \in Sessions \ {old.session} : stop.saved[t] = old.saved[t]
    BY <1>1 DEF ProcStates
  <2> HIDE DEF stop
  <2>3. CreatorInv(p, stop, row, remote, credits, orderLock)
    BY <1>1, <2>2 DEF CreatorInv, Cancelling
  <2>4. QED
    BY <1>3, <2>1, <2>3, StepRelies
<1>4. QED
  BY <1>1, <1>2, <1>3, RollbackRelies

LEMMA CreditRelies ==
  ASSUME IInv, IInv', PInv, NEW p \in Procs, Credit(p)
  PROVE  PInv'
<1> DEFINE old == proc[p]
           st == [old EXCEPT !.paid = @ \cup {old.session}, !.order.status = PAID,
                             !.pc = old.then]
<1>1. /\ old \in ProcStates /\ CreatorInv(p, old, row, remote, credits, orderLock)
      /\ old.pc = "credit" /\ Free(orderLock, p) /\ orderLock' = p
      /\ UNCHANGED <<row, remote, credits, sessionLock>>
  BY Relying DEF Credit, gateway
<1>2. proc' = [proc EXCEPT ![p] = st]
  BY ProcType DEF Credit, ProcStates
<1>3. st \in ProcStates
  BY <1>2, MovesTo
<1> HIDE DEF old
<1>4. old.then \in {"commit", "refresh", "cancel"}
  BY <1>1 DEF ProcStates
<1>5. /\ st.then = old.then /\ st.todo = old.todo /\ st.pc = old.then
      /\ st.saved = old.saved
  BY <1>1 DEF ProcStates
<1> HIDE DEF st
<1>6. CreatorInv(p, st, row, remote, credits, orderLock')
  BY <1>1, <1>4, <1>5 DEF CreatorInv, Cancelling
<1>7. \A q \in Procs \ {p} : orderLock = q => orderLock' = q
  BY <1>1, GatewayAssumption DEF Free
<1>8. \A s \in Sessions : sessionLock'[s] # Nobody => row[s] # NoRow
  BY <1>1 DEF PInv
<1>9. QED
  BY <1>1, <1>2, <1>3, <1>6, <1>7, <1>8, QuietKeeps

LEMMA LockSessionRelies ==
  ASSUME IInv, IInv', PInv, NEW p \in Procs, NEW s \in Sessions, LockSession(p, s)
  PROVE  PInv'
<1> DEFINE old == proc[p]
           st == [old EXCEPT !.todo = @ \ {s}]
<1>1. /\ old \in ProcStates /\ CreatorInv(p, old, row, remote, credits, orderLock)
      /\ old.pc = "lock" /\ s \in old.todo
      /\ \/ sessionLock' = [sessionLock EXCEPT ![s] = p]
         \/ sessionLock' = sessionLock
      /\ UNCHANGED <<row, remote, credits, orderLock>>
  BY Relying DEF LockSession, Latest, gateway
<1>2. proc' = [proc EXCEPT ![p] = st]
  BY ProcType DEF LockSession, ProcStates
<1>3. st \in ProcStates
  BY <1>2, MovesTo
<1> HIDE DEF old
<1>4. row[s] # NoRow
  BY <1>1 DEF CreatorInv
<1>5. \A t \in Sessions : sessionLock'[t] # Nobody => row[t] # NoRow
  BY <1>1, <1>4 DEF PInv, IInv, TypeOK
<1>6. /\ st.then = old.then /\ st.todo = old.todo \ {s} /\ st.pc = old.pc
      /\ st.saved = old.saved
  BY <1>1 DEF ProcStates
<1> HIDE DEF st
<1>7. CreatorInv(p, st, row, remote, credits, orderLock')
  BY <1>1, <1>6 DEF CreatorInv, Cancelling
<1>8. QED
  BY <1>1, <1>2, <1>3, <1>5, <1>7, QuietKeeps

LEMMA SessionsLockedRelies ==
  ASSUME IInv, IInv', PInv, NEW p \in Procs, SessionsLocked(p)
  PROVE  PInv'
<1> DEFINE old == proc[p]
           locked == {s \in Sessions : sessionLock[s] = p}
           st == [old EXCEPT !.pc = "refresh", !.todo = locked]
<1>1. /\ old \in ProcStates /\ CreatorInv(p, old, row, remote, credits, orderLock)
      /\ old.pc = "lock" /\ Step(p, st)
  BY Relying DEF SessionsLocked
<1>2. st \in ProcStates
  BY <1>1, StepMovesTo
<1>3. \A s \in locked : row[s] # NoRow
  BY GatewayAssumption DEF PInv
<1> HIDE DEF old, locked
<1>4. /\ st.then = old.then /\ st.todo = locked /\ st.pc = "refresh"
      /\ st.saved = old.saved
  BY <1>1 DEF ProcStates
<1> HIDE DEF st
<1>5. CreatorInv(p, st, row, remote, credits, orderLock)
  BY <1>1, <1>3, <1>4 DEF CreatorInv, Cancelling
<1>6. QED
  BY <1>1, <1>2, <1>5, StepRelies

LEMMA RefreshSessionRelies ==
  ASSUME IInv, IInv', PInv, NEW p \in Procs, NEW s \in Sessions, RefreshSession(p, s)
  PROVE  PInv'
<1> DEFINE old == proc[p]
           copy == RowOf(p, s)
           st == [old EXCEPT !.pc = "fetch", !.todo = @ \ {s}, !.session = s,
                             !.copy = copy]
<1>1. /\ old \in ProcStates /\ CreatorInv(p, old, row, remote, credits, orderLock)
      /\ old.pc = "refresh" /\ s \in old.todo /\ Step(p, st)
  BY Relying DEF RefreshSession, Latest
<1>2. st \in ProcStates
  BY <1>1, StepMovesTo
<1> HIDE DEF old, copy
<1>3. /\ st.then = old.then /\ st.todo = old.todo \ {s} /\ st.pc = "fetch"
      /\ st.session = s /\ st.saved = old.saved
  BY <1>1 DEF ProcStates
<1> HIDE DEF st
<1>4. CreatorInv(p, st, row, remote, credits, orderLock)
  BY <1>1, <1>3 DEF CreatorInv, Cancelling
<1>5. QED
  BY <1>1, <1>2, <1>4, StepRelies

LEMMA ValidateOrderRelies ==
  ASSUME IInv, IInv', PInv, NEW p \in Procs, ValidateOrder(p)
  PROVE  PInv'
<1> DEFINE old == proc[p]
           o == OrderOf(p)
           st == IF Payable(o) THEN [old EXCEPT !.pc = "lockOrder", !.order = o]
                 ELSE [old EXCEPT !.pc = "commit"]
<1>1. /\ old \in ProcStates /\ CreatorInv(p, old, row, remote, credits, orderLock)
      /\ old.pc = "refresh" /\ Step(p, st)
  BY Relying DEF ValidateOrder
<1>2. st \in ProcStates
  BY <1>1, StepMovesTo
<1> HIDE DEF old, o
<1>3. /\ st.then = old.then /\ st.todo = old.todo /\ st.pc \in {"lockOrder", "commit"}
      /\ st.saved = old.saved
  BY <1>1 DEF ProcStates
<1> HIDE DEF st
<1>4. CreatorInv(p, st, row, remote, credits, orderLock)
  BY <1>1, <1>3 DEF CreatorInv, Cancelling
<1>5. QED
  BY <1>1, <1>2, <1>4, StepRelies

-----------------------------------------------------------------------------
(* The creator that holds the order *)

\* Whatever can be paid when the order is locked is going to be cancelled.
LEMMA LockOrderRelies ==
  ASSUME IInv, IInv', PInv, NEW p \in Procs, LockOrder(p)
  PROVE  PInv'
<1> DEFINE old == proc[p]
           ongoing == Ongoing(p)
           st == [old EXCEPT !.pc = "cancel", !.todo = ongoing, !.then = "cancel"]
<1>1. /\ old \in ProcStates /\ CreatorInv(p, old, row, remote, credits, orderLock)
      /\ old.pc = "lockOrder" /\ Free(orderLock, p) /\ orderLock' = p
      /\ proc' = [proc EXCEPT ![p] = st]
      /\ UNCHANGED <<row, remote, credits, sessionLock>>
  BY Relying DEF LockOrder, gateway
<1>2. st \in ProcStates
  BY <1>1, MovesTo
<1>3. \A s \in ongoing : row[s] # NoRow
  BY <1>1, OngoingOnRecord
<1>4. ASSUME NEW s \in Sessions, row[s] # NoRow, Open(remote[s], credits[s])
      PROVE  s \in ongoing
  <2>1. /\ row[s] \in FinishedStatus => row[s] = remote[s]
        /\ row[s] = "success" => credits[s] # 0
        /\ old.saved[s] \in FinishedStatus => old.saved[s] = remote[s]
        /\ old.saved[s] # "success"
    BY <1>1, Doing DEF IInv, RowInv, ProcInv
  <2>2. RowOf(p, s) \in Statuses /\ RowOf(p, s) # NoRow
    BY <1>4, RowOfType DEF RowOf
  <2>3. RowOf(p, s) \notin FinishedStatus
    BY <1>4, <2>1 DEF RowOf, Open, OngoingStatus, FinishedStatus
  <2>4. RowOf(p, s) \in OngoingStatus
    BY <2>2, <2>3 DEF Statuses, SessionStatus
  <2>5. QED
    BY <2>4 DEF Ongoing
<1> HIDE DEF old, ongoing
<1>5. /\ st.then = "cancel" /\ st.todo = ongoing /\ st.pc = "cancel"
      /\ st.saved = old.saved
  BY <1>1 DEF ProcStates
<1> HIDE DEF st
<1>6. CreatorInv(p, st, row, remote, credits, orderLock')
  BY <1>1, <1>3, <1>4, <1>5 DEF CreatorInv, Cancelling
<1>7. \A q \in Procs \ {p} : orderLock = q => orderLock' = q
  BY <1>1, GatewayAssumption DEF Free
<1>8. \A s \in Sessions : sessionLock'[s] # Nobody => row[s] # NoRow
  BY <1>1 DEF PInv
<1>9. QED
  BY <1>1, <1>2, <1>6, <1>7, <1>8, QuietKeeps

\* A step of one process on GOV.UK that makes nothing payable.
LEMMA RemoteRelies ==
  ASSUME IInv, PInv, NEW p \in Procs, NEW st \in ProcStates,
         proc' = [proc EXCEPT ![p] = st],
         UNCHANGED <<row, credits, sessionLock, orderLock>>,
         \A s \in Sessions : remote[s] # NoRow => remote'[s] # NoRow,
         \A s \in Sessions : row[s] # NoRow /\ Open(remote'[s], credits'[s]) =>
                             Open(remote[s], credits[s]),
         CreatorInv(p, st, row, remote', credits, orderLock)
  PROVE  PInv'
<1>1. \A q \in Procs : CreatorInv(q, proc'[q], row', remote', credits', orderLock')
  <2> HIDE DEF CreatorInv
  <2>1. CreatorInv(p, st, row', remote', credits', orderLock')
    OBVIOUS
  <2>2. \A s \in Sessions : row[s] # NoRow => row'[s] # NoRow
    OBVIOUS
  <2>3. \A q \in Procs \ {p} : orderLock = q =>
          /\ orderLock' = q
          /\ \A s \in Sessions : row'[s] # NoRow /\ Open(remote'[s], credits'[s]) =>
                                 row[s] # NoRow /\ Open(remote[s], credits[s])
    OBVIOUS
  <2>4. QED
    BY <2>1, <2>2, <2>3, OneRelies
<1>2. QED
  BY <1>1 DEF PInv, CanBePaid

LEMMA CancelSessionRelies ==
  ASSUME IInv, IInv', PInv, NEW p \in Procs, NEW s \in Sessions, CancelSession(p, s)
  PROVE  PInv'
<1> DEFINE old == proc[p]
           copy == RowOf(p, s)
           st == [old EXCEPT !.pc = "fetch", !.todo = @ \ {s}, !.session = s,
                             !.copy = copy]
<1>1. /\ old \in ProcStates /\ CreatorInv(p, old, row, remote, credits, orderLock)
      /\ old.pc = "cancel" /\ s \in old.todo
      /\ \/ /\ remote' = [remote EXCEPT ![s] = "cancelled"]
            /\ proc' = [proc EXCEPT ![p] = st]
            /\ UNCHANGED <<row, credits, sessionLock, orderLock>>
         \/ Rollback(p)
  BY Relying DEF CancelSession, Latest, locks
<1>2. CASE Rollback(p)
  BY <1>2, RollbackRelies
<1>3. CASE ~Rollback(p)
  <2>1. st \in ProcStates
    BY <1>1, <1>3, MovesTo
  <2>2. /\ \A t \in Sessions \ {s} : remote'[t] = remote[t]
        /\ remote'[s] = "cancelled"
    BY <1>1, <1>3 DEF IInv, TypeOK
  <2>3. "cancelled" # NoRow /\ \A c : ~Open("cancelled", c)
    BY DEF NoRow, Open, OngoingStatus
  <2> HIDE DEF old, copy
  <2>4. /\ st.then = old.then /\ st.todo = old.todo \ {s} /\ st.pc = "fetch"
        /\ st.session = s /\ st.saved = old.saved
    BY <1>1 DEF ProcStates
  <2> HIDE DEF st
  <2>5. CreatorInv(p, st, row, remote', credits, orderLock)
    BY <1>1, <2>2, <2>3, <2>4 DEF CreatorInv, Cancelling
  <2>6. /\ \A t \in Sessions : remote[t] # NoRow => remote'[t] # NoRow
        /\ \A t \in Sessions : row[t] # NoRow /\ Open(remote'[t], credits'[t]) =>
                               Open(remote[t], credits[t])
    BY <1>1, <1>3, <2>2, <2>3
  <2>7. QED
    BY <1>1, <1>3, <2>1, <2>5, <2>6, RemoteRelies
<1>4. QED
  BY <1>2, <1>3

\* The creator that has cancelled them all adds a payment nobody knows of yet.
LEMMA CreatePaymentRelies ==
  ASSUME IInv, IInv', PInv, NEW p \in Procs, NEW s \in Sessions, CreatePayment(p, s)
  PROVE  PInv'
<1> DEFINE old == proc[p]
           st == [old EXCEPT !.saved[s] = NewStatus, !.pc = "commit"]
<1>1. /\ old \in ProcStates /\ CreatorInv(p, old, row, remote, credits, orderLock)
      /\ old.pc = "cancel" /\ old.todo = {} /\ remote[s] = NoRow
      /\ remote' = [remote EXCEPT ![s] = "created"]
      /\ UNCHANGED <<row, credits, sessionLock, orderLock>>
  BY Relying DEF CreatePayment, locks
<1>2. proc' = [proc EXCEPT ![p] = st]
  BY ProcType DEF CreatePayment, ProcStates
<1>3. st \in ProcStates
  BY <1>2, MovesTo
<1>4. /\ \A t \in Sessions \ {s} : remote'[t] = remote[t]
      /\ remote'[s] = "created"
  BY <1>1 DEF IInv, TypeOK
<1>5. row[s] = NoRow /\ "created" # NoRow
  BY <1>1 DEF PInv, NoRow
<1> HIDE DEF old
<1>6. /\ st.todo = {} /\ st.pc = "commit" /\ st.saved[s] = "created"
      /\ \A t \in Sessions \ {s} : st.saved[t] = old.saved[t]
  BY <1>1 DEF ProcStates, NewStatus
<1> HIDE DEF st
<1>7. CreatorInv(p, st, row, remote', credits, orderLock)
  BY <1>1, <1>4, <1>5, <1>6 DEF CreatorInv, Cancelling
<1>8. /\ \A t \in Sessions : remote[t] # NoRow => remote'[t] # NoRow
      /\ \A t \in Sessions : row[t] # NoRow /\ Open(remote'[t], credits'[t]) =>
                             Open(remote[t], credits[t])
  BY <1>1, <1>4, <1>5
<1>9. QED
  BY <1>1, <1>2, <1>3, <1>7, <1>8, RemoteRelies

-----------------------------------------------------------------------------
(* How a transaction ends *)

\* A session that is added is the only one that can be paid.
LEMMA CommitRelies ==
  ASSUME IInv, IInv', PInv, NEW p \in Procs, Commit(p)
  PROVE  PInv'
<1> DEFINE old == proc[p]
<1>1. /\ old \in ProcStates /\ CreatorInv(p, old, row, remote, credits, orderLock)
      /\ row' = [s \in Sessions |-> RowOf(p, s)] /\ UNCHANGED remote
      /\ proc' = [proc EXCEPT ![p] = Idle]
  BY Relying DEF Commit, End, gateway
<1>2. /\ \A q \in Procs \ {p} : orderLock = q => orderLock' = q
      /\ \A s \in Sessions : sessionLock'[s] # Nobody => sessionLock[s] # Nobody
  BY DEF Commit, End
<1>3. \A s \in Sessions : row'[s] # NoRow <=> row[s] # NoRow \/ old.saved[s] # NoRow
  BY <1>1 DEF RowOf
<1>3a. \A s \in Sessions : Open(remote'[s], credits'[s]) => Open(remote[s], credits[s])
  BY <1>1 DEF Commit, Open, IInv, TypeOK
<1> HIDE DEF old
<1>4. \A s \in Sessions : row'[s] # NoRow /\ row[s] = NoRow =>
        /\ orderLock = p
        /\ \A t \in Sessions : row[t] # NoRow => ~Open(remote[t], credits[t])
        /\ \A t \in Sessions : row'[t] # NoRow /\ row[t] = NoRow => t = s
  BY <1>1, <1>3 DEF CreatorInv
<1>5. \A s \in Sessions : row'[s] # NoRow => remote'[s] # NoRow
  BY <1>1, <1>3 DEF CreatorInv, PInv
<1>6. \A s \in Sessions : sessionLock'[s] # Nobody => row'[s] # NoRow
  BY <1>2, <1>3 DEF PInv
<1>7. (\A s, t \in Sessions : CanBePaid(s) /\ CanBePaid(t) => s = t)'
  <2> SUFFICES ASSUME NEW s \in Sessions, NEW t \in Sessions,
                      row'[s] # NoRow, Open(remote'[s], credits'[s]),
                      row'[t] # NoRow, Open(remote'[t], credits'[t])
               PROVE  s = t
    BY DEF CanBePaid
  <2>1. CASE row[s] = NoRow
    BY <1>3a, <1>4, <2>1
  <2>2. CASE row[s] # NoRow
    <3>1. row[t] # NoRow
      BY <1>3a, <1>4, <2>2
    <3>2. QED
      BY <1>3a, <2>2, <3>1 DEF PInv, CanBePaid
  <2>3. QED
    BY <2>1, <2>2
<1>8. \A q \in Procs : CreatorInv(q, proc'[q], row', remote', credits', orderLock')
  <2>1. Idle \in ProcStates /\ CreatorInv(p, Idle, row', remote', credits', orderLock')
    BY IdleKnows, IdleRelies
  <2>2. \A s \in Sessions : row[s] # NoRow => row'[s] # NoRow
    BY <1>3
  <2>3. \A s \in Sessions : remote[s] # NoRow => remote'[s] # NoRow
    BY <1>1
  <2>4. \A q \in Procs \ {p} : orderLock = q =>
          /\ orderLock' = q
          /\ \A s \in Sessions : row'[s] # NoRow /\ Open(remote'[s], credits'[s]) =>
                                 row[s] # NoRow /\ Open(remote[s], credits[s])
    BY <1>2, <1>3a, <1>4
  <2> HIDE DEF CreatorInv
  <2>5. QED
    BY <1>1, <2>1, <2>2, <2>3, <2>4, OneRelies
<1>9. QED
  BY <1>5, <1>6, <1>7, <1>8 DEF PInv

-----------------------------------------------------------------------------
(* The rest of the world *)

\* The client cannot revive a payment that is over.
LEMMA PayRelies ==
  ASSUME IInv, PInv, NEW s \in Sessions, Pay(s)
  PROVE  PInv'
<1>1. PICK new \in LaterStatus(remote[s]) \cap GovUkStatus :
             remote' = [remote EXCEPT ![s] = new]
  BY DEF Pay
<1>2. UNCHANGED <<row, credits, sessionLock, orderLock, proc>>
  BY DEF Pay, locks
<1>3. new # NoRow /\ remote[s] \in OngoingStatus
  BY <1>1 DEF LaterStatus, FinishedStatus, OngoingStatus, NoRow
<1>4. /\ \A t \in Sessions \ {s} : remote'[t] = remote[t]
      /\ remote'[s] = new
  BY <1>1 DEF IInv, TypeOK
<1>4a. /\ \A t \in Sessions : remote[t] # NoRow => remote'[t] # NoRow
       /\ \A t \in Sessions : Open(remote'[t], credits[t]) => Open(remote[t], credits[t])
  BY <1>3, <1>4 DEF Open
<1>5. ASSUME NEW q \in Procs
      PROVE  CreatorInv(q, proc[q], row, remote', credits, orderLock)
  BY <1>4a, Relying, OthersRely
<1>6. (\A q \in Procs : CreatorInv(q, proc[q], row, remote, credits, orderLock))'
  BY <1>2, <1>5
<1>7. QED
  BY <1>2, <1>3, <1>4, <1>4a, <1>6 DEF PInv, CanBePaid

LEMMA OthersDoNotMatter ==
  ASSUME PInv, UNCHANGED <<row, remote, credits, sessionLock, orderLock, proc>>
  PROVE  PInv'
<1>1. (\A q \in Procs : CreatorInv(q, proc[q], row, remote, credits, orderLock))'
  BY DEF PInv
<1>2. QED
  BY <1>1 DEF PInv, CanBePaid

-----------------------------------------------------------------------------
(* The invariant *)

LEMMA InitPayable == Init => PInv
<1> SUFFICES ASSUME Init PROVE PInv
  OBVIOUS
<1>1. \A p \in Procs : CreatorInv(p, proc[p], row, remote, credits, orderLock)
  BY IdleRelies DEF Init
<1>2. \A s \in Sessions : row[s] = NoRow /\ sessionLock[s] = Nobody
  BY DEF Init
<1>3. QED
  BY <1>1, <1>2 DEF PInv, CanBePaid

LEMMA AdvanceRelies ==
  ASSUME IInv, IInv', PInv, NEW p \in Procs, Advance(p)
  PROVE  PInv'
<1>1. CASE Fetch(p)
  BY <1>1, FetchRelies
<1>2. CASE Save(p)
  BY <1>2, SaveRelies
<1>3. CASE ReadOrder(p)
  BY <1>3, ReadOrderRelies
<1>4. CASE Credit(p)
  BY <1>4, CreditRelies
<1>5. CASE SessionsLocked(p)
  BY <1>5, SessionsLockedRelies
<1>6. CASE ValidateOrder(p)
  BY <1>6, ValidateOrderRelies
<1>7. CASE LockOrder(p)
  BY <1>7, LockOrderRelies
<1>8. CASE \E s \in Sessions : LockSession(p, s)
  BY <1>8, LockSessionRelies
<1>9. CASE \E s \in Sessions : RefreshSession(p, s)
  BY <1>9, RefreshSessionRelies
<1>10. CASE \E s \in Sessions : CancelSession(p, s)
  BY <1>10, CancelSessionRelies
<1>11. CASE \E s \in Sessions : CreatePayment(p, s)
  BY <1>11, CreatePaymentRelies
<1>12. CASE Commit(p)
  BY <1>12, CommitRelies
<1>13. QED
  BY <1>1, <1>2, <1>3, <1>4, <1>5, <1>6, <1>7, <1>8, <1>9, <1>10, <1>11, <1>12
     DEF Advance

LEMMA StepPayable == IInv /\ IInv' /\ PInv /\ [Next]_vars => PInv'
<1> SUFFICES ASSUME IInv, IInv', PInv, [Next]_vars PROVE PInv'
  OBVIOUS
<1>1. CASE \E p \in Viewers, s \in Sessions : View(p, s)
  BY <1>1, ViewRelies DEF Procs
<1>2. CASE \E p \in Jobs, s \in Sessions : RunJob(p, s)
  BY <1>2, RunJobRelies DEF Procs
<1>3. CASE \E p \in Creators : Create(p)
  BY <1>3, CreateRelies DEF Procs
<1>4. CASE \E p \in Procs : Advance(p)
  BY <1>4, AdvanceRelies
<1>5. CASE \E p \in Procs : Abort(p)
  BY <1>5, RollbackRelies DEF Abort
<1>6. CASE \E s \in Sessions : Pay(s)
  BY <1>6, PayRelies
<1>7. CASE UpdateOrder \/ UpdateVat
  BY <1>7, OthersDoNotMatter DEF UpdateOrder, UpdateVat, gateway, locks
<1>8. CASE UNCHANGED vars
  BY <1>8, OthersDoNotMatter DEF vars, gateway, locks
<1>9. QED
  BY <1>1, <1>2, <1>3, <1>4, <1>5, <1>6, <1>7, <1>8 DEF Next

LEMMA Payability == Spec => []PInv
BY InitPayable, StepPayable, Invariance, PTL DEF Spec

\* However many browsers create sessions, view them and pay at the same time,
\* the client never holds two links with which he could pay: create_from_order
\* cancels under the lock of the order.
THEOREM OneIsPayable == Spec => []OnePayable
<1>1. IInv /\ PInv => OnePayable
  <2> DEFINE payable == {s \in Sessions : row[s] # NoRow /\ remote[s] \in OngoingStatus}
  <2> SUFFICES ASSUME IInv, PInv PROVE Cardinality(payable) <= 1
    BY DEF OnePayable
  <2>1. \A s, t \in payable : s = t
    <3>1. \A s \in payable : ~(credits[s] > 0) /\ credits[s] \in Nat
      BY DEF IInv, TypeOK, RowInv, OngoingStatus
    <3>2. \A s \in payable : CanBePaid(s)
      BY <3>1 DEF CanBePaid, Open
    <3>3. QED
      BY <3>2 DEF PInv
  <2> HIDE DEF payable
  <2>2. CASE payable = {}
    BY <2>2, FS_EmptySet
  <2>3. CASE payable # {}
    <3>1. PICK s : payable = {s}
      BY <2>1, <2>3
    <3>2. Cardinality({s}) = 1
      BY FS_Singleton, Zenon
    <3>3. Cardinality(payable) = 1
      BY <3>1, <3>2
    <3>4. QED
      BY <3>3
  <2>4. QED
    BY <2>2, <2>3
<1>2. QED
  BY <1>1, Payability, Invariance, PTL

-----------------------------------------------------------------------------
(* An order paid by card shows a price its payment covers.                 *)
(*                                                                         *)
(* mark_as_paid validates the order before it has its lock, and writes it  *)
(* from that copy.  Two payments recorded from copies with two prices would *)
(* break the rule; but at most one session can be paid with, or has been   *)
(* paid and is not on record yet (PInv above), and it is locked by whoever *)
(* records it.                                                             *)

\* The process is putting the payment of s on record.
Recording(st, s) == s \in st.paid \/ (st.pc = "credit" /\ s = st.session)

RecordInv(st, rw, cr, am) ==
  \A s \in Sessions : Recording(st, s) =>
    /\ rw[s] # NoRow
    /\ am[s] >= st.order.price
    /\ \A t \in Sessions : cr[t] = 0

CInv == /\ CreditCoversPrice
        /\ \A p \in Procs : RecordInv(proc[p], row, credits, amount)

\* What is known of a process that records a payment.
LEMMA RecordingKnows ==
  ASSUME IInv, PInv, CInv, NEW p \in Procs, NEW s \in Sessions, Recording(proc[p], s)
  PROVE  /\ remote[s] = "success" /\ credits[s] = 0 /\ row[s] # NoRow
         /\ amount[s] >= proc[p].order.price
         /\ \A t \in Sessions : credits[t] = 0
         /\ sessionLock[s] = p
         /\ CanBePaid(s)
<1>1. /\ proc[p] \in ProcStates
      /\ ProcInv(p, proc[p], remote, sessionLock, credits)
      /\ RecordInv(proc[p], row, credits, amount)
  BY Doing DEF CInv
<1>2. proc[p].saved[s] = "success" /\ sessionLock[s] = p
  BY <1>1 DEF Recording, ProcInv
<1>3. remote[s] = "success"
  BY <1>1, <1>2 DEF ProcInv, FinishedStatus
<1>4. QED
  BY <1>1, <1>2, <1>3 DEF RecordInv, CanBePaid, Open

\* A process that moves without beginning to record a payment.
LEMMA KeepsRecording ==
  ASSUME IInv, CInv, NEW p \in Procs, NEW st \in ProcStates,
         proc' = [proc EXCEPT ![p] = st],
         UNCHANGED <<status, price, row, credits, amount>>,
         st.pc # "credit",
         st.paid = {} \/ (st.paid = proc[p].paid /\ st.order = proc[p].order)
  PROVE  CInv'
<1>1. CreditCoversPrice'
  BY DEF CInv, CreditCoversPrice
<1>2. ASSUME NEW q \in Procs
      PROVE  RecordInv(proc'[q], row', credits', amount')
  <2>1. RecordInv(proc[q], row, credits, amount)
    BY DEF CInv
  <2>2. CASE q = p
    <3>1. proc'[q] = st
      BY <2>2, ProcType
    <3>2. RecordInv(st, row, credits, amount)
      BY <2>1, <2>2 DEF RecordInv, Recording
    <3>3. QED
      BY <3>1, <3>2
  <2>3. CASE q # p
    <3>1. proc'[q] = proc[q]
      BY <2>3, ProcType
    <3>2. QED
      BY <2>1, <3>1
  <2>4. QED
    BY <2>2, <2>3
<1>3. QED
  BY <1>1, <1>2 DEF CInv

LEMMA StepKeepsRecording ==
  ASSUME IInv, IInv', CInv, NEW p \in Procs, NEW st, Step(p, st),
         st.pc # "credit",
         st.paid = {} \/ (st.paid = proc[p].paid /\ st.order = proc[p].order)
  PROVE  CInv'
<1>1. /\ proc' = [proc EXCEPT ![p] = st]
      /\ UNCHANGED <<status, price, row, credits, amount>>
  BY DEF Step, gateway, orderVars
<1>2. st \in ProcStates
  BY StepMovesTo
<1>3. QED
  BY <1>1, <1>2, KeepsRecording

LEMMA RollbackRecords ==
  ASSUME IInv, CInv, NEW p \in Procs, Rollback(p)
  PROVE  CInv'
<1>1. /\ proc' = [proc EXCEPT ![p] = Idle]
      /\ UNCHANGED <<status, price, row, credits, amount>>
  BY DEF Rollback, End, gateway, orderVars
<1>2. Idle \in ProcStates /\ Idle.pc = "idle" /\ Idle.paid = {}
  BY IdleKnows DEF Idle
<1>3. QED
  BY <1>1, <1>2, KeepsRecording

\* Steps that record nothing.
LEMMA QuietRecords ==
  ASSUME IInv, IInv', CInv, NEW p \in Procs,
         \/ \E s \in Sessions : \/ View(p, s) \/ RunJob(p, s) \/ LockSession(p, s)
                                \/ RefreshSession(p, s) \/ CancelSession(p, s)
         \/ Create(p) \/ Fetch(p) \/ Save(p) \/ SessionsLocked(p) \/ ValidateOrder(p)
         \/ LockOrder(p)
  PROVE  CInv'
<1> DEFINE old == proc[p]
<1>1. old \in ProcStates
  BY Doing
<1>2. Idle.paid = {}
  BY DEF Idle
<1>3. CASE \E s \in Sessions : View(p, s)
  <2>1. PICK s \in Sessions : View(p, s)
    BY <1>3
  <2> DEFINE st == [Idle EXCEPT !.pc = "fetch", !.session = s, !.copy = row[s]]
  <2>2. Step(p, st) /\ st.pc = "fetch" /\ st.paid = {}
    BY <2>1 DEF View, Idle
  <2> HIDE DEF st
  <2>3. QED
    BY <2>2, StepKeepsRecording
<1>4. CASE \E s \in Sessions : RunJob(p, s)
  <2>1. PICK s \in Sessions : RunJob(p, s)
    BY <1>4
  <2> DEFINE st == [Idle EXCEPT !.pc = "fetch", !.session = s, !.copy = row[s]]
  <2>2. /\ proc' = [proc EXCEPT ![p] = st] /\ st.pc = "fetch" /\ st.paid = {}
        /\ UNCHANGED <<status, price, row, credits, amount>>
    BY <2>1 DEF RunJob, Idle, orderVars, gateway
  <2> HIDE DEF st
  <2>3. QED
    BY <2>2, MovesTo, KeepsRecording
<1>5. CASE \E s \in Sessions : LockSession(p, s)
  <2>1. PICK s \in Sessions : LockSession(p, s)
    BY <1>5
  <2> DEFINE st == [old EXCEPT !.todo = @ \ {s}]
  <2>2. /\ proc' = [proc EXCEPT ![p] = st]
        /\ UNCHANGED <<status, price, row, credits, amount>>
    BY <2>1, ProcType DEF LockSession, ProcStates, orderVars, gateway
  <2>3. st.pc = "lock" /\ st.paid = old.paid /\ st.order = old.order
    BY <1>1, <2>1 DEF LockSession, ProcStates
  <2> HIDE DEF st
  <2>4. QED
    BY <2>2, <2>3, MovesTo, KeepsRecording
<1>6. CASE \E s \in Sessions : RefreshSession(p, s)
  <2>1. PICK s \in Sessions : RefreshSession(p, s)
    BY <1>6
  <2> DEFINE st == [old EXCEPT !.pc = "fetch", !.todo = @ \ {s}, !.session = s,
                               !.copy = RowOf(p, s)]
  <2>2. Step(p, st)
    BY <2>1 DEF RefreshSession
  <2>3. st.pc = "fetch" /\ st.paid = old.paid /\ st.order = old.order
    BY <1>1 DEF ProcStates
  <2> HIDE DEF st
  <2>4. QED
    BY <2>2, <2>3, StepKeepsRecording
<1>7. CASE \E s \in Sessions : CancelSession(p, s)
  <2>1. PICK s \in Sessions : CancelSession(p, s)
    BY <1>7
  <2> DEFINE st == [old EXCEPT !.pc = "fetch", !.todo = @ \ {s}, !.session = s,
                               !.copy = RowOf(p, s)]
  <2>2. \/ /\ proc' = [proc EXCEPT ![p] = st]
           /\ UNCHANGED <<status, price, row, credits, amount>>
        \/ Rollback(p)
    BY <2>1 DEF CancelSession, orderVars
  <2>3. st.pc = "fetch" /\ st.paid = old.paid /\ st.order = old.order
    BY <1>1 DEF ProcStates
  <2> HIDE DEF st
  <2>4. QED
    BY <2>2, <2>3, MovesTo, KeepsRecording, RollbackRecords
<1>8. CASE Create(p)
  <2> DEFINE st == [Idle EXCEPT !.pc = "lock", !.todo = Ongoing(p), !.then = "refresh"]
  <2>1. Step(p, st) /\ st.pc = "lock" /\ st.paid = {}
    BY <1>8 DEF Create, Idle
  <2> HIDE DEF st
  <2>2. QED
    BY <2>1, StepKeepsRecording
<1>9. CASE Fetch(p)
  <2> DEFINE new == remote[old.session]
             st == IF new = old.copy THEN [old EXCEPT !.pc = old.then]
                   ELSE [old EXCEPT !.pc = "save", !.seen = new]
  <2>1. Step(p, st)
    BY <1>9 DEF Fetch
  <2> HIDE DEF old, new
  <2>2. st.pc # "credit" /\ st.paid = old.paid /\ st.order = old.order
    BY <1>1 DEF ProcStates
  <2> HIDE DEF st
  <2>3. QED
    BY <2>1, <2>2, StepKeepsRecording DEF old
<1>10. CASE Save(p)
  <2> DEFINE s == old.session
             next == IF old.seen = "success" THEN "order" ELSE old.then
             st == [old EXCEPT !.saved[s] = old.seen, !.pc = next]
  <2>1. /\ proc' = [proc EXCEPT ![p] = st]
        /\ UNCHANGED <<status, price, row, credits, amount>>
    BY <1>10, ProcType DEF Save, ProcStates, orderVars, gateway
  <2>2. st.pc # "credit" /\ st.paid = old.paid /\ st.order = old.order
    BY <1>1 DEF ProcStates
  <2> HIDE DEF st
  <2>3. QED
    BY <2>1, <2>2, MovesTo, KeepsRecording
<1>11. CASE SessionsLocked(p)
  <2> DEFINE st == [old EXCEPT !.pc = "refresh",
                               !.todo = {s \in Sessions : sessionLock[s] = p}]
  <2>1. Step(p, st)
    BY <1>11 DEF SessionsLocked
  <2>2. st.pc = "refresh" /\ st.paid = old.paid /\ st.order = old.order
    BY <1>1 DEF ProcStates
  <2> HIDE DEF st
  <2>3. QED
    BY <2>1, <2>2, StepKeepsRecording
<1>12. CASE ValidateOrder(p)
  <2> DEFINE o == OrderOf(p)
             st == IF Payable(o) THEN [old EXCEPT !.pc = "lockOrder", !.order = o]
                   ELSE [old EXCEPT !.pc = "commit"]
  <2>1. Step(p, st)
    BY <1>12 DEF ValidateOrder
  <2>2. Payable(o) => old.paid = {}
    BY OrderSeen
  <2> HIDE DEF o
  <2>3. /\ st.pc # "credit"
        /\ st.paid = {} \/ (st.paid = old.paid /\ st.order = old.order)
    BY <1>1, <2>2 DEF ProcStates
  <2> HIDE DEF st
  <2>4. QED
    BY <2>1, <2>3, StepKeepsRecording
<1>13. CASE LockOrder(p)
  <2> DEFINE st == [old EXCEPT !.pc = "cancel", !.todo = Ongoing(p), !.then = "cancel"]
  <2>1. /\ proc' = [proc EXCEPT ![p] = st]
        /\ UNCHANGED <<status, price, row, credits, amount>>
    BY <1>13 DEF LockOrder, orderVars, gateway
  <2>2. st.pc = "cancel" /\ st.paid = old.paid /\ st.order = old.order
    BY <1>1 DEF ProcStates
  <2> HIDE DEF st
  <2>3. QED
    BY <2>1, <2>2, MovesTo, KeepsRecording
<1>14. QED
  BY <1>3, <1>4, <1>5, <1>6, <1>7, <1>8, <1>9, <1>10, <1>11, <1>12, <1>13

\* The order it validates is the committed one, which nothing was paid for yet.
LEMMA ReadOrderRecords ==
  ASSUME IInv, IInv', PInv, CInv, NEW p \in Procs, ReadOrder(p)
  PROVE  CInv'
<1> DEFINE old == proc[p]
           o == OrderOf(p)
           go == [old EXCEPT !.pc = "credit", !.order = o]
           stop == [old EXCEPT !.pc = "commit", !.saved[old.session] = NoRow]
<1>1. /\ old \in ProcStates /\ old.session \in Sessions
      /\ row[old.session] # NoRow
      /\ \/ Payable(o) /\ Reconcilable(o, old.session) /\ Step(p, go)
         \/ Step(p, stop)
         \/ Rollback(p)
  BY Relying DEF ReadOrder, CreatorInv
<1>2. CASE Payable(o) /\ Reconcilable(o, old.session) /\ Step(p, go)
  <2>1. old.paid = {} /\ status = ACCEPTED
    BY <1>2, OrderSeen
  <2>2. \A t \in Sessions : credits[t] = 0
    BY <2>1, NothingCredited
  <2>3. amount[old.session] >= o.price
    BY <1>2 DEF Reconcilable
  <2> HIDE DEF o
  <2>4. /\ proc' = [proc EXCEPT ![p] = go]
        /\ UNCHANGED <<status, price, row, credits, amount>>
    BY <1>2 DEF Step, gateway, orderVars
  <2>5. go.session = old.session /\ go.paid = {} /\ go.order = o
    BY <1>1, <2>1 DEF ProcStates
  <2>6. RecordInv(go, row, credits, amount)
    BY <1>1, <2>2, <2>3, <2>5 DEF RecordInv, Recording
  <2> HIDE DEF go
  <2>7. ASSUME NEW q \in Procs
        PROVE  RecordInv(proc'[q], row', credits', amount')
    <3>1. proc'[q] = IF q = p THEN go ELSE proc[q]
      BY <2>4, ProcType
    <3>2. RecordInv(proc[q], row, credits, amount)
      BY DEF CInv
    <3>3. QED
      BY <2>4, <2>6, <3>1, <3>2
  <2>8. QED
    BY <2>4, <2>7 DEF CInv, CreditCoversPrice
<1>3. CASE Step(p, stop)
  <2>1. stop.pc = "commit" /\ stop.paid = old.paid /\ stop.order = old.order
    BY <1>1 DEF ProcStates
  <2> HIDE DEF stop
  <2>2. QED
    BY <1>3, <2>1, StepKeepsRecording
<1>4. QED
  BY <1>1, <1>2, <1>3, RollbackRecords

LEMMA CreditRecords ==
  ASSUME IInv, CInv, NEW p \in Procs, Credit(p)
  PROVE  CInv'
<1> DEFINE old == proc[p]
           st == [old EXCEPT !.paid = @ \cup {old.session}, !.order.status = PAID,
                             !.pc = old.then]
<1>1. /\ old \in ProcStates /\ ProcInv(p, old, remote, sessionLock, credits)
      /\ RecordInv(old, row, credits, amount)
      /\ old.pc = "credit"
      /\ UNCHANGED <<status, price, row, credits, amount>>
  BY Doing DEF CInv, Credit, orderVars, gateway
<1>2. proc' = [proc EXCEPT ![p] = st]
  BY ProcType DEF Credit, ProcStates
<1> HIDE DEF old
<1>3. old.paid = {} /\ old.then # "credit"
  BY <1>1 DEF ProcInv, ProcStates
<1>4. st.paid = {old.session} /\ st.order.price = old.order.price /\ st.pc # "credit"
  BY <1>1, <1>3 DEF ProcStates
<1> HIDE DEF st
<1>5. RecordInv(st, row, credits, amount)
  BY <1>1, <1>4 DEF RecordInv, Recording
<1>6. ASSUME NEW q \in Procs
      PROVE  RecordInv(proc'[q], row', credits', amount')
  <2>1. proc'[q] = IF q = p THEN st ELSE proc[q]
    BY <1>2, ProcType
  <2>2. RecordInv(proc[q], row, credits, amount)
    BY DEF CInv
  <2>3. QED
    BY <1>1, <1>5, <2>1, <2>2
<1>7. QED
  BY <1>1, <1>6 DEF CInv, CreditCoversPrice

\* A new payment is for a session nobody records: its amount matters to nobody.
LEMMA CreatePaymentRecords ==
  ASSUME IInv, IInv', PInv, CInv, NEW p \in Procs, NEW s \in Sessions, CreatePayment(p, s)
  PROVE  CInv'
<1> DEFINE old == proc[p]
           st == [old EXCEPT !.saved[s] = NewStatus, !.pc = "commit"]
<1>1. /\ old \in ProcStates /\ remote[s] = NoRow
      /\ amount' = [amount EXCEPT ![s] = old.order.price]
      /\ UNCHANGED <<status, price, row, credits>>
  BY Doing DEF CreatePayment, orderVars
<1>2. proc' = [proc EXCEPT ![p] = st]
  BY ProcType DEF CreatePayment, ProcStates
<1> HIDE DEF old
<1>3. st.paid = old.paid /\ st.order = old.order /\ st.pc = "commit"
  BY <1>1 DEF ProcStates
<1> HIDE DEF st
<1>4. /\ row[s] = NoRow /\ ~(credits[s] > 0)
      /\ \A t \in Sessions \ {s} : amount'[t] = amount[t]
  BY <1>1 DEF PInv, IInv, TypeOK, RowInv, NoRow
<1>5. CreditCoversPrice'
  BY <1>1, <1>4 DEF CInv, CreditCoversPrice
<1>6. ASSUME NEW q \in Procs
      PROVE  RecordInv(proc'[q], row', credits', amount')
  <2>1. RecordInv(proc[q], row, credits, amount)
    BY DEF CInv
  <2>2. RecordInv(proc[q], row', credits', amount')
    BY <1>1, <1>4, <2>1 DEF RecordInv
  <2>3. CASE q = p
    <3>1. proc'[q] = st
      BY <1>2, <2>3, ProcType
    <3>2. RecordInv(st, row', credits', amount')
      BY <1>3, <2>2, <2>3 DEF RecordInv, Recording, old
    <3>3. QED
      BY <3>1, <3>2
  <2>4. CASE q # p
    <3>1. proc'[q] = proc[q]
      BY <1>2, <2>4, ProcType
    <3>2. QED
      BY <2>2, <3>1
  <2>5. QED
    BY <2>3, <2>4
<1>7. QED
  BY <1>5, <1>6 DEF CInv

\* What is committed is the price that was validated, and no other process is
\* recording a payment then.
LEMMA CommitRecords ==
  ASSUME IInv, IInv', PInv, PInv', CInv, NEW p \in Procs, Commit(p)
  PROVE  CInv'
<1> DEFINE old == proc[p]
<1>1. /\ old \in ProcStates /\ ProcInv(p, old, remote, sessionLock, credits)
      /\ credits' = [s \in Sessions |->
                       IF s \in old.paid THEN credits[s] + 1 ELSE credits[s]]
      /\ status' = OrderOf(p).status /\ price' = OrderOf(p).price
      /\ proc' = [proc EXCEPT ![p] = Idle]
      /\ row' = [s \in Sessions |-> RowOf(p, s)]
      /\ UNCHANGED amount
  BY Doing DEF Commit, End, gateway
<1>2. \A q \in Procs \ {p} : proc'[q] = proc[q]
  BY <1>1, ProcType
<1>3. proc'[p] = Idle /\ \A s \in Sessions : ~Recording(Idle, s)
  BY <1>1, ProcType DEF Recording, Idle
<1>4. \A s \in Sessions : row[s] # NoRow => row'[s] # NoRow
  BY <1>1 DEF RowOf
<1>5. CASE old.paid = {}
  <2>1. credits' = credits
    BY <1>1, <1>5 DEF IInv, TypeOK
  <2>2. status' = status /\ price' = price
    BY <1>1, <1>5 DEF OrderOf
  <2>3. CreditCoversPrice'
    BY <1>1, <2>1, <2>2 DEF CInv, CreditCoversPrice
  <2>4. ASSUME NEW q \in Procs
        PROVE  RecordInv(proc'[q], row', credits', amount')
    BY <1>1, <1>2, <1>3, <1>4, <2>1 DEF CInv, RecordInv
  <2>5. QED
    BY <2>3, <2>4 DEF CInv
<1>6. CASE old.paid # {}
  <2>1. PICK s \in Sessions : s \in old.paid
    BY <1>1, <1>6 DEF ProcStates
  <2>2. /\ \A t \in Sessions : credits[t] = 0
        /\ CanBePaid(s) /\ sessionLock[s] = p
    BY <2>1, RecordingKnows DEF Recording
  <2>3. \A t \in Sessions : t \in old.paid => amount[t] >= old.order.price
    BY RecordingKnows DEF Recording
  <2>4. OrderOf(p) = old.order
    BY <1>6 DEF OrderOf
  <2>5. CreditCoversPrice'
    BY <1>1, <2>2, <2>3, <2>4 DEF CreditCoversPrice
  <2>6. ASSUME NEW q \in Procs \ {p}, NEW t \in Sessions, Recording(proc[q], t)
        PROVE  FALSE
    <3>1. CanBePaid(t) /\ sessionLock[t] = q
      BY <2>6, RecordingKnows
    <3>2. s = t
      BY <2>2, <3>1 DEF PInv
    <3>3. QED
      BY <2>2, <3>1, <3>2
  <2>7. \A q \in Procs : RecordInv(proc'[q], row', credits', amount')
    BY <1>2, <1>3, <2>6 DEF RecordInv
  <2>8. QED
    BY <2>5, <2>7 DEF CInv
<1>7. QED
  BY <1>5, <1>6

\* The rest of the world pays an order only if nothing is on record yet, and
\* cannot touch the price of a paid one.
LEMMA WorldRecords ==
  ASSUME IInv, CInv,
         \/ \E s \in Sessions : Pay(s)
         \/ UpdateOrder \/ UpdateVat \/ UNCHANGED vars
  PROVE  CInv'
<1>1. UNCHANGED <<row, credits, amount, proc>>
  BY DEF Pay, UpdateOrder, UpdateVat, vars, gateway
<1>2. (\A p \in Procs : RecordInv(proc[p], row, credits, amount))'
  BY <1>1 DEF CInv
<1>3. status' = PAID => \/ status = PAID /\ price' = price
                        \/ status = ACCEPTED
  BY LifecycleStatus DEF Pay, UpdateOrder, UpdateVat, vars, orderVars, Lifecycle!Next,
     Lifecycle!GenerateQuote, Lifecycle!Reopen, Lifecycle!AcceptQuote,
     Lifecycle!MarkAsPaid, Lifecycle!Deliver, Lifecycle!Cancel,
     DRAFT, AWAITING, ACCEPTED, PAID, COMPLETE, CANCELLED
<1>4. status = ACCEPTED => \A s \in Sessions : credits[s] = 0
  BY NothingCredited
<1>5. CreditCoversPrice'
  BY <1>1, <1>3, <1>4 DEF CInv, CreditCoversPrice
<1>6. QED
  BY <1>2, <1>5 DEF CInv

LEMMA StepRecords ==
  ASSUME IInv, IInv', PInv, PInv', CInv, [Next]_vars
  PROVE  CInv'
<1>1. ASSUME NEW p \in Procs, Advance(p)
      PROVE  CInv'
  BY <1>1, QuietRecords, ReadOrderRecords, CreditRecords, CreatePaymentRecords,
     CommitRecords DEF Advance
<1>2. ASSUME NEW p \in Procs, Abort(p)
      PROVE  CInv'
  BY <1>2, RollbackRecords DEF Abort
<1>3. ASSUME NEW p \in Procs, Create(p) \/ \E s \in Sessions : View(p, s) \/ RunJob(p, s)
      PROVE  CInv'
  BY <1>3, QuietRecords
<1>4. QED
  BY <1>1, <1>2, <1>3, WorldRecords DEF Next, Procs

LEMMA InitRecords == Init => CInv
<1> SUFFICES ASSUME Init PROVE CInv
  OBVIOUS
<1>1. \A p \in Procs : proc[p].paid = {} /\ proc[p].pc = "idle"
  BY DEF Init, Idle
<1>2. \A s \in Sessions : credits[s] = 0
  BY DEF Init
<1>3. QED
  BY <1>1, <1>2 DEF CInv, RecordInv, Recording, CreditCoversPrice

\* However many processes learn of payments, and whatever happens to the price
\* meanwhile, an order paid by card shows a price that its card payment covers
\* (omis/payment/validators.py:14-21).
THEOREM CreditsCoverPrice == Spec => []CreditCoversPrice
<1>1. IInv /\ IInv' /\ PInv /\ PInv' /\ CInv /\ [Next]_vars => CInv'
  BY StepRecords
<1>2. Spec => []CInv
  BY <1>1, InitRecords, Invariance, Payability, PTL DEF Spec
<1>3. CInv => CreditCoversPrice
  BY DEF CInv
<1>4. QED
  BY <1>2, <1>3, PTL

-----------------------------------------------------------------------------
(* Transactions that refresh sessions wait for each other, but in circles  *)
(* only if two creators take part.                                         *)
(*                                                                         *)
(* A view or a job that waits and is waited for has the lock of the session *)
(* whose success it is recording.  A creator that has the order waits for  *)
(* sessions it has cancelled, which cannot have succeeded.                 *)

\* What process p, in the state st, holds of the sessions, lock, and of the
\* order, olock, given the GOV.UK payments rem.
HoldInv(p, st, rem, lock, olock) ==
  /\ st.pc = "idle" => st.then = "commit" /\ olock # p /\ \A s \in Sessions : lock[s] # p
  /\ p \in Viewers \cup Jobs =>
       /\ st.pc \in {"idle", "fetch", "save", "order", "credit", "commit"}
       /\ st.then = "commit"
       /\ \A s \in Sessions : lock[s] = p => s = st.session
       /\ olock = p => st.pc = "commit"
  /\ p \in Viewers /\ st.pc \in {"fetch", "save"} => \A s \in Sessions : lock[s] # p
  /\ p \in Jobs /\ st.pc \in {"fetch", "save"} => lock[st.session] = p
  /\ p \in Creators =>
       /\ st.pc = "lock" => olock # p
       /\ st.pc \in {"fetch", "save", "order", "credit"} => st.then # "commit"
       /\ st.pc \in {"lock", "refresh"} => st.then = "refresh"
       /\ st.pc = "cancel" => st.then = "cancel"
       /\ st.then = "refresh" /\ st.pc # "lock" => \A s \in st.todo : lock[s] = p
       /\ st.pc \in {"fetch", "save"} /\ st.then = "refresh" => lock[st.session] = p
       /\ st.pc \in {"fetch", "save"} /\ st.then = "cancel" => rem[st.session] = "cancelled"

HInv == \A p \in Procs : HoldInv(p, proc[p], remote, sessionLock, orderLock)

\* What a process holds survives what the others do: they take no lock of its,
\* leave it none of theirs, and nothing brings a cancelled payment back.
LEMMA OthersHold ==
  ASSUME NEW p, NEW st \in ProcStates, NEW rem, NEW rem2, NEW lock, NEW lock2,
         NEW olock, NEW olock2,
         HoldInv(p, st, rem, lock, olock),
         st.pc \in {"fetch", "save"} => st.session \in Sessions,
         \A s \in Sessions : rem[s] = "cancelled" => rem2[s] = "cancelled",
         \A s \in Sessions : lock2[s] = p <=> lock[s] = p,
         olock2 = p <=> olock = p
  PROVE  HoldInv(p, st, rem2, lock2, olock2)
<1>1. st.todo \subseteq Sessions
  BY DEF ProcStates
<1>2. QED
  BY <1>1 DEF HoldInv

\* One process moves.
LEMMA OneHolds ==
  ASSUME IInv, HInv, NEW p \in Procs, NEW st, proc' = [proc EXCEPT ![p] = st],
         HoldInv(p, st, remote', sessionLock', orderLock'),
         \A s \in Sessions : remote[s] = "cancelled" => remote'[s] = "cancelled",
         \A q \in Procs \ {p}, s \in Sessions : sessionLock'[s] = q <=> sessionLock[s] = q,
         \A q \in Procs \ {p} : orderLock' = q <=> orderLock = q
  PROVE  HInv'
<1> SUFFICES ASSUME NEW q \in Procs
             PROVE  HoldInv(q, proc'[q], remote', sessionLock', orderLock')
  BY DEF HInv
<1>1. CASE q = p
  BY <1>1, ProcType
<1>2. CASE q # p
  <2>1. proc'[q] = proc[q]
    BY <1>2, ProcType
  <2>2. /\ HoldInv(q, proc[q], remote, sessionLock, orderLock)
        /\ proc[q] \in ProcStates
        /\ proc[q].pc \in {"fetch", "save"} => proc[q].session \in Sessions
    BY Doing DEF HInv, ProcInv
  <2>3. HoldInv(q, proc[q], remote', sessionLock', orderLock')
    BY <1>2, <2>2, OthersHold
  <2>4. QED
    BY <2>1, <2>3
<1>3. QED
  BY <1>1, <1>2

LEMMA StepHolds ==
  ASSUME IInv, HInv, NEW p \in Procs, NEW st, Step(p, st),
         HoldInv(p, st, remote, sessionLock, orderLock)
  PROVE  HInv'
<1>1. /\ proc' = [proc EXCEPT ![p] = st]
      /\ UNCHANGED <<remote, sessionLock, orderLock>>
  BY DEF Step, gateway, locks
<1>2. HoldInv(p, st, remote', sessionLock', orderLock')
  BY <1>1
<1>3. QED
  BY <1>1, <1>2, OneHolds

\* A transaction that ends holds nothing.
LEMMA EndHolds ==
  ASSUME IInv, HInv, NEW p \in Procs, End(p), UNCHANGED remote
  PROVE  HInv'
<1>1. /\ proc' = [proc EXCEPT ![p] = Idle]
      /\ orderLock' # p
      /\ \A s \in Sessions : sessionLock'[s] # p
      /\ \A q \in Procs \ {p}, s \in Sessions : sessionLock'[s] = q <=> sessionLock[s] = q
      /\ \A q \in Procs \ {p} : orderLock' = q <=> orderLock = q
  BY GatewayAssumption DEF End
<1>2. Idle.pc = "idle" /\ Idle.then = "commit"
  BY DEF Idle
<1>3. HoldInv(p, Idle, remote', sessionLock', orderLock')
  BY <1>1, <1>2 DEF HoldInv
<1>4. QED
  BY <1>1, <1>3, OneHolds

\* Who a process is, what it holds and where it works.
LEMMA Holding ==
  ASSUME IInv, HInv, NEW p \in Procs
  PROVE  /\ proc[p] \in ProcStates
         /\ HoldInv(p, proc[p], remote, sessionLock, orderLock)
         /\ proc[p].pc \in {"fetch", "save", "order", "credit"} =>
              proc[p].session \in Sessions
         /\ p \in Creators <=> p \notin Viewers \cup Jobs
         /\ p \in Jobs => p \notin Viewers
  BY Doing, GatewayAssumption DEF HInv, ProcInv, Procs

LEMMA StartHolds ==
  ASSUME IInv, HInv, NEW p \in Procs,
         \/ p \in Viewers /\ \E s \in Sessions : View(p, s)
         \/ p \in Jobs /\ \E s \in Sessions : RunJob(p, s)
         \/ p \in Creators /\ Create(p)
  PROVE  HInv'
<1>1. /\ proc[p].pc = "idle"
      /\ orderLock # p /\ \A s \in Sessions : sessionLock[s] # p
  BY Holding DEF View, RunJob, Create, HoldInv
<1>2. ASSUME p \in Viewers, NEW s \in Sessions, View(p, s)
      PROVE  HInv'
  <2> DEFINE st == [Idle EXCEPT !.pc = "fetch", !.session = s, !.copy = row[s]]
  <2>1. Step(p, st)
    BY <1>2 DEF View
  <2>2. st.pc = "fetch" /\ st.then = "commit"
    BY DEF Idle
  <2> HIDE DEF st
  <2>3. HoldInv(p, st, remote, sessionLock, orderLock)
    BY <1>1, <1>2, <2>2, Holding DEF HoldInv
  <2>4. QED
    BY <2>1, <2>3, StepHolds
<1>3. ASSUME p \in Jobs, NEW s \in Sessions, RunJob(p, s)
      PROVE  HInv'
  <2> DEFINE st == [Idle EXCEPT !.pc = "fetch", !.session = s, !.copy = row[s]]
  <2>1. /\ proc' = [proc EXCEPT ![p] = st]
        /\ sessionLock[s] = Nobody
        /\ sessionLock' = [sessionLock EXCEPT ![s] = p]
        /\ UNCHANGED <<remote, orderLock>>
    BY <1>3 DEF RunJob, gateway
  <2>2. st.pc = "fetch" /\ st.then = "commit" /\ st.session = s
    BY DEF Idle
  <2>3. /\ sessionLock'[s] = p
        /\ \A t \in Sessions \ {s} : sessionLock'[t] = sessionLock[t]
    BY <2>1 DEF IInv, TypeOK
  <2> HIDE DEF st
  <2>4. HoldInv(p, st, remote', sessionLock', orderLock')
    BY <1>1, <1>3, <2>1, <2>2, <2>3, Holding DEF HoldInv
  <2>5. \A q \in Procs \ {p}, t \in Sessions : sessionLock'[t] = q <=> sessionLock[t] = q
    BY <2>1, <2>3, GatewayAssumption
  <2>6. QED
    BY <2>1, <2>4, <2>5, OneHolds
<1>4. ASSUME p \in Creators, Create(p)
      PROVE  HInv'
  <2> DEFINE st == [Idle EXCEPT !.pc = "lock", !.todo = Ongoing(p), !.then = "refresh"]
  <2>1. Step(p, st)
    BY <1>4 DEF Create
  <2>2. st.pc = "lock" /\ st.then = "refresh"
    BY DEF Idle
  <2> HIDE DEF st
  <2>3. HoldInv(p, st, remote, sessionLock, orderLock)
    BY <1>1, <1>4, <2>2, Holding DEF HoldInv
  <2>4. QED
    BY <2>1, <2>3, StepHolds
<1>5. QED
  BY <1>2, <1>3, <1>4

LEMMA FetchHolds ==
  ASSUME IInv, HInv, NEW p \in Procs, Fetch(p)
  PROVE  HInv'
<1> DEFINE old == proc[p]
           new == remote[old.session]
           st == IF new = old.copy THEN [old EXCEPT !.pc = old.then]
                 ELSE [old EXCEPT !.pc = "save", !.seen = new]
<1>1. /\ old \in ProcStates /\ HoldInv(p, old, remote, sessionLock, orderLock)
      /\ p \in Creators <=> p \notin Viewers \cup Jobs
      /\ old.pc = "fetch" /\ Step(p, st)
  BY Holding DEF Fetch
<1> HIDE DEF old, new
<1>2. /\ st.session = old.session /\ st.then = old.then /\ st.todo = old.todo
      /\ st.pc = old.then \/ st.pc = "save"
      /\ old.then \in {"commit", "refresh", "cancel"}
  BY <1>1 DEF ProcStates
<1> HIDE DEF st
<1>3. HoldInv(p, st, remote, sessionLock, orderLock)
  BY <1>1, <1>2 DEF HoldInv
<1>4. QED
  BY <1>1, <1>3, StepHolds

LEMMA SaveHolds ==
  ASSUME IInv, HInv, NEW p \in Procs, Save(p)
  PROVE  HInv'
<1> DEFINE old == proc[p]
           s == old.session
           next == IF old.seen = "success" THEN "order" ELSE old.then
           st == [old EXCEPT !.saved[s] = old.seen, !.pc = next]
<1>1. /\ old \in ProcStates /\ HoldInv(p, old, remote, sessionLock, orderLock)
      /\ p \in Creators <=> p \notin Viewers \cup Jobs
      /\ old.pc = "save" /\ s \in Sessions /\ Free(sessionLock[s], p)
      /\ UNCHANGED <<remote, orderLock>>
      /\ sessionLock' = [sessionLock EXCEPT ![s] = p]
  BY Holding DEF Save, gateway
<1>2. proc' = [proc EXCEPT ![p] = st]
  BY ProcType DEF Save, ProcStates
<1>3. /\ sessionLock'[s] = p
      /\ \A t \in Sessions \ {s} : sessionLock'[t] = sessionLock[t]
  BY <1>1 DEF IInv, TypeOK
<1>4. s = old.session
  OBVIOUS
<1> HIDE DEF old
<1>5. /\ st.session = s /\ st.then = old.then /\ st.todo = old.todo /\ st.pc = next
      /\ next = old.then \/ next = "order"
      /\ old.then \in {"commit", "refresh", "cancel"}
      /\ old.todo \subseteq Sessions
  BY <1>1 DEF ProcStates
<1> HIDE DEF st, s, next
<1>6. HoldInv(p, st, remote', sessionLock', orderLock')
  BY <1>1, <1>3, <1>4, <1>5 DEF HoldInv
<1>7. \A q \in Procs \ {p}, t \in Sessions : sessionLock'[t] = q <=> sessionLock[t] = q
  BY <1>1, <1>3, GatewayAssumption DEF Free
<1>8. QED
  BY <1>1, <1>2, <1>6, <1>7, OneHolds

LEMMA RollbackHolds ==
  ASSUME IInv, HInv, NEW p \in Procs, Rollback(p)
  PROVE  HInv'
  BY EndHolds DEF Rollback, gateway

LEMMA ReadOrderHolds ==
  ASSUME IInv, HInv, NEW p \in Procs, ReadOrder(p)
  PROVE  HInv'
<1> DEFINE old == proc[p]
           go == [old EXCEPT !.pc = "credit", !.order = OrderOf(p)]
           stop == [old EXCEPT !.pc = "commit", !.saved[old.session] = NoRow]
<1>1. /\ old \in ProcStates /\ HoldInv(p, old, remote, sessionLock, orderLock)
      /\ old.pc = "order"
      /\ Step(p, go) \/ Step(p, stop) \/ Rollback(p)
  BY Holding DEF ReadOrder
<1>2. CASE Step(p, go)
  <2>1. /\ go.session = old.session /\ go.then = old.then /\ go.todo = old.todo
        /\ go.pc = "credit"
    BY <1>1 DEF ProcStates
  <2> HIDE DEF go
  <2>2. HoldInv(p, go, remote, sessionLock, orderLock)
    BY <1>1, <2>1 DEF HoldInv
  <2>3. QED
    BY <1>2, <2>2, StepHolds
<1>3. CASE Step(p, stop)
  <2>1. /\ stop.session = old.session /\ stop.then = old.then /\ stop.todo = old.todo
        /\ stop.pc = "commit"
    BY <1>1 DEF ProcStates
  <2> HIDE DEF stop
  <2>2. HoldInv(p, stop, remote, sessionLock, orderLock)
    BY <1>1, <2>1 DEF HoldInv
  <2>3. QED
    BY <1>3, <2>2, StepHolds
<1>4. QED
  BY <1>1, <1>2, <1>3, RollbackHolds

LEMMA CreditHolds ==
  ASSUME IInv, HInv, NEW p \in Procs, Credit(p)
  PROVE  HInv'
<1> DEFINE old == proc[p]
           st == [old EXCEPT !.paid = @ \cup {old.session}, !.order.status = PAID,
                             !.pc = old.then]
<1>1. /\ old \in ProcStates /\ HoldInv(p, old, remote, sessionLock, orderLock)
      /\ p \in Creators <=> p \notin Viewers \cup Jobs
      /\ old.pc = "credit" /\ Free(orderLock, p) /\ orderLock' = p
      /\ UNCHANGED <<remote, sessionLock>>
  BY Holding DEF Credit, gateway
<1>2. proc' = [proc EXCEPT ![p] = st]
  BY ProcType DEF Credit, ProcStates
<1> HIDE DEF old
<1>3. /\ st.session = old.session /\ st.then = old.then /\ st.todo = old.todo
      /\ st.pc = old.then
      /\ old.then \in {"commit", "refresh", "cancel"}
  BY <1>1 DEF ProcStates
<1> HIDE DEF st
<1>4. HoldInv(p, st, remote', sessionLock', orderLock')
  BY <1>1, <1>3 DEF HoldInv
<1>5. \A q \in Procs \ {p} : orderLock' = q <=> orderLock = q
  BY <1>1, GatewayAssumption DEF Free
<1>6. QED
  BY <1>1, <1>2, <1>4, <1>5, OneHolds

\* The creator's own steps.
LEMMA LockSessionHolds ==
  ASSUME IInv, HInv, NEW p \in Procs, NEW s \in Sessions, LockSession(p, s)
  PROVE  HInv'
<1> DEFINE old == proc[p]
           st == [old EXCEPT !.todo = @ \ {s}]
<1>1. /\ old \in ProcStates /\ HoldInv(p, old, remote, sessionLock, orderLock)
      /\ p \in Creators <=> p \notin Viewers \cup Jobs
      /\ old.pc = "lock" /\ sessionLock[s] = Nobody
      /\ \/ sessionLock' = [sessionLock EXCEPT ![s] = p]
         \/ sessionLock' = sessionLock
      /\ UNCHANGED <<remote, orderLock>>
  BY Holding DEF LockSession, gateway
<1>2. proc' = [proc EXCEPT ![p] = st]
  BY ProcType DEF LockSession, ProcStates
<1> HIDE DEF old
<1>3. st.then = old.then /\ st.pc = "lock"
  BY <1>1 DEF ProcStates
<1> HIDE DEF st
<1>4. p \in Creators /\ p \notin Viewers \cup Jobs
  BY <1>1 DEF HoldInv
<1>5. HoldInv(p, st, remote', sessionLock', orderLock')
  BY <1>1, <1>3, <1>4 DEF HoldInv
<1>6. \A q \in Procs \ {p}, t \in Sessions : sessionLock'[t] = q <=> sessionLock[t] = q
  BY <1>1, GatewayAssumption DEF IInv, TypeOK
<1>7. QED
  BY <1>1, <1>2, <1>5, <1>6, OneHolds

LEMMA SessionsLockedHolds ==
  ASSUME IInv, HInv, NEW p \in Procs, SessionsLocked(p)
  PROVE  HInv'
<1> DEFINE old == proc[p]
           locked == {s \in Sessions : sessionLock[s] = p}
           st == [old EXCEPT !.pc = "refresh", !.todo = locked]
<1>1. /\ old \in ProcStates /\ HoldInv(p, old, remote, sessionLock, orderLock)
      /\ p \in Creators <=> p \notin Viewers \cup Jobs
      /\ old.pc = "lock" /\ Step(p, st)
  BY Holding DEF SessionsLocked
<1>2. \A s \in locked : sessionLock[s] = p
  OBVIOUS
<1> HIDE DEF old, locked
<1>3. st.then = old.then /\ st.pc = "refresh" /\ st.todo = locked
  BY <1>1 DEF ProcStates
<1> HIDE DEF st
<1>4. p \in Creators /\ p \notin Viewers \cup Jobs
  BY <1>1 DEF HoldInv
<1>5. HoldInv(p, st, remote, sessionLock, orderLock)
  BY <1>1, <1>2, <1>3, <1>4 DEF HoldInv
<1>6. QED
  BY <1>1, <1>5, StepHolds

LEMMA RefreshSessionHolds ==
  ASSUME IInv, HInv, NEW p \in Procs, NEW s \in Sessions, RefreshSession(p, s)
  PROVE  HInv'
<1> DEFINE old == proc[p]
           copy == RowOf(p, s)
           st == [old EXCEPT !.pc = "fetch", !.todo = @ \ {s}, !.session = s,
                             !.copy = copy]
<1>1. /\ old \in ProcStates /\ HoldInv(p, old, remote, sessionLock, orderLock)
      /\ p \in Creators <=> p \notin Viewers \cup Jobs
      /\ old.pc = "refresh" /\ s \in old.todo /\ Step(p, st)
  BY Holding DEF RefreshSession, Latest
<1> HIDE DEF old, copy
<1>2. st.then = old.then /\ st.pc = "fetch" /\ st.todo = old.todo \ {s} /\ st.session = s
  BY <1>1 DEF ProcStates
<1> HIDE DEF st
<1>3. p \in Creators /\ p \notin Viewers \cup Jobs
  BY <1>1 DEF HoldInv
<1>4. HoldInv(p, st, remote, sessionLock, orderLock)
  BY <1>1, <1>2, <1>3 DEF HoldInv
<1>5. QED
  BY <1>1, <1>4, StepHolds

LEMMA ValidateOrderHolds ==
  ASSUME IInv, HInv, NEW p \in Procs, ValidateOrder(p)
  PROVE  HInv'
<1> DEFINE old == proc[p]
           o == OrderOf(p)
           st == IF Payable(o) THEN [old EXCEPT !.pc = "lockOrder", !.order = o]
                 ELSE [old EXCEPT !.pc = "commit"]
<1>1. /\ old \in ProcStates /\ HoldInv(p, old, remote, sessionLock, orderLock)
      /\ p \in Creators <=> p \notin Viewers \cup Jobs
      /\ old.pc = "refresh" /\ old.todo = {} /\ Step(p, st)
  BY Holding DEF ValidateOrder
<1> HIDE DEF old, o
<1>2. st.then = old.then /\ st.pc \in {"lockOrder", "commit"} /\ st.todo = {}
  BY <1>1 DEF ProcStates
<1> HIDE DEF st
<1>3. p \in Creators /\ p \notin Viewers \cup Jobs
  BY <1>1 DEF HoldInv
<1>4. HoldInv(p, st, remote, sessionLock, orderLock)
  BY <1>1, <1>2, <1>3 DEF HoldInv
<1>5. QED
  BY <1>1, <1>4, StepHolds

LEMMA LockOrderHolds ==
  ASSUME IInv, HInv, NEW p \in Procs, LockOrder(p)
  PROVE  HInv'
<1> DEFINE old == proc[p]
           ongoing == Ongoing(p)
           st == [old EXCEPT !.pc = "cancel", !.todo = ongoing, !.then = "cancel"]
<1>1. /\ old \in ProcStates /\ HoldInv(p, old, remote, sessionLock, orderLock)
      /\ p \in Creators <=> p \notin Viewers \cup Jobs
      /\ old.pc = "lockOrder" /\ Free(orderLock, p) /\ orderLock' = p
      /\ proc' = [proc EXCEPT ![p] = st]
      /\ UNCHANGED <<remote, sessionLock>>
  BY Holding DEF LockOrder, gateway
<1> HIDE DEF old, ongoing
<1>2. st.then = "cancel" /\ st.pc = "cancel"
  BY <1>1 DEF ProcStates
<1> HIDE DEF st
<1>3. p \in Creators /\ p \notin Viewers \cup Jobs
  BY <1>1 DEF HoldInv
<1>4. HoldInv(p, st, remote', sessionLock', orderLock')
  BY <1>1, <1>2, <1>3 DEF HoldInv
<1>5. \A q \in Procs \ {p} : orderLock' = q <=> orderLock = q
  BY <1>1, GatewayAssumption DEF Free
<1>6. QED
  BY <1>1, <1>4, <1>5, OneHolds

LEMMA CancelSessionHolds ==
  ASSUME IInv, HInv, NEW p \in Procs, NEW s \in Sessions, CancelSession(p, s)
  PROVE  HInv'
<1> DEFINE old == proc[p]
           copy == RowOf(p, s)
           st == [old EXCEPT !.pc = "fetch", !.todo = @ \ {s}, !.session = s,
                             !.copy = copy]
<1>1. /\ old \in ProcStates /\ HoldInv(p, old, remote, sessionLock, orderLock)
      /\ p \in Creators <=> p \notin Viewers \cup Jobs
      /\ old.pc = "cancel"
      /\ \/ /\ remote' = [remote EXCEPT ![s] = "cancelled"]
            /\ proc' = [proc EXCEPT ![p] = st]
            /\ UNCHANGED <<sessionLock, orderLock>>
         \/ Rollback(p)
  BY Holding DEF CancelSession, locks
<1>2. CASE Rollback(p)
  BY <1>2, RollbackHolds
<1>3. CASE ~Rollback(p)
  <2>1. /\ remote'[s] = "cancelled"
        /\ \A t \in Sessions \ {s} : remote'[t] = remote[t]
    BY <1>1, <1>3 DEF IInv, TypeOK
  <2> HIDE DEF old, copy
  <2>2. st.then = old.then /\ st.pc = "fetch" /\ st.session = s
    BY <1>1 DEF ProcStates
  <2> HIDE DEF st
  <2>3. p \in Creators /\ p \notin Viewers \cup Jobs
    BY <1>1 DEF HoldInv
  <2>4. HoldInv(p, st, remote', sessionLock', orderLock')
    BY <1>1, <1>3, <2>1, <2>2, <2>3 DEF HoldInv
  <2>5. QED
    BY <1>1, <1>3, <2>1, <2>4, OneHolds
<1>4. QED
  BY <1>2, <1>3

LEMMA CreatePaymentHolds ==
  ASSUME IInv, HInv, NEW p \in Procs, NEW s \in Sessions, CreatePayment(p, s)
  PROVE  HInv'
<1> DEFINE old == proc[p]
           st == [old EXCEPT !.saved[s] = NewStatus, !.pc = "commit"]
<1>1. /\ old \in ProcStates /\ HoldInv(p, old, remote, sessionLock, orderLock)
      /\ p \in Creators <=> p \notin Viewers \cup Jobs
      /\ old.pc = "cancel" /\ remote[s] = NoRow
      /\ remote' = [remote EXCEPT ![s] = "created"]
      /\ UNCHANGED <<sessionLock, orderLock>>
  BY Holding DEF CreatePayment, locks
<1>2. proc' = [proc EXCEPT ![p] = st]
  BY ProcType DEF CreatePayment, ProcStates
<1>3. \A t \in Sessions : remote[t] = "cancelled" => remote'[t] = "cancelled"
  BY <1>1 DEF IInv, TypeOK, NoRow
<1> HIDE DEF old
<1>4. st.then = old.then /\ st.pc = "commit" /\ old.then = "cancel"
  BY <1>1 DEF ProcStates, HoldInv
<1> HIDE DEF st
<1>5. p \in Creators /\ p \notin Viewers \cup Jobs
  BY <1>1 DEF HoldInv
<1>6. HoldInv(p, st, remote', sessionLock', orderLock')
  BY <1>1, <1>4, <1>5 DEF HoldInv
<1>7. QED
  BY <1>1, <1>2, <1>3, <1>6, OneHolds

LEMMA WorldHolds ==
  ASSUME IInv, HInv,
         \/ \E s \in Sessions : Pay(s)
         \/ UpdateOrder \/ UpdateVat \/ UNCHANGED vars
  PROVE  HInv'
<1>1. UNCHANGED <<sessionLock, orderLock, proc>>
  BY DEF Pay, UpdateOrder, UpdateVat, vars, locks
<1>2. \A t \in Sessions : remote[t] = "cancelled" => remote'[t] = "cancelled"
  BY DEF Pay, UpdateOrder, UpdateVat, vars, gateway, LaterStatus, IInv, TypeOK
<1>3. ASSUME NEW q \in Procs
      PROVE  HoldInv(q, proc[q], remote', sessionLock, orderLock)
  BY <1>2, Holding, OthersHold
<1>4. QED
  BY <1>1, <1>3 DEF HInv

LEMMA StepKeepsHolds ==
  ASSUME IInv, HInv, [Next]_vars
  PROVE  HInv'
<1>1. ASSUME NEW p \in Procs, Advance(p)
      PROVE  HInv'
  <2>1. CASE Commit(p)
    BY <2>1, EndHolds DEF Commit, gateway
  <2>2. CASE ~Commit(p)
    BY <1>1, <2>2, FetchHolds, SaveHolds, ReadOrderHolds, CreditHolds,
       LockSessionHolds, SessionsLockedHolds, RefreshSessionHolds, ValidateOrderHolds,
       LockOrderHolds, CancelSessionHolds, CreatePaymentHolds DEF Advance
  <2>3. QED
    BY <2>1, <2>2
<1>2. ASSUME NEW p \in Procs, Abort(p)
      PROVE  HInv'
  BY <1>2, RollbackHolds DEF Abort
<1>3. QED
  BY <1>1, <1>2, StartHolds, WorldHolds DEF Next, Procs

LEMMA InitHolds == Init => HInv
<1> SUFFICES ASSUME Init, NEW p \in Procs
             PROVE  HoldInv(p, proc[p], remote, sessionLock, orderLock)
  BY DEF HInv
<1>1. /\ proc[p].pc = "idle" /\ proc[p].then = "commit" /\ orderLock # p
      /\ \A s \in Sessions : sessionLock[s] # p
  BY GatewayAssumption DEF Init, Idle
<1>2. QED
  BY <1>1 DEF HoldInv

\* Who is waited for, and waits.
LEMMA WaitsWhileHolding ==
  ASSUME IInv, HInv, NEW p \in Procs, NEW q \in Procs, WaitsFor(p, q), p \notin Creators
  PROVE  /\ orderLock # p
         /\ \A s \in Sessions : sessionLock[s] = p =>
              s = proc[p].session /\ remote[s] = "success" /\ orderLock = q
<1>1. /\ HoldInv(p, proc[p], remote, sessionLock, orderLock)
      /\ p \in Viewers \cup Jobs
  BY Holding
<1>2. proc[p].pc \in {"save", "credit"}
  BY <1>1 DEF HoldInv, WaitsFor
<1>3. orderLock # p
  BY <1>1, <1>2 DEF HoldInv
<1>4. ASSUME NEW s \in Sessions, sessionLock[s] = p
      PROVE  s = proc[p].session /\ remote[s] = "success" /\ orderLock = q
  <2>1. s = proc[p].session
    BY <1>1, <1>4 DEF HoldInv
  <2>2. proc[p].pc = "credit"
    BY <1>1, <1>2, <1>4, <2>1 DEF HoldInv, WaitsFor
  <2>3. proc[p].saved[s] = "success"
    BY <2>1, <2>2, Doing DEF ProcInv
  <2>4. remote[s] = "success"
    BY <2>3, Doing DEF ProcInv, FinishedStatus
  <2>5. QED
    BY <2>1, <2>2, <2>4 DEF WaitsFor
<1>5. QED
  BY <1>3, <1>4

\* The lock that is waited for.
LEMMA WaitedForHolds ==
  ASSUME IInv, HInv, NEW p \in Procs, NEW q \in Procs, WaitsFor(p, q)
  PROVE  orderLock = q \/ \E s \in Sessions : sessionLock[s] = q
<1>1. /\ proc[p].todo \subseteq Sessions
      /\ proc[p].pc = "save" => proc[p].session \in Sessions
  BY Doing DEF ProcStates, ProcInv
<1>2. QED
  BY <1>1 DEF WaitsFor

\* A circle of waiting transactions has a creator among them ...
LEMMA CycleHasCreator ==
  ASSUME IInv, HInv, NEW P \in WaitCycles
  PROVE  \E c \in P : c \in Creators
<1>1. P \subseteq Procs /\ P # {} /\ \A p \in P : \E q \in P : WaitsFor(p, q)
  BY DEF WaitCycles
<1>2. SUFFICES ASSUME \A c \in P : c \notin Creators
               PROVE  FALSE
  OBVIOUS
<1>3. PICK p \in P, q \in P, r \in P, t \in P :
             WaitsFor(p, q) /\ WaitsFor(q, r) /\ WaitsFor(r, t)
  BY <1>1
<1>4. orderLock # q /\ orderLock # r
  BY <1>1, <1>2, <1>3, WaitsWhileHolding
<1>5. PICK s \in Sessions : sessionLock[s] = q
  BY <1>1, <1>3, <1>4, WaitedForHolds
<1>6. orderLock = r
  BY <1>1, <1>2, <1>3, <1>5, WaitsWhileHolding
<1>7. QED
  BY <1>4, <1>6

\* ... and it waits, itself or through a view or a job, for another one.
LEMMA CycleHasTwoCreators ==
  ASSUME IInv, HInv, NEW P \in WaitCycles
  PROVE  \E c, d \in P \cap Creators : c # d
<1>1. P \subseteq Procs /\ \A p \in P : \E q \in P : WaitsFor(p, q)
  BY DEF WaitCycles
<1>2. PICK c \in P : c \in Creators
  BY CycleHasCreator
<1>3. PICK d \in P, e \in P, f \in P : WaitsFor(c, d) /\ WaitsFor(d, e) /\ WaitsFor(e, f)
  BY <1>1, <1>2
<1>4. c # d
  BY <1>3 DEF WaitsFor
<1>5. CASE d \in Creators
  BY <1>2, <1>4, <1>5
<1>6. CASE d \notin Creators
  <2>1. /\ orderLock # d
        /\ \A s \in Sessions : sessionLock[s] = d => remote[s] = "success" /\ orderLock = e
    BY <1>1, <1>3, <1>6, WaitsWhileHolding
  <2>2. PICK s \in Sessions : sessionLock[s] = d
    BY <1>1, <1>3, <2>1, WaitedForHolds
  <2>3. orderLock = e
    BY <2>1, <2>2
  <2>4. e \in Creators
    BY <1>1, <1>3, <2>3, WaitsWhileHolding
  <2>5. HoldInv(c, proc[c], remote, sessionLock, orderLock) /\ proc[c] \in ProcStates
    BY <1>1, <1>2, Holding
  <2>6. CASE proc[c].pc = "lock"
    <3>1. c # e
      BY <1>2, <2>3, <2>5, <2>6 DEF HoldInv
    <3>2. QED
      BY <1>2, <2>4, <3>1
  <2>7. CASE proc[c].pc = "save"
    <3>1. /\ sessionLock[proc[c].session] = d /\ proc[c].session \in Sessions
      BY <1>1, <1>2, <1>3, <2>7, Holding DEF WaitsFor
    <3>2. remote[proc[c].session] = "success"
      BY <2>1, <3>1
    <3>3. proc[c].then \in {"refresh", "cancel"}
      BY <1>2, <2>5, <2>7 DEF HoldInv, ProcStates
    <3>4. QED
      BY <1>2, <1>4, <2>5, <2>7, <3>1, <3>2, <3>3 DEF HoldInv
  <2>8. CASE proc[c].pc \in {"credit", "lockOrder"}
    BY <1>3, <2>1, <2>8 DEF WaitsFor
  <2>9. QED
    BY <1>3, <2>6, <2>7, <2>8 DEF WaitsFor
<1>7. QED
  BY <1>5, <1>6

\* Views, jobs and a single creator never wait for each other in a circle,
\* although they take the sessions and the order in different orders
\* (omis/payment/managers.py:25-40, omis/payment/tasks.py:40-43).
THEOREM RefreshDoesNotDeadlock == Spec => []RefreshCannotDeadlock
<1>1. IInv /\ HInv /\ [Next]_vars => HInv'
  BY StepKeepsHolds
<1>2. Spec => []HInv
  BY <1>1, InitHolds, Invariance, PTL DEF Spec
<1>3. IInv /\ HInv => RefreshCannotDeadlock
  <2> SUFFICES ASSUME IInv, HInv, NEW P \in WaitCycles
               PROVE  Cardinality(P \cap Creators) > 1
    BY DEF RefreshCannotDeadlock
  <2>1. PICK c, d \in P \cap Creators : c # d
    BY CycleHasTwoCreators
  <2>2. IsFiniteSet(P \cap Creators) /\ IsFiniteSet({c})
    BY GatewayAssumption, FS_Subset, FS_Singleton
  <2>3. Cardinality({c}) = 1
    BY FS_Singleton, Zenon
  <2>4. /\ {c} \in SUBSET (P \cap Creators) /\ {c} # P \cap Creators
    BY <2>1
  <2>5. Cardinality({c}) <= Cardinality(P \cap Creators)
        /\ Cardinality({c}) # Cardinality(P \cap Creators)
    BY <2>2, <2>4, FS_Subset
  <2>6. Cardinality(P \cap Creators) \in Nat
    BY <2>2, FS_CardinalityType
  <2>7. QED
    BY <2>3, <2>5, <2>6
<1>4. QED
  BY <1>2, <1>3, Invariance, PTL

=============================================================================
