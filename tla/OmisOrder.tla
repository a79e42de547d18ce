----------------------------- MODULE OmisOrder ------------------------------
(***************************************************************************)
(* One OMIS order and the requests that work on it at the same time.       *)
(*                                                                         *)
(* The order row, its quotes, invoices and payments live in PostgreSQL at  *)
(* READ COMMITTED.  ATOMIC_REQUESTS makes each request one transaction,    *)
(* which goes through three steps here:                                    *)
(*   Load   get_object(), an unlocked SELECT of the order row;             *)
(*   Read   the rows the handler follows from it: the quote of the loaded  *)
(*          order and the time of the assignees;                           *)
(*   the handler itself, which validates the copies it holds, writes every *)
(*          column of the row from them (Model.save) and commits.          *)
(* A row lock is held from a transaction's first UPDATE to its commit, so  *)
(* the writes of a transaction are one step; the time between the reads    *)
(* and the writes is what concurrent requests can slip into.               *)
(*                                                                         *)
(* With one element in Requests the requests run one after the other.      *)
(***************************************************************************)
EXTENDS Naturals, Sequences, OmisConstants

CONSTANTS Requests,       \* the request slots of the web workers
          Rate,           \* price of a unit of time, without VAT
          VatRate,        \* VAT on a unit of time
          Vats,           \* VAT statuses an order may have, among VatStates
          Estimates,      \* estimated times the advisers may enter
          Amounts,        \* sums of money clients may hand over
          MaxQuotes, MaxInvoices, MaxPayments  \* bounds on the rows created

\* VAT of the order: not filled in, to be charged, or exempt.
VatStates == {"unset", "charged", "exempt"}

ASSUME OrderAssumption ==
  /\ Rate \in Nat \ {0}
  /\ VatRate \in Nat
  /\ "unset" \in Vats /\ Vats \subseteq VatStates
  /\ 0 \in Estimates /\ Estimates \subseteq Nat
  /\ Amounts \subseteq Nat
  /\ MaxQuotes \in Nat /\ MaxInvoices \in Nat /\ MaxPayments \in Nat

VARIABLES order,     \* the row of the order
          quotes,    \* the quote rows, by age; order.quote is an index
          invoices,  \* the invoice rows, by age; order.invoice is an index
          payments,  \* what each mark_as_paid recorded, the sum of its list
          work,      \* the assignees' times: their estimate, all actual times in
          view       \* what each request has read so far

vars == <<order, quotes, invoices, payments, work, view>>

Orders == [status : OrderStatus, quote : Nat, invoice : Nat, vat : Vats,
           subtotal : Nat, total : Nat,
           paid_on : BOOLEAN, completed_on : BOOLEAN, cancelled_on : BOOLEAN]
Quotes == [price : Nat, cancelled_on : BOOLEAN, accepted_on : BOOLEAN]
Invoices == [vat : Vats, total : Nat]
Works == [estimated : Estimates, recorded : BOOLEAN]

\* No row: the null of order.quote and of order.invoice.
None == 0

-----------------------------------------------------------------------------
(* Pricing *)

\* The subtotal quoted to the client; zero as long as the VAT is missing.
Subtotal(vat, time) == IF vat = "unset" THEN 0 ELSE Rate * time

Total(vat, time) ==
  Subtotal(vat, time) + (IF vat = "charged" THEN VatRate * time ELSE 0)

\* Mutant: the total is not recalculated.
RepriceForgetsTotal(o, time) == [o EXCEPT !.subtotal = Subtotal(o.vat, time)]

\* The pre_save signal: every save recalculates the price columns.
Reprice(o, time) == [o EXCEPT !.subtotal = Subtotal(o.vat, time),
                              !.total = Total(o.vat, time)]

-----------------------------------------------------------------------------
(* A request reads *)

NewOrder(vat) ==
  [status |-> DRAFT, quote |-> None, invoice |-> None, vat |-> vat,
   subtotal |-> 0, total |-> 0,
   paid_on |-> FALSE, completed_on |-> FALSE, cancelled_on |-> FALSE]

NoQuote == [price |-> 0, cancelled_on |-> FALSE, accepted_on |-> FALSE]

NoWork == [estimated |-> 0, recorded |-> TRUE]

Idle == [phase |-> "idle", order |-> NewOrder("unset"),
         quote |-> NoQuote, work |-> NoWork]

Views == [phase : {"idle", "loaded", "ready"},
          order : Orders, quote : Quotes, work : Works]

QuoteOf(o) == IF o.quote = None THEN NoQuote ELSE quotes[o.quote]

\* The request starts and selects the order, without a lock.
Load(r) ==
  /\ view[r].phase = "idle"
  /\ view' = [view EXCEPT ![r].phase = "loaded", ![r].order = order]
  /\ UNCHANGED <<order, quotes, invoices, payments, work>>

\* It follows the loaded order to its quote and its assignees.
Read(r) ==
  /\ view[r].phase = "loaded"
  /\ view' = [view EXCEPT ![r].phase = "ready",
                          ![r].quote = QuoteOf(view[r].order),
                          ![r].work = work]
  /\ UNCHANGED <<order, quotes, invoices, payments, work>>

\* A validator refuses the request: an error response, nothing is written.
Reject(r) ==
  /\ view[r].phase # "idle"
  /\ view' = [view EXCEPT ![r] = Idle]
  /\ UNCHANGED <<order, quotes, invoices, payments, work>>

\* Mutant: save(update_fields=...) that leaves the dates as the row has them.
SaveForgetsDates(r, o) ==
  /\ order' = [Reprice(o, view[r].work.estimated) EXCEPT
                 !.paid_on = order.paid_on,
                 !.completed_on = order.completed_on,
                 !.cancelled_on = order.cancelled_on]
  /\ view' = [view EXCEPT ![r] = Idle]

\* Order.save(): the whole row is written from the copy o, and the request ends.
Save(r, o) ==
  /\ order' = Reprice(o, view[r].work.estimated)
  /\ view' = [view EXCEPT ![r] = Idle]

-----------------------------------------------------------------------------
(* Validators, on the copies the request holds *)

\* OrderDetailsFilledIn: VAT and estimated time decide the price; the other
\* details are taken as filled in.
DetailsFilledIn(v) == v.order.vat # "unset" /\ v.work.estimated > 0

NoOtherActiveQuote(v) == v.order.quote # None => v.quote.cancelled_on

\* The invoice-related fields can be edited until the order is paid.
InvoiceFieldsEditable(o) == o.status \in {DRAFT, AWAITING, ACCEPTED}

Reopenable(o) == o.status \in {AWAITING, ACCEPTED}

Payable(o) == o.status = ACCEPTED

\* Mutant: the VAT is not asked for.
ReconcilableNet(o, amount) == amount >= o.subtotal

Reconcilable(o, amount) == amount >= o.total

Completable(v) == v.order.status = PAID /\ v.work.recorded

\* Mutant: a complete order can be cancelled too.
CancellableComplete(o, force) ==
  o.status \in {DRAFT, AWAITING} \cup (IF force THEN {ACCEPTED, PAID, COMPLETE} ELSE {})

Cancellable(o, force) ==
  o.status \in {DRAFT, AWAITING} \cup (IF force THEN {ACCEPTED, PAID} ELSE {})

\* Mutant: the estimates stay open while the quote is with the client.
AssigneesEditableSent(o, time, recorded) ==
  /\ o.status \in {DRAFT, AWAITING, ACCEPTED, PAID}
  /\ time # work.estimated => o.status \in {DRAFT, AWAITING}
  /\ recorded => work.recorded \/ o.status = PAID

\* Which times a PATCH of the assignees may leave behind.  Estimates change in
\* draft only.  Actual times are recorded once the order is paid; an order
\* without assignees lacks none; a new assignee has none.
AssigneesEditable(o, time, recorded) ==
  /\ o.status \in {DRAFT, AWAITING, ACCEPTED, PAID}
  /\ time # work.estimated => o.status = DRAFT
  /\ recorded => \/ work.recorded /\ (work.estimated > 0 \/ time = 0)
                 \/ o.status = PAID
                 \/ o.status = DRAFT /\ time = 0

-----------------------------------------------------------------------------
(* The handlers *)

\* Quote.cancel() and Quote.accept() save the copy of the quote they were given.
CancelledQuote(q) == [q EXCEPT !.cancelled_on = TRUE]
AcceptedQuote(q) == [q EXCEPT !.accepted_on = TRUE]

\* POST quote.  The text of the quote shows the subtotal of the loaded order.
GenerateQuote(r) ==
  LET v == view[r] IN
  /\ v.phase = "ready"
  /\ v.order.status = DRAFT
  /\ DetailsFilledIn(v)
  /\ NoOtherActiveQuote(v)
  /\ Len(quotes) < MaxQuotes
  /\ quotes' = Append(quotes, [NoQuote EXCEPT !.price = v.order.subtotal])
  /\ Save(r, [v.order EXCEPT !.status = AWAITING, !.quote = Len(quotes) + 1])
  /\ UNCHANGED <<invoices, payments, work>>

\* Mutant: the order is reopened and its quote forgotten.
ReopenForgetsQuote(r) ==
  /\ view[r].phase = "ready"
  /\ Reopenable(view[r].order)
  /\ Save(r, [view[r].order EXCEPT !.status = DRAFT])
  /\ UNCHANGED <<quotes, invoices, payments, work>>

\* POST quote/cancel: the quote is cancelled and the order is a draft again.
Reopen(r) ==
  LET v == view[r] IN
  /\ v.phase = "ready"
  /\ Reopenable(v.order)
  /\ v.order.quote # None
  /\ quotes' = IF v.quote.cancelled_on THEN quotes
               ELSE [quotes EXCEPT ![v.order.quote] = CancelledQuote(v.quote)]
  /\ Save(r, [v.order EXCEPT !.status = DRAFT])
  /\ UNCHANGED <<invoices, payments, work>>

\* Mutant: the VAT is not copied.
InvoicedNoVat(o, time) == [total |-> Reprice(o, time).total]

\* A new invoice copies the VAT and the total of the order it is for.
Invoiced(o, time) == [vat |-> o.vat, total |-> Reprice(o, time).total]

\* Create an invoice from the copy o and save o, pointing to it.
SaveInvoiced(r, o) ==
  /\ Len(invoices) < MaxInvoices
  /\ invoices' = Append(invoices, Invoiced(o, view[r].work.estimated))
  /\ Save(r, [o EXCEPT !.invoice = Len(invoices) + 1])

\* POST quote/accept, by the client.
AcceptQuote(r) ==
  LET v == view[r] IN
  /\ v.phase = "ready"
  /\ v.order.status = AWAITING
  /\ v.order.quote # None /\ ~v.quote.cancelled_on
  /\ quotes' = IF v.quote.accepted_on THEN quotes
               ELSE [quotes EXCEPT ![v.order.quote] = AcceptedQuote(v.quote)]
  /\ SaveInvoiced(r, [v.order EXCEPT !.status = ACCEPTED])
  /\ UNCHANGED <<payments, work>>

\* Mutant: the invoice of the acceptance is kept.
NeedsNoInvoice(o, invoiceRelated) == FALSE

NeedsInvoice(o, invoiceRelated) == o.status = ACCEPTED /\ invoiceRelated

\* PATCH order, or the admin's form (no invoice field in it): the VAT may
\* change; the rest of the columns is saved as loaded.  An accepted order gets
\* a new invoice when the request names an invoice-related field.
UpdateOrder(r, vat, invoiceRelated) ==
  LET v == view[r]
      o == [v.order EXCEPT !.vat = vat] IN
  /\ v.phase = "ready"
  /\ vat # v.order.vat => invoiceRelated /\ InvoiceFieldsEditable(v.order)
  /\ IF NeedsInvoice(v.order, invoiceRelated)
     THEN SaveInvoiced(r, o)
     ELSE Save(r, o) /\ UNCHANGED invoices
  /\ UNCHANGED <<quotes, payments, work>>

\* Mutant: the signal of OrderAssignee is not connected.
PriceNeverChanges(o, time) == FALSE

\* update_order_pricing(commit=True) saves only when the price has changed.
PriceChanges(o, time) == Reprice(o, time) # o

\* PATCH assignees.  The signal of OrderAssignee saves the order it was given
\* only if that copy's price is no longer right.
UpdateAssignees(r, time, recorded) ==
  LET o == view[r].order IN
  /\ view[r].phase = "ready"
  /\ AssigneesEditable(o, time, recorded)
  /\ work' = [estimated |-> time, recorded |-> recorded]
  /\ order' = IF PriceChanges(o, time) THEN Reprice(o, time) ELSE order
  /\ view' = [view EXCEPT ![r] = Idle]
  /\ UNCHANGED <<quotes, invoices, payments>>

\* POST payments, or a successful card payment: the records and the status.
MarkAsPaid(r, amount) ==
  LET v == view[r] IN
  /\ v.phase = "ready"
  /\ Payable(v.order)
  /\ Reconcilable(v.order, amount)
  /\ Len(payments) < MaxPayments
  /\ payments' = Append(payments, amount)
  /\ Save(r, [v.order EXCEPT !.status = PAID, !.paid_on = TRUE])
  /\ UNCHANGED <<quotes, invoices, work>>

\* POST complete: the work is delivered.
CompleteOrder(r) ==
  LET v == view[r] IN
  /\ v.phase = "ready"
  /\ Completable(v)
  /\ Save(r, [v.order EXCEPT !.status = COMPLETE, !.completed_on = TRUE])
  /\ UNCHANGED <<quotes, invoices, payments, work>>

\* POST cancel; force is the administrator's version.
CancelOrder(r, force) ==
  LET v == view[r] IN
  /\ v.phase = "ready"
  /\ Cancellable(v.order, force)
  /\ Save(r, [v.order EXCEPT !.status = CANCELLED, !.cancelled_on = TRUE])
  /\ UNCHANGED <<quotes, invoices, payments, work>>

-----------------------------------------------------------------------------

Init == /\ order \in {NewOrder(vat) : vat \in Vats}
        /\ quotes = <<>>
        /\ invoices = <<>>
        /\ payments = <<>>
        /\ work = NoWork
        /\ view = [r \in Requests |-> Idle]

Next == \E r \in Requests :
  \/ Load(r)
  \/ Read(r)
  \/ Reject(r)
  \/ GenerateQuote(r)
  \/ Reopen(r)
  \/ AcceptQuote(r)
  \/ \E vat \in Vats, invoiceRelated \in BOOLEAN : UpdateOrder(r, vat, invoiceRelated)
  \/ \E time \in Estimates, recorded \in BOOLEAN : UpdateAssignees(r, time, recorded)
  \/ \E amount \in Amounts : MarkAsPaid(r, amount)
  \/ CompleteOrder(r)
  \/ \E force \in BOOLEAN : CancelOrder(r, force)

Spec == Init /\ [][Next]_vars

-----------------------------------------------------------------------------
(* What holds however requests interleave *)

TypeOK ==
  /\ order \in Orders
  /\ quotes \in Seq(Quotes)
  /\ invoices \in Seq(Invoices)
  /\ payments \in Seq(Nat)
  /\ work \in Works
  /\ view \in [Requests -> Views]

\* The columns of one row, or of one copy of it, agree with each other: the
\* dates tell the status apart, and the rows it rests on have been created.
RowConsistent(o, quoteRows, invoiceRows, paymentRows) ==
  /\ o.status \in {PAID, COMPLETE} => o.paid_on
  /\ o.paid_on => o.status \in {PAID, COMPLETE, CANCELLED}
  /\ o.completed_on <=> o.status = COMPLETE
  /\ o.cancelled_on <=> o.status = CANCELLED
  /\ o.quote <= Len(quoteRows) /\ o.invoice <= Len(invoiceRows)
  /\ o.status \in {AWAITING, ACCEPTED, PAID, COMPLETE} => o.quote # None
  /\ o.status \in {ACCEPTED, PAID, COMPLETE} => o.invoice # None
  /\ o.paid_on => paymentRows # <<>>

\* Whatever stale copy is written last, the order never mixes two moments of
\* its life: it is never complete but unpaid, never accepted without an
\* invoice, never marked as paid without a payment on record.  Every handler of
\* Order saves all the columns together (omis/order/models.py:403-584).
OrderConsistent == RowConsistent(order, quotes, invoices, payments)

\* The VAT on the latest invoice is the order's as soon as there is something
\* to pay: update() creates a new invoice with each change of the VAT
\* (omis/order/serializers.py:267-278) and no later request edits it.
InvoiceHasVat(o, invoiceRows) ==
  o.status \in {ACCEPTED, PAID, COMPLETE} => invoiceRows[o.invoice].vat = o.vat

InvoiceVatCurrent == InvoiceHasVat(order, invoices)

\* The price columns belong together: they are the price, under the order's own
\* VAT, of some time the assignees once had; a lost update never leaves an
\* order charged under another order's VAT (omis/order/pricing.py:125-142).
Priced(o) == \E time \in Estimates :
               o.subtotal = Subtotal(o.vat, time) /\ o.total = Total(o.vat, time)

PriceBelongsToVat == Priced(order)

-----------------------------------------------------------------------------
(* What holds when requests run one after the other *)

QuoteState ==
  IF order.quote = None THEN "none"
  ELSE IF quotes[order.quote].cancelled_on THEN "withdrawn"
  ELSE IF quotes[order.quote].accepted_on THEN "accepted"
  ELSE "offered"

Lifecycle == INSTANCE OrderLifecycle
               WITH status <- order.status, quote <- QuoteState

\* The order goes through its documented states, each with its quote (Order
\* docstring, omis/order/models.py:94-118).
LifecycleSpec == Lifecycle!Spec

\* No quote is alive while the order is a draft, and none but the latest is
\* alive otherwise, so the client can accept one at most
\* (NoOtherActiveQuoteExistsSubValidator, omis/order/validators.py:234-247).
OneActiveQuote ==
  \A i \in 1..Len(quotes) :
    quotes[i].cancelled_on \/ (i = order.quote /\ order.status # DRAFT)

\* From the day it is sent an order costs what its quote says, unless its VAT
\* has been blanked (omis/quote/utils.py:76-86, omis/order/pricing.py:105-122).
ChargedAsQuoted ==
  order.status \in {AWAITING, ACCEPTED, PAID, COMPLETE} /\ order.vat # "unset" =>
    order.subtotal = quotes[order.quote].price

\* "If this is the most up-to-date invoice for an order, these values will be
\* the same as the ones on the order" (omis/invoice/models.py:64-66).
InvoiceUpToDate ==
  order.status \in {ACCEPTED, PAID, COMPLETE} =>
    invoices[order.invoice] = [vat |-> order.vat, total |-> order.total]

\* A paid order was paid once, and in full by the price it shows today; any
\* other order took no money (Order.mark_as_paid, omis/order/models.py:500-539).
PaidOnceInFull ==
  IF order.paid_on THEN Len(payments) = 1 /\ payments[1] >= order.total
  ELSE payments = <<>>

\* The price columns are a cache of what the assignees' times cost, and the
\* signals keep it right (omis/order/signal_receivers.py:8-35).
PriceUpToDate == order = Reprice(order, work.estimated)

-----------------------------------------------------------------------------
(* What the documentation says and concurrent or legal requests can break *)

\* "The contact pays for the order.  After this point, the order cannot be
\* reopened" (omis/order/models.py:112-113).
PaidIsNotReopened ==
  [][order.status \in {PAID, COMPLETE} =>
       order'.status \in {PAID, COMPLETE, CANCELLED}]_vars

=============================================================================
