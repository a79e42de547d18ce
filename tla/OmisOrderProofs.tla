-------------------------- MODULE OmisOrderProofs ---------------------------
(***************************************************************************)
(* What OmisOrder guarantees for every number of concurrent requests and   *)
(* every value of the constants.                                           *)
(*                                                                         *)
(* The row is always written from the copy of one request, and a copy is   *)
(* always an earlier version of the whole row.  So the inductive invariant *)
(* says of every copy in flight what the theorems say of the row, relative *)
(* to the quotes, invoices and payments there are now: these tables only   *)
(* grow, and an invoice never changes.                                     *)
(***************************************************************************)
EXTENDS OmisOrder, TLAPS

\* A version of the row that fits the rows it refers to.
RowFits(o, q, i, p) == RowConsistent(o, q, i, p) /\ InvoiceHasVat(o, i)

IInv == /\ TypeOK
        /\ RowFits(order, quotes, invoices, payments)
        /\ \A r \in Requests : RowFits(view[r].order, quotes, invoices, payments)
        /\ Priced(order)

-----------------------------------------------------------------------------
(* Pricing *)

LEMMA PriceType ==
  ASSUME NEW vat, NEW time \in Estimates
  PROVE  Subtotal(vat, time) \in Nat /\ Total(vat, time) \in Nat
<1>1. Rate \in Nat /\ VatRate \in Nat /\ time \in Nat
  BY OrderAssumption
<1>2. Rate * time \in Nat /\ VatRate * time \in Nat
  BY <1>1
<1>3. QED
  BY <1>2 DEF Subtotal, Total

\* Repricing a row leaves a row, with the price of its own VAT, and touches no
\* other column.
LEMMA RepriceRow ==
  ASSUME NEW o \in Orders, NEW time \in Estimates,
         NEW q, NEW i, NEW p, RowFits(o, q, i, p)
  PROVE  /\ Reprice(o, time) \in Orders
         /\ RowFits(Reprice(o, time), q, i, p)
         /\ Priced(Reprice(o, time))
<1>1. Reprice(o, time) = [o EXCEPT !.subtotal = Subtotal(o.vat, time),
                                   !.total = Total(o.vat, time)]
  BY DEF Reprice
<1>2. /\ Subtotal(o.vat, time) \in Nat
      /\ Total(o.vat, time) \in Nat
  BY PriceType
<1>3. Reprice(o, time) \in Orders
  BY <1>1, <1>2 DEF Orders
<1>4. RowFits(Reprice(o, time), q, i, p)
  BY <1>1 DEF RowFits, RowConsistent, InvoiceHasVat, Orders
<1>5. Priced(Reprice(o, time))
  BY <1>1 DEF Priced, Orders
<1>6. QED
  BY <1>3, <1>4, <1>5

\* A version of the row that fits keeps fitting as the tables grow.
LEMMA RowFitsGrowingTables ==
  ASSUME NEW o \in Orders,
         NEW q \in Seq(Quotes), NEW qq \in Seq(Quotes), Len(q) <= Len(qq),
         NEW i \in Seq(Invoices), NEW ii \in Seq(Invoices), Len(i) <= Len(ii),
         \A k \in 1..Len(i) : ii[k] = i[k],
         NEW p, NEW pp, p # <<>> => pp # <<>>,
         RowFits(o, q, i, p)
  PROVE  RowFits(o, qq, ii, pp)
<1>1. RowConsistent(o, qq, ii, pp)
  <2>1. /\ o.quote \in Nat /\ o.invoice \in Nat
        /\ Len(q) \in Nat /\ Len(qq) \in Nat /\ Len(i) \in Nat /\ Len(ii) \in Nat
    BY DEF Orders
  <2>2. QED
    BY <2>1 DEF RowFits, RowConsistent
<1>2. InvoiceHasVat(o, ii)
  <2>1. SUFFICES ASSUME o.status \in {ACCEPTED, PAID, COMPLETE}
                 PROVE  ii[o.invoice].vat = o.vat
    BY DEF InvoiceHasVat
  <2>2. o.invoice \in 1..Len(i)
    BY <2>1 DEF RowFits, RowConsistent, Orders, None
  <2>3. QED
    BY <2>1, <2>2 DEF RowFits, InvoiceHasVat
<1>3. QED
  BY <1>1, <1>2 DEF RowFits

-----------------------------------------------------------------------------
(* The initial state *)

LEMMA NewOrderRow ==
  ASSUME NEW vat \in Vats, NEW q \in Seq(Quotes), NEW i \in Seq(Invoices), NEW p
  PROVE  /\ NewOrder(vat) \in Orders
         /\ RowFits(NewOrder(vat), q, i, p)
         /\ Priced(NewOrder(vat))
<1>1. NewOrder(vat) \in Orders
  BY DEF NewOrder, Orders, OrderStatus, DRAFT, None
<1>2. RowFits(NewOrder(vat), q, i, p)
  BY DEF RowFits, RowConsistent, InvoiceHasVat, NewOrder, None,
         DRAFT, AWAITING, ACCEPTED, PAID, COMPLETE, CANCELLED
<1>3. 0 \in Estimates /\ Rate * 0 = 0 /\ VatRate * 0 = 0
  BY OrderAssumption
<1>4. Priced(NewOrder(vat))
  BY <1>3 DEF Priced, NewOrder, Subtotal, Total
<1>5. QED
  BY <1>1, <1>2, <1>4

LEMMA IdleView == Idle \in Views
<1>1. "unset" \in Vats /\ 0 \in Estimates
  BY OrderAssumption
<1>2. Idle.order \in Orders
  BY <1>1 DEF Idle, NewOrder, Orders, OrderStatus, DRAFT, None
<1>3. QED
  BY <1>1, <1>2 DEF Idle, Views, NoQuote, NoWork, Quotes, Works

LEMMA InitInv == Init => IInv
<1> SUFFICES ASSUME Init PROVE IInv
  OBVIOUS
<1>1. PICK vat \in Vats : order = NewOrder(vat)
  BY DEF Init
<1>2. quotes \in Seq(Quotes) /\ invoices \in Seq(Invoices) /\ payments \in Seq(Nat)
  BY DEF Init
<1>3. /\ order \in Orders
      /\ RowFits(order, quotes, invoices, payments)
      /\ Priced(order)
  BY <1>1, <1>2, NewOrderRow
<1>4. work \in Works
  BY OrderAssumption DEF Init, NoWork, Works
<1>5. \A r \in Requests : view[r] = Idle
  BY DEF Init
<1>6. view \in [Requests -> Views]
  BY IdleView DEF Init
<1>7. \A r \in Requests : RowFits(view[r].order, quotes, invoices, payments)
  <2>1. "unset" \in Vats
    BY OrderAssumption
  <2>2. Idle.order = NewOrder("unset")
    BY DEF Idle
  <2>3. QED
    BY <1>2, <1>5, <2>1, <2>2, NewOrderRow
<1>8. QED
  BY <1>2, <1>3, <1>4, <1>6, <1>7 DEF IInv, TypeOK

-----------------------------------------------------------------------------
(* Every step *)

\* The quote a request follows from the order it loaded.
LEMMA QuoteOfType ==
  ASSUME TypeOK, NEW o \in Orders, o.quote <= Len(quotes)
  PROVE  QuoteOf(o) \in Quotes
<1>1. CASE o.quote = None
  BY <1>1 DEF QuoteOf, NoQuote, Quotes
<1>2. CASE o.quote # None
  BY <1>2 DEF QuoteOf, TypeOK, Orders, None
<1>3. QED
  BY <1>1, <1>2

\* What a handler has to establish: it creates or changes rows without losing
\* any, writes a version of the order that fits them, and goes idle.
Writes(r) ==
  /\ quotes' \in Seq(Quotes) /\ Len(quotes) <= Len(quotes')
  /\ invoices' \in Seq(Invoices) /\ Len(invoices) <= Len(invoices')
  /\ \A k \in 1..Len(invoices) : invoices'[k] = invoices[k]
  /\ payments' \in Seq(Nat) /\ (payments # <<>> => payments' # <<>>)
  /\ work' \in Works
  /\ order' \in Orders
  /\ RowFits(order', quotes', invoices', payments')
  /\ Priced(order')
  /\ view' = [view EXCEPT ![r] = Idle]

LEMMA WritesPreserve ==
  ASSUME IInv, NEW r \in Requests, Writes(r)
  PROVE  IInv'
<1>1. TypeOK'
  BY IdleView DEF IInv, TypeOK, Writes
<1>2. ASSUME NEW s \in Requests
      PROVE  RowFits(view[s].order, quotes, invoices, payments)'
  <2>1. CASE s = r
    <3>1. "unset" \in Vats
      BY OrderAssumption
    <3>2. view'[s].order = NewOrder("unset")
      BY <2>1 DEF IInv, TypeOK, Writes, Idle
    <3>3. QED
      BY <3>1, <3>2, NewOrderRow DEF Writes
  <2>2. CASE s # r
    <3>1. view'[s] = view[s]
      BY <2>2 DEF IInv, TypeOK, Writes
    <3>2. view[s].order \in Orders
      BY DEF IInv, TypeOK, Views
    <3>3. QED
      BY <3>1, <3>2, RowFitsGrowingTables DEF IInv, TypeOK, Writes
  <2>3. QED
    BY <2>1, <2>2
<1>3. QED
  BY <1>1, <1>2 DEF IInv, Writes

\* Save writes a version that fits as soon as the copy it is given does.
LEMMA SaveWrites ==
  ASSUME IInv, NEW r \in Requests, NEW o \in Orders, Save(r, o),
         RowFits(o, quotes', invoices', payments')
  PROVE  /\ order' \in Orders
         /\ RowFits(order', quotes', invoices', payments')
         /\ Priced(order')
         /\ view' = [view EXCEPT ![r] = Idle]
<1>1. view[r].work.estimated \in Estimates
  BY DEF IInv, TypeOK, Views, Works
<1>2. QED
  BY <1>1, RepriceRow DEF Save

LEMMA Reading ==
  ASSUME IInv, NEW r \in Requests, Load(r) \/ Read(r) \/ Reject(r)
  PROVE  IInv'
<1>1. UNCHANGED <<order, quotes, invoices, payments, work>>
  BY DEF Load, Read, Reject
<1>2. CASE Load(r)
  <2>1. /\ view' \in [Requests -> Views]
        /\ view'[r].order = order
        /\ \A s \in Requests \ {r} : view'[s] = view[s]
    BY <1>2 DEF IInv, TypeOK, Load, Views
  <2>2. QED
    BY <1>1, <2>1 DEF IInv, TypeOK, Priced
<1>3. CASE Read(r)
  <2>1. QuoteOf(view[r].order) \in Quotes
    BY QuoteOfType DEF IInv, TypeOK, Views, RowFits, RowConsistent
  <2>2. /\ view' \in [Requests -> Views]
        /\ \A s \in Requests : view'[s].order = view[s].order
    BY <1>3, <2>1 DEF IInv, TypeOK, Read, Views
  <2>3. QED
    BY <1>1, <2>2 DEF IInv, TypeOK, Priced
<1>4. CASE Reject(r)
  <2>1. Writes(r)
    BY <1>1, <1>4 DEF IInv, TypeOK, Writes, Reject, Priced
  <2>2. QED
    BY <2>1, WritesPreserve
<1>5. QED
  BY <1>2, <1>3, <1>4

-----------------------------------------------------------------------------
(* Every handler *)

\* What a handler knows of the copies it works on.
LEMMA CopiesFit ==
  ASSUME IInv, NEW r \in Requests
  PROVE  /\ view[r] \in Views
         /\ view[r].order \in Orders /\ view[r].quote \in Quotes /\ view[r].work \in Works
         /\ RowFits(view[r].order, quotes, invoices, payments)
BY DEF IInv, TypeOK, Views

LEMMA GenerateQuoteInv ==
  ASSUME IInv, NEW r \in Requests, GenerateQuote(r)
  PROVE  IInv'
<1> DEFINE o == view[r].order
           o2 == [o EXCEPT !.status = AWAITING, !.quote = Len(quotes) + 1]
           new == [NoQuote EXCEPT !.price = o.subtotal]
<1>1. o \in Orders /\ RowFits(o, quotes, invoices, payments)
  BY CopiesFit
<1>2. o.status = DRAFT /\ quotes' = Append(quotes, new) /\ Save(r, o2)
  BY DEF GenerateQuote
<1>3. UNCHANGED <<invoices, payments, work>>
  BY DEF GenerateQuote
<1>4. new \in Quotes
  BY <1>1 DEF Quotes, NoQuote, Orders
<1>5. /\ quotes' \in Seq(Quotes)
      /\ Len(quotes') = Len(quotes) + 1
      /\ Len(quotes) \in Nat
  BY <1>2, <1>4 DEF IInv, TypeOK
<1>6. o2 \in Orders
  <2>1. \A n \in Nat : [o EXCEPT !.status = AWAITING, !.quote = n] \in Orders
    <3> HIDE DEF o
    <3>1. QED
      BY <1>1 DEF Orders, OrderStatus, AWAITING
  <2>2. Len(quotes) + 1 \in Nat
    BY <1>5
  <2>3. QED
    BY <2>1, <2>2
<1>7. RowFits(o2, quotes', invoices', payments')
  <2>1. o2.status = AWAITING /\ o2.quote = Len(quotes')
    BY <1>1, <1>5 DEF Orders
  <2>2. /\ o2.paid_on = o.paid_on /\ o2.completed_on = o.completed_on
        /\ o2.cancelled_on = o.cancelled_on /\ o2.invoice = o.invoice
    BY <1>1 DEF Orders
  <2>3. ~o.paid_on /\ ~o.completed_on /\ ~o.cancelled_on /\ o.invoice <= Len(invoices)
    BY <1>1, <1>2 DEF RowFits, RowConsistent,
       DRAFT, PAID, COMPLETE, CANCELLED
  <2>4. RowConsistent(o2, quotes', invoices', payments')
    BY <2>1, <2>2, <2>3, <1>3, <1>5 DEF RowConsistent, None,
       DRAFT, AWAITING, ACCEPTED, PAID, COMPLETE, CANCELLED
  <2>5. InvoiceHasVat(o2, invoices')
    BY <2>1 DEF InvoiceHasVat, AWAITING, ACCEPTED, PAID, COMPLETE
  <2>6. QED
    BY <2>4, <2>5 DEF RowFits
<1> HIDE DEF o2
<1>8. Writes(r)
  <2>1. /\ order' \in Orders
        /\ RowFits(order', quotes', invoices', payments')
        /\ Priced(order')
        /\ view' = [view EXCEPT ![r] = Idle]
    BY <1>2, <1>6, <1>7, SaveWrites
  <2>2. Len(quotes) <= Len(quotes') /\ Len(invoices) <= Len(invoices')
    BY <1>3, <1>5 DEF IInv, TypeOK
  <2>3. QED
    BY <1>3, <1>5, <2>1, <2>2 DEF Writes, IInv, TypeOK
<1>9. QED
  BY <1>8, WritesPreserve

\* Handlers that leave quotes, invoices and payments alone and only move the
\* status, from a status whose quote, invoice and dates stay right.
LEMMA ReopenInv ==
  ASSUME IInv, NEW r \in Requests, Reopen(r)
  PROVE  IInv'
<1> DEFINE o == view[r].order
           o2 == [o EXCEPT !.status = DRAFT]
<1>1. o \in Orders /\ view[r].quote \in Quotes /\ RowFits(o, quotes, invoices, payments)
  BY CopiesFit
<1>2. o.status \in {AWAITING, ACCEPTED} /\ Save(r, o2)
  BY DEF Reopen, Reopenable
<1>3. UNCHANGED <<invoices, payments, work>>
  BY DEF Reopen
<1>4. quotes' \in Seq(Quotes) /\ Len(quotes') = Len(quotes)
  <2>1. CancelledQuote(view[r].quote) \in Quotes
    BY <1>1 DEF CancelledQuote, Quotes
  <2>2. o.quote \in 1..Len(quotes)
    BY <1>1, <1>2 DEF RowFits, RowConsistent, Orders, None
  <2>3. QED
    BY <2>1, <2>2 DEF Reopen, IInv, TypeOK
<1>5. o2 \in Orders
  BY <1>1 DEF Orders, OrderStatus, DRAFT
<1>6. RowFits(o2, quotes', invoices', payments')
  BY <1>1, <1>2, <1>3, <1>4 DEF RowFits, RowConsistent, InvoiceHasVat, Orders,
     DRAFT, AWAITING, ACCEPTED, PAID, COMPLETE, CANCELLED
<1>7. Writes(r)
  BY <1>2, <1>3, <1>4, <1>5, <1>6, SaveWrites DEF Writes, IInv, TypeOK
<1>8. QED
  BY <1>7, WritesPreserve

\* An invoice made from a version of the row has that version's VAT.
LEMMA SaveInvoicedWrites ==
  ASSUME IInv, NEW r \in Requests, NEW o \in Orders, SaveInvoiced(r, o),
         o.status = ACCEPTED, RowConsistent([o EXCEPT !.invoice = Len(invoices) + 1],
                                            quotes', invoices', payments')
  PROVE  /\ invoices' \in Seq(Invoices) /\ Len(invoices') = Len(invoices) + 1
         /\ \A k \in 1..Len(invoices) : invoices'[k] = invoices[k]
         /\ order' \in Orders
         /\ RowFits(order', quotes', invoices', payments')
         /\ Priced(order')
         /\ view' = [view EXCEPT ![r] = Idle]
<1> DEFINE time == view[r].work.estimated
           o2 == [o EXCEPT !.invoice = Len(invoices) + 1]
<1>1. time \in Estimates /\ invoices \in Seq(Invoices) /\ Len(invoices) \in Nat
  BY DEF IInv, TypeOK, Views, Works
<1>2. /\ Invoiced(o, time) \in Invoices
      /\ Invoiced(o, time).vat = o.vat
  BY <1>1, PriceType DEF Invoiced, Invoices, Reprice, Orders
<1>3. /\ invoices' = Append(invoices, Invoiced(o, time))
      /\ Save(r, o2)
  BY DEF SaveInvoiced
<1>4. /\ invoices' \in Seq(Invoices) /\ Len(invoices') = Len(invoices) + 1
      /\ \A k \in 1..Len(invoices) : invoices'[k] = invoices[k]
      /\ invoices'[Len(invoices) + 1] = Invoiced(o, time)
  BY <1>1, <1>2, <1>3
<1>5. o2 \in Orders
  BY <1>1 DEF Orders
<1>6. InvoiceHasVat(o2, invoices')
  BY <1>1, <1>2, <1>4 DEF InvoiceHasVat, Orders
<1>7. RowFits(o2, quotes', invoices', payments')
  BY <1>6 DEF RowFits
<1>8. QED
  BY <1>3, <1>4, <1>5, <1>7, SaveWrites

LEMMA AcceptQuoteInv ==
  ASSUME IInv, NEW r \in Requests, AcceptQuote(r)
  PROVE  IInv'
<1> DEFINE o == view[r].order
           o1 == [o EXCEPT !.status = ACCEPTED]
           o2 == [o1 EXCEPT !.invoice = Len(invoices) + 1]
<1>1. o \in Orders /\ view[r].quote \in Quotes /\ RowFits(o, quotes, invoices, payments)
  BY CopiesFit
<1>2. o.status = AWAITING /\ SaveInvoiced(r, o1)
  BY DEF AcceptQuote
<1>3. UNCHANGED <<payments, work>>
  BY DEF AcceptQuote
<1>4. quotes' \in Seq(Quotes) /\ Len(quotes') = Len(quotes)
  <2>1. AcceptedQuote(view[r].quote) \in Quotes
    BY <1>1 DEF AcceptedQuote, Quotes
  <2>2. o.quote \in 1..Len(quotes)
    BY <1>1, <1>2 DEF RowFits, RowConsistent, Orders, None
  <2>3. QED
    BY <2>1, <2>2 DEF AcceptQuote, IInv, TypeOK
<1>5. o1 \in Orders /\ o1.status = ACCEPTED
  BY <1>1 DEF Orders, OrderStatus, ACCEPTED
<1>6. Len(invoices') = Len(invoices) + 1 /\ Len(invoices) \in Nat
  <2>1. invoices' = Append(invoices, Invoiced(o1, view[r].work.estimated))
    BY <1>2 DEF SaveInvoiced
  <2>2. QED
    BY <2>1 DEF IInv, TypeOK
<1>7. RowConsistent(o2, quotes', invoices', payments')
  <2>1. /\ o2.status = ACCEPTED /\ o2.invoice = Len(invoices') /\ o2.quote = o.quote
        /\ o2.paid_on = o.paid_on /\ o2.completed_on = o.completed_on
        /\ o2.cancelled_on = o.cancelled_on
    BY <1>1, <1>6 DEF Orders
  <2>2. /\ ~o.paid_on /\ ~o.completed_on /\ ~o.cancelled_on
        /\ o.quote <= Len(quotes) /\ o.quote # None
    BY <1>1, <1>2 DEF RowFits, RowConsistent,
       AWAITING, PAID, COMPLETE, CANCELLED
  <2>3. QED
    BY <2>1, <2>2, <1>3, <1>4, <1>6 DEF RowConsistent, None,
       AWAITING, ACCEPTED, PAID, COMPLETE, CANCELLED
<1> HIDE DEF o1
<1>8. Writes(r)
  <2>1. /\ invoices' \in Seq(Invoices) /\ Len(invoices') = Len(invoices) + 1
        /\ \A k \in 1..Len(invoices) : invoices'[k] = invoices[k]
        /\ order' \in Orders
        /\ RowFits(order', quotes', invoices', payments')
        /\ Priced(order')
        /\ view' = [view EXCEPT ![r] = Idle]
    BY <1>2, <1>5, <1>7, SaveInvoicedWrites
  <2>2. Len(quotes) <= Len(quotes') /\ Len(invoices) <= Len(invoices')
    BY <1>4, <1>6 DEF IInv, TypeOK
  <2>3. QED
    BY <1>3, <1>4, <2>1, <2>2 DEF Writes, IInv, TypeOK
<1>9. QED
  BY <1>8, WritesPreserve

\* Handlers that create no quote and no invoice: the payments may grow, the
\* saved version has the same quote, invoice and VAT, and the dates that go
\* with its status.
LEMMA PlainSaveInv ==
  ASSUME IInv, NEW r \in Requests, NEW o \in Orders, Save(r, o),
         UNCHANGED <<quotes, invoices, work>>,
         payments' \in Seq(Nat), payments # <<>> => payments' # <<>>,
         RowFits(o, quotes, invoices, payments')
  PROVE  IInv'
<1>1. /\ order' \in Orders
      /\ RowFits(order', quotes', invoices', payments')
      /\ Priced(order')
      /\ view' = [view EXCEPT ![r] = Idle]
  BY SaveWrites
<1>2. Len(quotes) <= Len(quotes') /\ Len(invoices) <= Len(invoices')
  BY DEF IInv, TypeOK
<1>3. Writes(r)
  BY <1>1, <1>2 DEF Writes, IInv, TypeOK
<1>4. QED
  BY <1>3, WritesPreserve

LEMMA UpdateOrderInv ==
  ASSUME IInv, NEW r \in Requests, NEW vat \in Vats, NEW invoiceRelated \in BOOLEAN,
         UpdateOrder(r, vat, invoiceRelated)
  PROVE  IInv'
<1> DEFINE o == view[r].order
           o1 == [o EXCEPT !.vat = vat]
           o2 == [o1 EXCEPT !.invoice = Len(invoices) + 1]
<1>1. o \in Orders /\ RowFits(o, quotes, invoices, payments)
  BY CopiesFit
<1>2. UNCHANGED <<quotes, payments, work>>
  BY DEF UpdateOrder
<1>3. o1 \in Orders
  BY <1>1 DEF Orders
<1>4. CASE NeedsInvoice(o, invoiceRelated)
  <2>1. SaveInvoiced(r, o1) /\ o.status = ACCEPTED
    BY <1>4 DEF UpdateOrder, NeedsInvoice
  <2>2. o1.status = ACCEPTED
    BY <1>1, <2>1 DEF Orders
  <2>3. Len(invoices') = Len(invoices) + 1 /\ Len(invoices) \in Nat
    <3>1. invoices' = Append(invoices, Invoiced(o1, view[r].work.estimated))
      BY <2>1 DEF SaveInvoiced
    <3>2. QED
      BY <3>1 DEF IInv, TypeOK
  <2>4. RowConsistent(o2, quotes', invoices', payments')
    <3>1. /\ o2.status = ACCEPTED /\ o2.invoice = Len(invoices') /\ o2.quote = o.quote
          /\ o2.paid_on = o.paid_on /\ o2.completed_on = o.completed_on
          /\ o2.cancelled_on = o.cancelled_on
      BY <1>1, <2>1, <2>3 DEF Orders
    <3>2. QED
      BY <3>1, <1>1, <1>2, <2>1, <2>3 DEF RowFits, RowConsistent, None,
         ACCEPTED, PAID, COMPLETE, CANCELLED
  <2> HIDE DEF o1
  <2>5. Writes(r)
    <3>1. /\ invoices' \in Seq(Invoices) /\ Len(invoices') = Len(invoices) + 1
          /\ \A k \in 1..Len(invoices) : invoices'[k] = invoices[k]
          /\ order' \in Orders
          /\ RowFits(order', quotes', invoices', payments')
          /\ Priced(order')
          /\ view' = [view EXCEPT ![r] = Idle]
      BY <1>3, <2>1, <2>2, <2>4, SaveInvoicedWrites
    <3>2. Len(quotes) <= Len(quotes') /\ Len(invoices) <= Len(invoices')
      BY <1>2, <2>3 DEF IInv, TypeOK
    <3>3. QED
      BY <1>2, <3>1, <3>2 DEF Writes, IInv, TypeOK
  <2>6. QED
    BY <2>5, WritesPreserve
<1>5. CASE ~NeedsInvoice(o, invoiceRelated)
  <2>1. Save(r, o1) /\ UNCHANGED invoices
    BY <1>5 DEF UpdateOrder
  <2>2. vat # o.vat => o.status \notin {ACCEPTED, PAID, COMPLETE}
    BY <1>5 DEF UpdateOrder, NeedsInvoice, InvoiceFieldsEditable,
       DRAFT, AWAITING, ACCEPTED, PAID, COMPLETE
  <2>3. RowFits(o1, quotes, invoices, payments')
    BY <1>1, <1>2, <2>2 DEF RowFits, RowConsistent, InvoiceHasVat, Orders
  <2> HIDE DEF o1
  <2>4. QED
    BY <1>2, <1>3, <2>1, <2>3, PlainSaveInv DEF IInv, TypeOK
<1>6. QED
  BY <1>4, <1>5

LEMMA UpdateAssigneesInv ==
  ASSUME IInv, NEW r \in Requests, NEW time \in Estimates, NEW recorded \in BOOLEAN,
         UpdateAssignees(r, time, recorded)
  PROVE  IInv'
<1>1. /\ UNCHANGED <<quotes, invoices, payments>>
      /\ view' = [view EXCEPT ![r] = Idle]
  BY DEF UpdateAssignees
<1>2. work' \in Works
  BY DEF UpdateAssignees, Works
<1>3. /\ order' \in Orders
      /\ RowFits(order', quotes, invoices, payments)
      /\ Priced(order')
  <2>1. CASE order' = order
    BY <2>1 DEF IInv, TypeOK, Priced
  <2>2. CASE order' = Reprice(view[r].order, time)
    BY <2>2, CopiesFit, RepriceRow
  <2>3. QED
    BY <2>1, <2>2 DEF UpdateAssignees
<1>4. Writes(r)
  BY <1>1, <1>2, <1>3 DEF Writes, IInv, TypeOK
<1>5. QED
  BY <1>4, WritesPreserve

LEMMA MarkAsPaidInv ==
  ASSUME IInv, NEW r \in Requests, NEW amount \in Amounts, MarkAsPaid(r, amount)
  PROVE  IInv'
<1> DEFINE o == view[r].order
           o1 == [o EXCEPT !.status = PAID, !.paid_on = TRUE]
<1>1. o \in Orders /\ RowFits(o, quotes, invoices, payments)
  BY CopiesFit
<1>2. o.status = ACCEPTED /\ Save(r, o1) /\ UNCHANGED <<quotes, invoices, work>>
  BY DEF MarkAsPaid, Payable
<1>3. payments' \in Seq(Nat) /\ payments' # <<>>
  BY OrderAssumption DEF MarkAsPaid, IInv, TypeOK
<1>4. o1 \in Orders
  BY <1>1 DEF Orders, OrderStatus, PAID
<1>5. RowFits(o1, quotes, invoices, payments')
  BY <1>1, <1>2, <1>3 DEF RowFits, RowConsistent, InvoiceHasVat, Orders,
     AWAITING, ACCEPTED, PAID, COMPLETE, CANCELLED
<1> HIDE DEF o1
<1>6. QED
  BY <1>2, <1>3, <1>4, <1>5, PlainSaveInv

LEMMA CompleteOrderInv ==
  ASSUME IInv, NEW r \in Requests, CompleteOrder(r)
  PROVE  IInv'
<1> DEFINE o == view[r].order
           o1 == [o EXCEPT !.status = COMPLETE, !.completed_on = TRUE]
<1>1. o \in Orders /\ RowFits(o, quotes, invoices, payments)
  BY CopiesFit
<1>2. /\ o.status = PAID /\ Save(r, o1)
      /\ UNCHANGED <<quotes, invoices, payments, work>>
  BY DEF CompleteOrder, Completable
<1>3. o1 \in Orders
  BY <1>1 DEF Orders, OrderStatus, COMPLETE
<1>4. RowFits(o1, quotes, invoices, payments')
  BY <1>1, <1>2 DEF RowFits, RowConsistent, InvoiceHasVat, Orders,
     AWAITING, ACCEPTED, PAID, COMPLETE, CANCELLED
<1> HIDE DEF o1
<1>5. QED
  BY <1>2, <1>3, <1>4, PlainSaveInv DEF IInv, TypeOK

LEMMA CancelOrderInv ==
  ASSUME IInv, NEW r \in Requests, NEW force \in BOOLEAN, CancelOrder(r, force)
  PROVE  IInv'
<1> DEFINE o == view[r].order
           o1 == [o EXCEPT !.status = CANCELLED, !.cancelled_on = TRUE]
<1>1. o \in Orders /\ RowFits(o, quotes, invoices, payments)
  BY CopiesFit
<1>2. Save(r, o1) /\ UNCHANGED <<quotes, invoices, payments, work>>
  BY DEF CancelOrder
<1>3. o.status \in {DRAFT, AWAITING, ACCEPTED, PAID}
  BY DEF CancelOrder, Cancellable
<1>4. o1 \in Orders
  BY <1>1 DEF Orders, OrderStatus, CANCELLED
<1>5. RowFits(o1, quotes, invoices, payments')
  BY <1>1, <1>2, <1>3 DEF RowFits, RowConsistent, InvoiceHasVat, Orders,
     DRAFT, AWAITING, ACCEPTED, PAID, COMPLETE, CANCELLED
<1> HIDE DEF o1
<1>6. QED
  BY <1>2, <1>4, <1>5, PlainSaveInv DEF IInv, TypeOK

-----------------------------------------------------------------------------
(* The theorems *)

LEMMA StepInv == IInv /\ [Next]_vars => IInv'
<1> SUFFICES ASSUME IInv, [Next]_vars PROVE IInv'
  OBVIOUS
<1>1. CASE UNCHANGED vars
  BY <1>1 DEF vars, IInv, TypeOK, Priced
<1>2. ASSUME NEW r \in Requests, Load(r) \/ Read(r) \/ Reject(r)
      PROVE  IInv'
  BY <1>2, Reading
<1>3. ASSUME NEW r \in Requests, GenerateQuote(r) PROVE IInv'
  BY <1>3, GenerateQuoteInv
<1>4. ASSUME NEW r \in Requests, Reopen(r) PROVE IInv'
  BY <1>4, ReopenInv
<1>5. ASSUME NEW r \in Requests, AcceptQuote(r) PROVE IInv'
  BY <1>5, AcceptQuoteInv
<1>6. ASSUME NEW r \in Requests, NEW vat \in Vats, NEW b \in BOOLEAN,
             UpdateOrder(r, vat, b)
      PROVE  IInv'
  BY <1>6, UpdateOrderInv
<1>7. ASSUME NEW r \in Requests, NEW time \in Estimates, NEW b \in BOOLEAN,
             UpdateAssignees(r, time, b)
      PROVE  IInv'
  BY <1>7, UpdateAssigneesInv
<1>8. ASSUME NEW r \in Requests, NEW amount \in Amounts, MarkAsPaid(r, amount)
      PROVE  IInv'
  BY <1>8, MarkAsPaidInv
<1>9. ASSUME NEW r \in Requests, CompleteOrder(r) PROVE IInv'
  BY <1>9, CompleteOrderInv
<1>10. ASSUME NEW r \in Requests, NEW force \in BOOLEAN, CancelOrder(r, force)
       PROVE  IInv'
  BY <1>10, CancelOrderInv
<1>11. QED
  BY <1>1, <1>2, <1>3, <1>4, <1>5, <1>6, <1>7, <1>8, <1>9, <1>10 DEF Next

LEMMA Invariance == Spec => []IInv
BY InitInv, StepInv, PTL DEF Spec

\* The variables keep their types.
THEOREM TypeCorrect == Spec => []TypeOK
<1>1. IInv => TypeOK
  BY DEF IInv
<1>2. QED
  BY <1>1, Invariance, PTL

\* However many requests are in flight, the columns of the order agree with each
\* other and with the quotes, invoices and payments on record: lost updates
\* replace the whole row or nothing of it (Order's handlers,
\* omis/order/models.py:403-584).
THEOREM RowIsConsistent == Spec => []OrderConsistent
<1>1. IInv => OrderConsistent
  BY DEF IInv, RowFits, OrderConsistent
<1>2. QED
  BY <1>1, Invariance, PTL

\* From acceptance on, the invoice the order points to has the order's VAT,
\* however many requests edit the order at once
\* (omis/order/serializers.py:267-278).
THEOREM InvoiceVatIsCurrent == Spec => []InvoiceVatCurrent
<1>1. IInv => InvoiceVatCurrent
  BY DEF IInv, RowFits, InvoiceVatCurrent
<1>2. QED
  BY <1>1, Invariance, PTL

\* The price columns are always a price of the order's own VAT status
\* (omis/order/pricing.py:125-142).
THEOREM PriceIsOfVat == Spec => []PriceBelongsToVat
<1>1. IInv => PriceBelongsToVat
  BY DEF IInv, PriceBelongsToVat
<1>2. QED
  BY <1>1, Invariance, PTL

-----------------------------------------------------------------------------
(* One request at a time *)

\* The documentation describes an order that one request handles at a time.
OneAtATime == \A r, s \in Requests : r = s

\* A request holds the rows as they are: nothing was written since it read.
Fresh(v) == /\ v.phase # "idle" => v.order = order
            /\ v.phase = "ready" => v.quote = QuoteOf(order) /\ v.work = work

\* A sent order was quoted the price of the time its assignees still have: the
\* price can be restored when a blanked VAT is filled in again.
QuotedPrice == order.status \in {AWAITING, ACCEPTED, PAID, COMPLETE} =>
                 quotes[order.quote].price = Rate * work.estimated

Promises == /\ PriceUpToDate
            /\ OneActiveQuote
            /\ Lifecycle!QuoteMatchesStatus
            /\ QuotedPrice
            /\ InvoiceUpToDate
            /\ PaidOnceInFull

SerialInv == /\ IInv
             /\ \A r \in Requests : Fresh(view[r])
             /\ Promises

LEMMA RepriceColumns ==
  ASSUME NEW o \in Orders, NEW time
  PROVE  LET p == Reprice(o, time) IN
         /\ p.status = o.status /\ p.quote = o.quote /\ p.invoice = o.invoice
         /\ p.vat = o.vat /\ p.paid_on = o.paid_on
         /\ p.subtotal = Subtotal(o.vat, time) /\ p.total = Total(o.vat, time)
         /\ p = Reprice(p, time)
BY DEF Reprice, Orders

LEMMA RepriceRight ==
  ASSUME NEW o \in Orders, NEW time,
         o.subtotal = Subtotal(o.vat, time), o.total = Total(o.vat, time)
  PROVE  o = Reprice(o, time)
BY DEF Reprice, Orders

\* A request that ends leaves no copy behind.
LEMMA AloneIdle ==
  ASSUME OneAtATime, TypeOK, NEW r \in Requests, view' = [view EXCEPT ![r] = Idle]
  PROVE  \A s \in Requests : Fresh(view[s])'
<1> TAKE s \in Requests
<1>1. view'[s] = Idle
  BY DEF OneAtATime, TypeOK
<1>2. QED
  BY <1>1 DEF Fresh, Idle

LEMMA SerialCopies ==
  ASSUME SerialInv, NEW r \in Requests, view[r].phase = "ready"
  PROVE  /\ view[r].order = order /\ view[r].quote = QuoteOf(order) /\ view[r].work = work
         /\ order \in Orders /\ work \in Works /\ quotes \in Seq(Quotes)
         /\ order.status \in OrderStatus /\ order.quote \in Nat /\ Len(quotes) \in Nat
         /\ order.quote <= Len(quotes)
         /\ (order.quote # None => QuoteOf(order) = quotes[order.quote])
         /\ RowConsistent(order, quotes, invoices, payments)
<1>1. IInv /\ Fresh(view[r])
  BY DEF SerialInv
<1>2. order \in Orders /\ RowConsistent(order, quotes, invoices, payments)
  BY <1>1 DEF IInv, TypeOK, RowFits
<1>3. QED
  BY <1>1, <1>2 DEF Fresh, IInv, TypeOK, QuoteOf, Orders, RowConsistent

\* The prices of the promises, after a save of the copy o.
LEMMA SerialSave ==
  ASSUME OneAtATime, SerialInv, NEW r \in Requests, view[r].phase = "ready",
         NEW o \in Orders, Save(r, o)
  PROVE  /\ order' = Reprice(o, work.estimated)
         /\ order'.status = o.status /\ order'.quote = o.quote
         /\ order'.invoice = o.invoice /\ order'.vat = o.vat /\ order'.paid_on = o.paid_on
         /\ order'.subtotal = Subtotal(o.vat, work.estimated)
         /\ order'.total = Total(o.vat, work.estimated)
         /\ order' = Reprice(order', work.estimated)
         /\ \A s \in Requests : Fresh(view[s])'
<1>1. order' = Reprice(o, work.estimated) /\ view' = [view EXCEPT ![r] = Idle]
  BY SerialCopies DEF Save
<1>2. \A s \in Requests : Fresh(view[s])'
  BY <1>1, AloneIdle DEF SerialInv, IInv
<1> HIDE DEF Fresh
<1>3. QED
  BY <1>1, <1>2, RepriceColumns

\* The price columns of an order with the right price.
LEMMA RightPrice ==
  ASSUME SerialInv
  PROVE  /\ order.subtotal = Subtotal(order.vat, work.estimated)
         /\ order.total = Total(order.vat, work.estimated)
<1>1. order \in Orders /\ order = Reprice(order, work.estimated)
  BY DEF SerialInv, IInv, TypeOK, Promises, PriceUpToDate
<1>2. QED
  BY <1>1, RepriceColumns

\* The abstract steps.
LifecycleStep == [Lifecycle!Next]_(Lifecycle!vars)

LEMMA SerialInit == Init => SerialInv /\ Lifecycle!Init
<1> SUFFICES ASSUME Init PROVE SerialInv /\ Lifecycle!Init
  OBVIOUS
<1>1. PICK vat \in Vats : order = NewOrder(vat)
  BY DEF Init
<1>2. /\ quotes = <<>> /\ invoices = <<>> /\ payments = <<>> /\ work = NoWork
      /\ \A r \in Requests : view[r] = Idle
  BY DEF Init
<1>3. Rate * 0 = 0 /\ VatRate * 0 = 0
  BY OrderAssumption
<1>4. Subtotal(vat, 0) = 0 /\ Total(vat, 0) = 0
  BY <1>3 DEF Subtotal, Total
<1>5. PriceUpToDate
  <2>1. order \in Orders
    BY InitInv DEF IInv, TypeOK
  <2>2. order.vat = vat /\ order.subtotal = 0 /\ order.total = 0 /\ work.estimated = 0
    BY <1>1, <1>2 DEF NewOrder, NoWork
  <2>3. QED
    BY <1>4, <2>1, <2>2, RepriceRight DEF PriceUpToDate
<1>6. order.status = DRAFT /\ order.quote = None /\ order.paid_on = FALSE
  BY <1>1 DEF NewOrder
<1>7. OneActiveQuote /\ QuotedPrice /\ InvoiceUpToDate /\ PaidOnceInFull
  BY <1>2, <1>6 DEF OneActiveQuote, QuotedPrice, InvoiceUpToDate, PaidOnceInFull,
     DRAFT, AWAITING, ACCEPTED, PAID, COMPLETE
<1>8. Lifecycle!Init /\ Lifecycle!QuoteMatchesStatus
  BY <1>6 DEF Lifecycle!Init, Lifecycle!QuoteMatchesStatus, QuoteState,
     DRAFT, AWAITING, ACCEPTED, PAID, COMPLETE,
     Lifecycle!DRAFT, Lifecycle!AWAITING, Lifecycle!ACCEPTED, Lifecycle!PAID,
     Lifecycle!COMPLETE
<1>9. \A r \in Requests : Fresh(view[r])
  BY <1>2 DEF Fresh, Idle
<1>10. QED
  BY <1>5, <1>7, <1>8, <1>9, InitInv DEF SerialInv, Promises

LEMMA SerialReading ==
  ASSUME OneAtATime, SerialInv, IInv', NEW r \in Requests, Load(r) \/ Read(r) \/ Reject(r)
  PROVE  SerialInv' /\ LifecycleStep
<1>1. UNCHANGED <<order, quotes, invoices, payments, work>>
  BY DEF Load, Read, Reject
<1>2. Promises' /\ LifecycleStep
  BY <1>1 DEF SerialInv, Promises, PriceUpToDate, OneActiveQuote, QuotedPrice,
     Lifecycle!QuoteMatchesStatus, QuoteState, InvoiceUpToDate, PaidOnceInFull,
     LifecycleStep, Lifecycle!vars
<1>3. \A s \in Requests : s = r
  BY DEF OneAtATime
<1>4. view \in [Requests -> Views] /\ Fresh(view[r])
  BY DEF SerialInv, IInv, TypeOK
<1>5. Fresh(view[r])'
  <2>1. CASE Load(r)
    BY <1>1, <1>4, <2>1 DEF Load, Fresh, Views
  <2>2. CASE Read(r)
    BY <1>1, <1>4, <2>2 DEF Read, Fresh, Views, QuoteOf
  <2>3. CASE Reject(r)
    BY <1>4, <2>3 DEF Reject, Fresh, Idle
  <2>4. QED
    BY <2>1, <2>2, <2>3
<1>6. QED
  BY <1>2, <1>3, <1>5 DEF SerialInv

\* A handler that changes neither the status nor the quotes, nor what a sent
\* order costs, keeps the promises about them and does nothing abstractly.
LEMMA SerialSameStatus ==
  ASSUME SerialInv, order'.status = order.status, order'.quote = order.quote,
         quotes' = quotes,
         order.status \in {AWAITING, ACCEPTED, PAID, COMPLETE} =>
           work'.estimated = work.estimated
  PROVE  /\ OneActiveQuote' /\ Lifecycle!QuoteMatchesStatus' /\ QuotedPrice'
         /\ LifecycleStep
BY DEF SerialInv, Promises, OneActiveQuote, QuotedPrice, Lifecycle!QuoteMatchesStatus,
   QuoteState, LifecycleStep, Lifecycle!vars

LEMMA SerialGenerateQuote ==
  ASSUME OneAtATime, SerialInv, IInv', NEW r \in Requests, GenerateQuote(r)
  PROVE  SerialInv' /\ LifecycleStep
<1> DEFINE o2 == [order EXCEPT !.status = AWAITING, !.quote = Len(quotes) + 1]
           new == [NoQuote EXCEPT !.price = order.subtotal]
<1>1. view[r].phase = "ready"
  BY DEF GenerateQuote
<1>2. /\ view[r].order = order /\ view[r].quote = QuoteOf(order)
      /\ view[r].work = work /\ order \in Orders /\ quotes \in Seq(Quotes)
      /\ Len(quotes) \in Nat /\ order.quote \in Nat /\ order.quote <= Len(quotes)
      /\ (order.quote # None => QuoteOf(order) = quotes[order.quote])
      /\ RowConsistent(order, quotes, invoices, payments)
  BY <1>1, SerialCopies
<1>3. /\ order.status = DRAFT /\ order.vat # "unset"
      /\ (order.quote # None => quotes[order.quote].cancelled_on)
      /\ quotes' = Append(quotes, new) /\ Save(r, o2)
      /\ UNCHANGED <<invoices, payments, work>>
  BY <1>2 DEF GenerateQuote, DetailsFilledIn, NoOtherActiveQuote
<1>4. o2 \in Orders /\ o2.status = AWAITING /\ o2.quote = Len(quotes) + 1
      /\ o2.vat = order.vat /\ o2.paid_on = order.paid_on
  <2>1. \A n \in Nat : LET p == [order EXCEPT !.status = AWAITING, !.quote = n] IN
           p \in Orders /\ p.status = AWAITING /\ p.quote = n
           /\ p.vat = order.vat /\ p.paid_on = order.paid_on
    BY <1>2 DEF Orders, OrderStatus
  <2>2. Len(quotes) + 1 \in Nat
    BY <1>2
  <2>3. QED
    BY <2>1, <2>2
<1> HIDE DEF o2
<1>5. /\ order'.status = AWAITING /\ order'.quote = Len(quotes) + 1
      /\ order'.paid_on = order.paid_on
      /\ order' = Reprice(order', work.estimated)
      /\ \A s \in Requests : Fresh(view[s])'
  BY <1>1, <1>3, <1>4, SerialSave
<1>6. /\ Len(quotes') = Len(quotes) + 1
      /\ quotes'[Len(quotes) + 1] = new
      /\ \A i \in 1..Len(quotes) : quotes'[i] = quotes[i]
      /\ new.price = order.subtotal /\ new.cancelled_on = FALSE /\ new.accepted_on = FALSE
  <2>1. new \in Quotes /\ new.price = order.subtotal /\ new.cancelled_on = FALSE
        /\ new.accepted_on = FALSE
    BY <1>2 DEF NoQuote, Quotes, Orders
  <2> HIDE DEF new
  <2>2. QED
    BY <1>2, <1>3, <2>1
<1>7. PriceUpToDate'
  BY <1>3, <1>5 DEF PriceUpToDate
<1>8. OneActiveQuote'
  <2>1. \A i \in 1..Len(quotes) : quotes[i].cancelled_on
    BY <1>3 DEF SerialInv, Promises, OneActiveQuote
  <2>2. QED
    BY <1>2, <1>5, <1>6, <2>1 DEF OneActiveQuote, AWAITING, DRAFT
<1>9. QuoteState' = "offered"
  BY <1>2, <1>5, <1>6 DEF QuoteState, None
<1>10. Lifecycle!QuoteMatchesStatus'
  BY <1>5, <1>9 DEF Lifecycle!QuoteMatchesStatus,
     AWAITING, Lifecycle!DRAFT, Lifecycle!ACCEPTED, Lifecycle!PAID, Lifecycle!COMPLETE
<1>11. QuotedPrice'
  <2>1. order.subtotal = Rate * work.estimated
    BY <1>3, RightPrice DEF Subtotal
  <2>2. QED
    BY <1>3, <1>5, <1>6, <2>1 DEF QuotedPrice
<1>12. InvoiceUpToDate' /\ PaidOnceInFull'
  <2>1. ~order.paid_on /\ payments = <<>>
    BY <1>2, <1>3 DEF SerialInv, Promises, PaidOnceInFull, RowConsistent,
       DRAFT, PAID, COMPLETE, CANCELLED
  <2>2. QED
    BY <1>3, <1>5, <2>1 DEF InvoiceUpToDate, PaidOnceInFull,
       AWAITING, ACCEPTED, PAID, COMPLETE
<1>13. LifecycleStep
  <2>1. QuoteState \in {"none", "withdrawn"}
    BY <1>3 DEF QuoteState
  <2>2. QED
    BY <1>3, <1>5, <1>9, <2>1 DEF LifecycleStep, Lifecycle!Next, Lifecycle!GenerateQuote,
       DRAFT, AWAITING, Lifecycle!DRAFT, Lifecycle!AWAITING
<1>14. QED
  BY <1>5, <1>7, <1>8, <1>10, <1>11, <1>12, <1>13 DEF SerialInv, Promises

LEMMA SerialReopen ==
  ASSUME OneAtATime, SerialInv, IInv', NEW r \in Requests, Reopen(r)
  PROVE  SerialInv' /\ LifecycleStep
<1> DEFINE o2 == [order EXCEPT !.status = DRAFT]
<1>1. view[r].phase = "ready"
  BY DEF Reopen
<1>2. /\ view[r].order = order /\ view[r].quote = QuoteOf(order)
      /\ order \in Orders /\ quotes \in Seq(Quotes)
      /\ Len(quotes) \in Nat /\ order.quote \in Nat /\ order.quote <= Len(quotes)
      /\ (order.quote # None => QuoteOf(order) = quotes[order.quote])
      /\ RowConsistent(order, quotes, invoices, payments)
  BY <1>1, SerialCopies
<1>3. /\ order.status \in {AWAITING, ACCEPTED} /\ order.quote # None
      /\ quotes' = IF quotes[order.quote].cancelled_on THEN quotes
                   ELSE [quotes EXCEPT ![order.quote] = CancelledQuote(quotes[order.quote])]
      /\ Save(r, o2)
      /\ UNCHANGED <<invoices, payments, work>>
  BY <1>2 DEF Reopen, Reopenable
<1>4. o2 \in Orders /\ o2.status = DRAFT /\ o2.quote = order.quote
      /\ o2.vat = order.vat /\ o2.paid_on = order.paid_on
  BY <1>2 DEF Orders, OrderStatus
<1> HIDE DEF o2
<1>5. /\ order'.status = DRAFT /\ order'.quote = order.quote
      /\ order'.paid_on = order.paid_on
      /\ order' = Reprice(order', work.estimated)
      /\ \A s \in Requests : Fresh(view[s])'
  BY <1>1, <1>3, <1>4, SerialSave
<1>6. /\ Len(quotes') = Len(quotes)
      /\ quotes'[order.quote].cancelled_on
      /\ \A i \in 1..Len(quotes) : i # order.quote => quotes'[i] = quotes[i]
  <2>1. order.quote \in 1..Len(quotes) /\ quotes[order.quote] \in Quotes
    BY <1>2, <1>3 DEF None
  <2>2. CancelledQuote(quotes[order.quote]).cancelled_on
    BY <2>1 DEF CancelledQuote, Quotes
  <2>3. QED
    BY <1>2, <1>3, <2>1, <2>2
<1>7. PriceUpToDate'
  BY <1>3, <1>5 DEF PriceUpToDate
<1>8. OneActiveQuote'
  BY <1>2, <1>5, <1>6 DEF SerialInv, Promises, OneActiveQuote
<1>9. QuoteState' = "withdrawn"
  BY <1>3, <1>5, <1>6 DEF QuoteState
<1>10. Lifecycle!QuoteMatchesStatus' /\ QuotedPrice' /\ InvoiceUpToDate'
  BY <1>5, <1>9 DEF Lifecycle!QuoteMatchesStatus, QuotedPrice, InvoiceUpToDate,
     DRAFT, AWAITING, ACCEPTED, PAID, COMPLETE,
     Lifecycle!DRAFT, Lifecycle!AWAITING, Lifecycle!ACCEPTED, Lifecycle!PAID,
     Lifecycle!COMPLETE
<1>11. PaidOnceInFull'
  <2>1. ~order.paid_on /\ payments = <<>>
    BY <1>2, <1>3 DEF SerialInv, Promises, PaidOnceInFull, RowConsistent,
       AWAITING, ACCEPTED, PAID, COMPLETE, CANCELLED
  <2>2. QED
    BY <1>3, <1>5, <2>1 DEF PaidOnceInFull
<1>12. LifecycleStep
  BY <1>3, <1>5, <1>9 DEF LifecycleStep, Lifecycle!Next, Lifecycle!Reopen,
     DRAFT, AWAITING, ACCEPTED, Lifecycle!DRAFT, Lifecycle!AWAITING, Lifecycle!ACCEPTED
<1>13. QED
  BY <1>5, <1>7, <1>8, <1>10, <1>11, <1>12 DEF SerialInv, Promises

\* The order and its new invoice are made of the same copy.
LEMMA SerialSaveInvoiced ==
  ASSUME OneAtATime, SerialInv, NEW r \in Requests, view[r].phase = "ready",
         NEW o \in Orders, SaveInvoiced(r, o)
  PROVE  /\ order'.status = o.status /\ order'.quote = o.quote
         /\ order'.vat = o.vat /\ order'.paid_on = o.paid_on
         /\ order'.subtotal = Subtotal(o.vat, work.estimated)
         /\ order'.total = Total(o.vat, work.estimated)
         /\ order' = Reprice(order', work.estimated)
         /\ \A s \in Requests : Fresh(view[s])'
         /\ invoices'[order'.invoice] = [vat |-> order'.vat, total |-> order'.total]
<1> DEFINE o2 == [o EXCEPT !.invoice = Len(invoices) + 1]
           time == work.estimated
<1>1. view[r].work = work
  BY SerialCopies
<1>2. /\ invoices \in Seq(Invoices) /\ Len(invoices) \in Nat /\ time \in Estimates
      /\ Save(r, o2)
      /\ invoices' = Append(invoices, Invoiced(o, time))
  BY <1>1 DEF SaveInvoiced, SerialInv, IInv, TypeOK, Works
<1>3. /\ o2 \in Orders /\ o2.invoice = Len(invoices) + 1
      /\ o2.status = o.status /\ o2.quote = o.quote
      /\ o2.vat = o.vat /\ o2.paid_on = o.paid_on
  <2>1. \A n \in Nat : LET p == [o EXCEPT !.invoice = n] IN
           p \in Orders /\ p.invoice = n /\ p.status = o.status /\ p.quote = o.quote
           /\ p.vat = o.vat /\ p.paid_on = o.paid_on
    BY DEF Orders
  <2>2. Len(invoices) + 1 \in Nat
    BY <1>2
  <2>3. QED
    BY <2>1, <2>2
<1>4. /\ Invoiced(o, time) \in Invoices
      /\ Invoiced(o, time) = [vat |-> o.vat, total |-> Total(o.vat, time)]
  BY <1>2, PriceType, RepriceColumns DEF Invoiced, Invoices, Orders
<1>5. invoices'[Len(invoices) + 1] = [vat |-> o.vat, total |-> Total(o.vat, time)]
  BY <1>2, <1>4
<1> HIDE DEF o2
<1>6. QED
  BY <1>2, <1>3, <1>5, SerialSave

LEMMA SerialAcceptQuote ==
  ASSUME OneAtATime, SerialInv, IInv', NEW r \in Requests, AcceptQuote(r)
  PROVE  SerialInv' /\ LifecycleStep
<1> DEFINE o1 == [order EXCEPT !.status = ACCEPTED]
<1>1. view[r].phase = "ready"
  BY DEF AcceptQuote
<1>2. /\ view[r].order = order /\ view[r].quote = QuoteOf(order)
      /\ order \in Orders /\ quotes \in Seq(Quotes)
      /\ Len(quotes) \in Nat /\ order.quote \in Nat /\ order.quote <= Len(quotes)
      /\ (order.quote # None => QuoteOf(order) = quotes[order.quote])
      /\ RowConsistent(order, quotes, invoices, payments)
  BY <1>1, SerialCopies
<1>3. /\ order.status = AWAITING /\ order.quote # None
      /\ ~quotes[order.quote].cancelled_on
      /\ quotes' = IF quotes[order.quote].accepted_on THEN quotes
                   ELSE [quotes EXCEPT ![order.quote] = AcceptedQuote(quotes[order.quote])]
      /\ SaveInvoiced(r, o1)
      /\ UNCHANGED <<payments, work>>
  BY <1>2 DEF AcceptQuote
<1>4. o1 \in Orders /\ o1.status = ACCEPTED /\ o1.quote = order.quote
      /\ o1.vat = order.vat /\ o1.paid_on = order.paid_on
  BY <1>2 DEF Orders, OrderStatus
<1> HIDE DEF o1
<1>5. /\ order'.status = ACCEPTED /\ order'.quote = order.quote
      /\ order'.paid_on = order.paid_on
      /\ order' = Reprice(order', work.estimated)
      /\ \A s \in Requests : Fresh(view[s])'
      /\ invoices'[order'.invoice] = [vat |-> order'.vat, total |-> order'.total]
  BY <1>1, <1>3, <1>4, SerialSaveInvoiced
<1>6. /\ Len(quotes') = Len(quotes)
      /\ ~quotes'[order.quote].cancelled_on /\ quotes'[order.quote].accepted_on
      /\ quotes'[order.quote].price = quotes[order.quote].price
      /\ \A i \in 1..Len(quotes) : i # order.quote => quotes'[i] = quotes[i]
  <2>1. order.quote \in 1..Len(quotes) /\ quotes[order.quote] \in Quotes
    BY <1>2, <1>3 DEF None
  <2>2. /\ AcceptedQuote(quotes[order.quote]).accepted_on
        /\ ~AcceptedQuote(quotes[order.quote]).cancelled_on
        /\ AcceptedQuote(quotes[order.quote]).price = quotes[order.quote].price
    BY <1>3, <2>1 DEF AcceptedQuote, Quotes
  <2>3. QED
    BY <1>2, <1>3, <2>1, <2>2
<1>7. PriceUpToDate' /\ InvoiceUpToDate'
  BY <1>3, <1>5 DEF PriceUpToDate, InvoiceUpToDate
<1>8. OneActiveQuote'
  BY <1>2, <1>5, <1>6 DEF SerialInv, Promises, OneActiveQuote, ACCEPTED, DRAFT
<1>9. QuoteState' = "accepted" /\ QuoteState = "offered"
  <2>1. QuoteState' = "accepted"
    BY <1>3, <1>5, <1>6 DEF QuoteState
  <2>2. QuoteState = "offered"
    BY <1>3 DEF SerialInv, Promises, Lifecycle!QuoteMatchesStatus,
       AWAITING, Lifecycle!AWAITING
  <2>3. QED
    BY <2>1, <2>2
<1>10. Lifecycle!QuoteMatchesStatus' /\ QuotedPrice'
  BY <1>3, <1>5, <1>6, <1>9 DEF Lifecycle!QuoteMatchesStatus, QuotedPrice,
     SerialInv, Promises, AWAITING, ACCEPTED, Lifecycle!DRAFT, Lifecycle!AWAITING
<1>11. PaidOnceInFull'
  <2>1. ~order.paid_on /\ payments = <<>>
    BY <1>2, <1>3 DEF SerialInv, Promises, PaidOnceInFull, RowConsistent,
       AWAITING, PAID, COMPLETE, CANCELLED
  <2>2. QED
    BY <1>3, <1>5, <2>1 DEF PaidOnceInFull
<1>12. LifecycleStep
  BY <1>3, <1>5, <1>9 DEF LifecycleStep, Lifecycle!Next, Lifecycle!AcceptQuote,
     AWAITING, ACCEPTED, Lifecycle!AWAITING, Lifecycle!ACCEPTED
<1>13. QED
  BY <1>5, <1>7, <1>8, <1>10, <1>11, <1>12 DEF SerialInv, Promises

\* The VAT moves only until the order is paid, and its invoice moves with it.
LEMMA SerialUpdateOrder ==
  ASSUME OneAtATime, SerialInv, IInv', NEW r \in Requests, NEW vat \in Vats,
         NEW invoiceRelated \in BOOLEAN, UpdateOrder(r, vat, invoiceRelated)
  PROVE  SerialInv' /\ LifecycleStep
<1> DEFINE o1 == [order EXCEPT !.vat = vat]
<1>1. view[r].phase = "ready"
  BY DEF UpdateOrder
<1>2. /\ view[r].order = order /\ order \in Orders
      /\ RowConsistent(order, quotes, invoices, payments)
  BY <1>1, SerialCopies
<1>3. /\ vat # order.vat => invoiceRelated /\ InvoiceFieldsEditable(order)
      /\ IF NeedsInvoice(order, invoiceRelated)
         THEN SaveInvoiced(r, o1)
         ELSE Save(r, o1) /\ UNCHANGED invoices
      /\ UNCHANGED <<quotes, payments, work>>
  BY <1>2 DEF UpdateOrder
<1>4. o1 \in Orders /\ o1.status = order.status /\ o1.quote = order.quote
      /\ o1.invoice = order.invoice /\ o1.vat = vat /\ o1.paid_on = order.paid_on
  BY <1>2 DEF Orders
<1>5. vat = order.vat => o1 = order
  BY <1>2 DEF Orders
<1> HIDE DEF o1
<1>6. /\ order'.status = order.status /\ order'.quote = order.quote
      /\ order'.paid_on = order.paid_on /\ order'.vat = vat
      /\ order'.total = Total(vat, work.estimated)
      /\ order' = Reprice(order', work.estimated)
      /\ \A s \in Requests : Fresh(view[s])'
  <2>1. CASE NeedsInvoice(order, invoiceRelated)
    BY <1>1, <1>3, <1>4, <2>1, SerialSaveInvoiced
  <2>2. CASE ~NeedsInvoice(order, invoiceRelated)
    BY <1>1, <1>3, <1>4, <2>2, SerialSave
  <2>3. QED
    BY <2>1, <2>2
<1>7. /\ OneActiveQuote' /\ Lifecycle!QuoteMatchesStatus' /\ QuotedPrice'
      /\ LifecycleStep
  BY <1>3, <1>6, SerialSameStatus
<1>8. PriceUpToDate'
  BY <1>3, <1>6 DEF PriceUpToDate
<1>9. InvoiceUpToDate'
  <2>1. CASE NeedsInvoice(order, invoiceRelated)
    <3>1. invoices'[order'.invoice] = [vat |-> order'.vat, total |-> order'.total]
      BY <1>1, <1>3, <1>4, <2>1, SerialSaveInvoiced
    <3>2. QED
      BY <3>1 DEF InvoiceUpToDate
  <2>2. CASE ~NeedsInvoice(order, invoiceRelated)
    <3>1. SUFFICES ASSUME order.status \in {ACCEPTED, PAID, COMPLETE}
                   PROVE  invoices'[order'.invoice] = [vat |-> order'.vat,
                                                      total |-> order'.total]
      BY <1>6 DEF InvoiceUpToDate
    <3>2. vat = order.vat
      BY <1>3, <2>2, <3>1 DEF NeedsInvoice, InvoiceFieldsEditable,
         DRAFT, AWAITING, ACCEPTED, PAID, COMPLETE
    <3>3. order'.total = order.total /\ order'.vat = order.vat
      BY <1>6, <3>2, RightPrice
    <3>4. order'.invoice = order.invoice /\ invoices' = invoices
      BY <1>1, <1>3, <1>4, <2>2, SerialSave
    <3>5. QED
      BY <3>1, <3>3, <3>4 DEF SerialInv, Promises, InvoiceUpToDate
  <2>3. QED
    BY <2>1, <2>2
<1>10. PaidOnceInFull'
  <2>1. CASE order.paid_on
    <3>1. vat = order.vat
      BY <1>2, <1>3, <2>1 DEF RowConsistent, InvoiceFieldsEditable,
         DRAFT, AWAITING, ACCEPTED, PAID, COMPLETE, CANCELLED
    <3>2. order'.total = order.total
      BY <1>6, <3>1, RightPrice
    <3>3. QED
      BY <1>3, <1>6, <2>1, <3>2 DEF SerialInv, Promises, PaidOnceInFull
  <2>2. CASE ~order.paid_on
    BY <1>3, <1>6, <2>2 DEF SerialInv, Promises, PaidOnceInFull
  <2>3. QED
    BY <2>1, <2>2
<1>11. QED
  BY <1>6, <1>7, <1>8, <1>9, <1>10 DEF SerialInv, Promises

\* The estimates move in draft only, and the price with them.
LEMMA SerialUpdateAssignees ==
  ASSUME OneAtATime, SerialInv, IInv', NEW r \in Requests, NEW time \in Estimates,
         NEW recorded \in BOOLEAN, UpdateAssignees(r, time, recorded)
  PROVE  SerialInv' /\ LifecycleStep
<1>1. view[r].phase = "ready"
  BY DEF UpdateAssignees
<1>2. /\ view[r].order = order /\ order \in Orders
      /\ RowConsistent(order, quotes, invoices, payments)
  BY <1>1, SerialCopies
<1>3. /\ order' = Reprice(order, time) /\ work'.estimated = time
      /\ view' = [view EXCEPT ![r] = Idle]
      /\ UNCHANGED <<quotes, invoices, payments>>
      /\ time # work.estimated => order.status = DRAFT
  BY <1>2 DEF UpdateAssignees, PriceChanges, AssigneesEditable
<1>4. /\ order'.status = order.status /\ order'.quote = order.quote
      /\ order'.invoice = order.invoice /\ order'.vat = order.vat
      /\ order'.paid_on = order.paid_on
      /\ order'.total = Total(order.vat, time)
      /\ order' = Reprice(order', time)
  BY <1>2, <1>3, RepriceColumns
<1>5. \A s \in Requests : Fresh(view[s])'
  BY <1>3, AloneIdle DEF SerialInv, IInv
<1> HIDE DEF Fresh
<1>6. order.status # DRAFT => order'.total = order.total /\ work'.estimated = work.estimated
  BY <1>3, <1>4, RightPrice
<1>7. /\ OneActiveQuote' /\ Lifecycle!QuoteMatchesStatus' /\ QuotedPrice'
      /\ LifecycleStep
  <2>1. order.status \in {AWAITING, ACCEPTED, PAID, COMPLETE} =>
          work'.estimated = work.estimated
    BY <1>6 DEF DRAFT, AWAITING, ACCEPTED, PAID, COMPLETE
  <2>2. QED
    BY <1>3, <1>4, <2>1, SerialSameStatus
<1>8. PriceUpToDate'
  BY <1>3, <1>4 DEF PriceUpToDate
<1>9. InvoiceUpToDate'
  BY <1>3, <1>4, <1>6 DEF SerialInv, Promises, InvoiceUpToDate,
     DRAFT, ACCEPTED, PAID, COMPLETE
<1>10. PaidOnceInFull'
  <2>1. order.paid_on => order.status # DRAFT
    BY <1>2 DEF RowConsistent, DRAFT, PAID, COMPLETE, CANCELLED
  <2>2. QED
    BY <1>3, <1>4, <1>6, <2>1 DEF SerialInv, Promises, PaidOnceInFull
<1>11. QED
  BY <1>5, <1>7, <1>8, <1>9, <1>10 DEF SerialInv, Promises

\* A handler that only moves the status keeps the price, the quote and the
\* invoice, in a status that asks no more of them.
LEMMA SerialMove ==
  ASSUME OneAtATime, SerialInv, NEW r \in Requests, view[r].phase = "ready",
         NEW o \in Orders, Save(r, o), UNCHANGED <<quotes, invoices, work>>,
         o.quote = order.quote, o.invoice = order.invoice, o.vat = order.vat,
         o.status \in {PAID, COMPLETE, CANCELLED},
         o.status \in {PAID, COMPLETE} => order.status \in {ACCEPTED, PAID}
  PROVE  /\ order'.status = o.status /\ order'.paid_on = o.paid_on
         /\ order'.total = order.total
         /\ QuoteState' = QuoteState
         /\ \A s \in Requests : Fresh(view[s])'
         /\ PriceUpToDate' /\ OneActiveQuote' /\ Lifecycle!QuoteMatchesStatus'
         /\ QuotedPrice' /\ InvoiceUpToDate'
<1>1. /\ order'.status = o.status /\ order'.quote = order.quote
      /\ order'.invoice = order.invoice /\ order'.vat = order.vat
      /\ order'.paid_on = o.paid_on
      /\ order'.total = order.total
      /\ order' = Reprice(order', work.estimated)
      /\ \A s \in Requests : Fresh(view[s])'
  BY SerialSave, RightPrice
<1>2. PriceUpToDate'
  BY <1>1 DEF PriceUpToDate
<1>3. QuoteState' = QuoteState
  BY <1>1 DEF QuoteState
<1>4. OneActiveQuote'
  BY <1>1 DEF SerialInv, Promises, OneActiveQuote, DRAFT, PAID, COMPLETE, CANCELLED
<1>5. Lifecycle!QuoteMatchesStatus'
  BY <1>1, <1>3 DEF SerialInv, Promises, Lifecycle!QuoteMatchesStatus,
     DRAFT, AWAITING, ACCEPTED, PAID, COMPLETE, CANCELLED,
     Lifecycle!DRAFT, Lifecycle!AWAITING, Lifecycle!ACCEPTED, Lifecycle!PAID,
     Lifecycle!COMPLETE
<1>6. QuotedPrice' /\ InvoiceUpToDate'
  BY <1>1 DEF SerialInv, Promises, QuotedPrice, InvoiceUpToDate,
     AWAITING, ACCEPTED, PAID, COMPLETE, CANCELLED
<1>7. QED
  BY <1>1, <1>2, <1>3, <1>4, <1>5, <1>6

LEMMA SerialMarkAsPaid ==
  ASSUME OneAtATime, SerialInv, IInv', NEW r \in Requests, NEW amount \in Amounts,
         MarkAsPaid(r, amount)
  PROVE  SerialInv' /\ LifecycleStep
<1> DEFINE o1 == [order EXCEPT !.status = PAID, !.paid_on = TRUE]
<1>1. view[r].phase = "ready"
  BY DEF MarkAsPaid
<1>2. /\ view[r].order = order /\ order \in Orders
      /\ RowConsistent(order, quotes, invoices, payments)
  BY <1>1, SerialCopies
<1>3. /\ order.status = ACCEPTED /\ amount >= order.total
      /\ payments' = Append(payments, amount)
      /\ Save(r, o1)
      /\ UNCHANGED <<quotes, invoices, work>>
  BY <1>2 DEF MarkAsPaid, Payable, Reconcilable
<1>4. o1 \in Orders /\ o1.status = PAID /\ o1.quote = order.quote
      /\ o1.invoice = order.invoice /\ o1.vat = order.vat /\ o1.paid_on
  BY <1>2 DEF Orders, OrderStatus
<1> HIDE DEF o1
<1>5. /\ order'.status = PAID /\ order'.paid_on
      /\ order'.total = order.total
      /\ QuoteState' = QuoteState
      /\ \A s \in Requests : Fresh(view[s])'
      /\ PriceUpToDate' /\ OneActiveQuote' /\ Lifecycle!QuoteMatchesStatus'
      /\ QuotedPrice' /\ InvoiceUpToDate'
  BY <1>1, <1>3, <1>4, SerialMove
<1>6. PaidOnceInFull'
  <2>1. payments = <<>>
    BY <1>2, <1>3 DEF SerialInv, Promises, PaidOnceInFull, RowConsistent,
       ACCEPTED, PAID, COMPLETE, CANCELLED
  <2>2. Len(payments') = 1 /\ payments'[1] = amount
    BY <1>3, <2>1
  <2>3. QED
    BY <1>3, <1>5, <2>2 DEF PaidOnceInFull
<1>7. LifecycleStep
  <2>1. QuoteState = "accepted"
    BY <1>3 DEF SerialInv, Promises, Lifecycle!QuoteMatchesStatus,
       ACCEPTED, Lifecycle!ACCEPTED
  <2>2. QED
    BY <1>3, <1>5, <2>1 DEF LifecycleStep, Lifecycle!Next, Lifecycle!MarkAsPaid,
       ACCEPTED, PAID, Lifecycle!ACCEPTED, Lifecycle!PAID
<1>8. QED
  BY <1>5, <1>6, <1>7 DEF SerialInv, Promises

LEMMA SerialCompleteOrder ==
  ASSUME OneAtATime, SerialInv, IInv', NEW r \in Requests, CompleteOrder(r)
  PROVE  SerialInv' /\ LifecycleStep
<1> DEFINE o1 == [order EXCEPT !.status = COMPLETE, !.completed_on = TRUE]
<1>1. view[r].phase = "ready"
  BY DEF CompleteOrder
<1>2. view[r].order = order /\ order \in Orders
  BY <1>1, SerialCopies
<1>3. /\ order.status = PAID /\ Save(r, o1)
      /\ UNCHANGED <<quotes, invoices, payments, work>>
  BY <1>2 DEF CompleteOrder, Completable
<1>4. o1 \in Orders /\ o1.status = COMPLETE /\ o1.quote = order.quote
      /\ o1.invoice = order.invoice /\ o1.vat = order.vat /\ o1.paid_on = order.paid_on
  BY <1>2 DEF Orders, OrderStatus
<1> HIDE DEF o1
<1>5. /\ order'.status = COMPLETE /\ order'.paid_on = order.paid_on
      /\ order'.total = order.total
      /\ QuoteState' = QuoteState
      /\ \A s \in Requests : Fresh(view[s])'
      /\ PriceUpToDate' /\ OneActiveQuote' /\ Lifecycle!QuoteMatchesStatus'
      /\ QuotedPrice' /\ InvoiceUpToDate'
  BY <1>1, <1>3, <1>4, SerialMove
<1>6. PaidOnceInFull'
  BY <1>3, <1>5 DEF SerialInv, Promises, PaidOnceInFull
<1>7. LifecycleStep
  BY <1>3, <1>5 DEF LifecycleStep, Lifecycle!Next, Lifecycle!Deliver,
     PAID, COMPLETE, Lifecycle!PAID, Lifecycle!COMPLETE
<1>8. QED
  BY <1>5, <1>6, <1>7 DEF SerialInv, Promises

LEMMA SerialCancelOrder ==
  ASSUME OneAtATime, SerialInv, IInv', NEW r \in Requests, NEW force \in BOOLEAN,
         CancelOrder(r, force)
  PROVE  SerialInv' /\ LifecycleStep
<1> DEFINE o1 == [order EXCEPT !.status = CANCELLED, !.cancelled_on = TRUE]
<1>1. view[r].phase = "ready"
  BY DEF CancelOrder
<1>2. view[r].order = order /\ order \in Orders
  BY <1>1, SerialCopies
<1>3. /\ Cancellable(order, force) /\ Save(r, o1)
      /\ UNCHANGED <<quotes, invoices, payments, work>>
  BY <1>2 DEF CancelOrder
<1>4. o1 \in Orders /\ o1.status = CANCELLED /\ o1.quote = order.quote
      /\ o1.invoice = order.invoice /\ o1.vat = order.vat /\ o1.paid_on = order.paid_on
  BY <1>2 DEF Orders, OrderStatus
<1> HIDE DEF o1
<1>5. /\ order'.status = CANCELLED /\ order'.paid_on = order.paid_on
      /\ order'.total = order.total
      /\ QuoteState' = QuoteState
      /\ \A s \in Requests : Fresh(view[s])'
      /\ PriceUpToDate' /\ OneActiveQuote' /\ Lifecycle!QuoteMatchesStatus'
      /\ QuotedPrice' /\ InvoiceUpToDate'
  BY <1>1, <1>3, <1>4, SerialMove DEF PAID, COMPLETE, CANCELLED
<1>6. PaidOnceInFull'
  BY <1>3, <1>5 DEF SerialInv, Promises, PaidOnceInFull
<1>7. LifecycleStep
  <2>1. Lifecycle!Cancel(force)
    BY <1>3, <1>5 DEF Cancellable, Lifecycle!Cancel,
       DRAFT, AWAITING, ACCEPTED, PAID, CANCELLED,
       Lifecycle!DRAFT, Lifecycle!AWAITING, Lifecycle!ACCEPTED, Lifecycle!PAID,
       Lifecycle!CANCELLED
  <2>2. QED
    BY <2>1 DEF LifecycleStep, Lifecycle!Next
<1>8. QED
  BY <1>5, <1>6, <1>7 DEF SerialInv, Promises

LEMMA SerialStep ==
  ASSUME OneAtATime, SerialInv, [Next]_vars
  PROVE  SerialInv' /\ LifecycleStep
<1>1. IInv'
  BY StepInv DEF SerialInv
<1>2. CASE UNCHANGED vars
  <2>1. UNCHANGED <<order, quotes, invoices, payments, work, view>>
    BY <1>2 DEF vars
  <2>2. QED
    BY <1>1, <2>1 DEF SerialInv, Promises, Fresh, QuoteOf, PriceUpToDate, OneActiveQuote,
       QuotedPrice, Lifecycle!QuoteMatchesStatus, QuoteState, InvoiceUpToDate,
       PaidOnceInFull, LifecycleStep, Lifecycle!vars
<1>3. ASSUME NEW r \in Requests, Load(r) \/ Read(r) \/ Reject(r)
      PROVE  SerialInv' /\ LifecycleStep
  BY <1>1, <1>3, SerialReading
<1>4. ASSUME NEW r \in Requests, GenerateQuote(r) PROVE SerialInv' /\ LifecycleStep
  BY <1>1, <1>4, SerialGenerateQuote
<1>5. ASSUME NEW r \in Requests, Reopen(r) PROVE SerialInv' /\ LifecycleStep
  BY <1>1, <1>5, SerialReopen
<1>6. ASSUME NEW r \in Requests, AcceptQuote(r) PROVE SerialInv' /\ LifecycleStep
  BY <1>1, <1>6, SerialAcceptQuote
<1>7. ASSUME NEW r \in Requests, NEW vat \in Vats, NEW b \in BOOLEAN,
             UpdateOrder(r, vat, b)
      PROVE  SerialInv' /\ LifecycleStep
  BY <1>1, <1>7, SerialUpdateOrder
<1>8. ASSUME NEW r \in Requests, NEW time \in Estimates, NEW b \in BOOLEAN,
             UpdateAssignees(r, time, b)
      PROVE  SerialInv' /\ LifecycleStep
  BY <1>1, <1>8, SerialUpdateAssignees
<1>9. ASSUME NEW r \in Requests, NEW amount \in Amounts, MarkAsPaid(r, amount)
      PROVE  SerialInv' /\ LifecycleStep
  BY <1>1, <1>9, SerialMarkAsPaid
<1>10. ASSUME NEW r \in Requests, CompleteOrder(r) PROVE SerialInv' /\ LifecycleStep
  BY <1>1, <1>10, SerialCompleteOrder
<1>11. ASSUME NEW r \in Requests, NEW force \in BOOLEAN, CancelOrder(r, force)
       PROVE  SerialInv' /\ LifecycleStep
  BY <1>1, <1>11, SerialCancelOrder
<1>12. QED
  BY <1>2, <1>3, <1>4, <1>5, <1>6, <1>7, <1>8, <1>9, <1>10, <1>11 DEF Next

LEMMA SerialInvariance ==
  ASSUME OneAtATime
  PROVE  Spec => []SerialInv
<1>1. SerialInv /\ [Next]_vars => SerialInv'
  BY SerialStep
<1>2. QED
  BY <1>1, SerialInit, PTL DEF Spec

\* One request at a time, the order implements its documented lifecycle: every
\* handler that commits is one step of OrderLifecycle or none (Order docstring,
\* omis/order/models.py:94-118).
THEOREM OrderImplementsLifecycle ==
  ASSUME OneAtATime
  PROVE  Spec => LifecycleSpec
<1>1. SerialInv /\ [Next]_vars => [Lifecycle!Next]_(Lifecycle!vars)
  BY SerialStep DEF LifecycleStep
<1>2. Init => Lifecycle!Init
  BY SerialInit
<1>3. QED
  BY <1>1, <1>2, SerialInvariance, PTL DEF Spec, LifecycleSpec, Lifecycle!Spec

\* One request at a time, the client never holds two quotes that can be
\* accepted (omis/order/validators.py:234-247).
THEOREM SerialOneActiveQuote ==
  ASSUME OneAtATime
  PROVE  Spec => []OneActiveQuote
<1>1. SerialInv => OneActiveQuote
  BY DEF SerialInv, Promises
<1>2. QED
  BY <1>1, SerialInvariance, PTL

\* One request at a time, a sent order costs what its quote says, however often
\* its VAT was blanked and filled in again (omis/order/pricing.py:105-122).
THEOREM SerialChargedAsQuoted ==
  ASSUME OneAtATime
  PROVE  Spec => []ChargedAsQuoted
<1>1. SerialInv => ChargedAsQuoted
  <2>1. SUFFICES ASSUME SerialInv, order.vat # "unset",
                        order.status \in {AWAITING, ACCEPTED, PAID, COMPLETE}
                 PROVE  order.subtotal = quotes[order.quote].price
    BY DEF ChargedAsQuoted
  <2>2. quotes[order.quote].price = Rate * work.estimated
    BY <2>1 DEF SerialInv, Promises, QuotedPrice
  <2>3. QED
    BY <2>1, <2>2, RightPrice DEF Subtotal
<1>2. QED
  BY <1>1, SerialInvariance, PTL

\* One request at a time, the latest invoice of an accepted order has the
\* order's VAT and total (omis/invoice/models.py:64-66).
THEOREM SerialInvoiceUpToDate ==
  ASSUME OneAtATime
  PROVE  Spec => []InvoiceUpToDate
<1>1. SerialInv => InvoiceUpToDate
  BY DEF SerialInv, Promises
<1>2. QED
  BY <1>1, SerialInvariance, PTL

\* One request at a time, an order is paid once and in full
\* (Order.mark_as_paid, omis/order/models.py:500-539).
THEOREM SerialPaidOnceInFull ==
  ASSUME OneAtATime
  PROVE  Spec => []PaidOnceInFull
<1>1. SerialInv => PaidOnceInFull
  BY DEF SerialInv, Promises
<1>2. QED
  BY <1>1, SerialInvariance, PTL

\* One request at a time, the price columns are the price of the assignees'
\* times (omis/order/signal_receivers.py:8-35).
THEOREM SerialPriceUpToDate ==
  ASSUME OneAtATime
  PROVE  Spec => []PriceUpToDate
<1>1. SerialInv => PriceUpToDate
  BY DEF SerialInv, Promises
<1>2. QED
  BY <1>1, SerialInvariance, PTL

=============================================================================
