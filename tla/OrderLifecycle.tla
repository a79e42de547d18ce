--------------------------- MODULE OrderLifecycle ---------------------------
(***************************************************************************)
(* What an OMIS order promises to the adviser and to the client: the       *)
(* states of the docstring of class Order (omis/order/models.py) and the   *)
(* quote that goes with each of them, as methods of Order move them.       *)
(* Every step is atomic: the abstract order knows nothing of database      *)
(* rows, stale copies or concurrent requests.                              *)
(***************************************************************************)

EXTENDS OmisConstants

VARIABLES status,   \* the status of the order
          quote     \* what became of the latest quote

vars == <<status, quote>>

QuoteStates == {"none", "offered", "accepted", "withdrawn"}

TypeOK == /\ status \in OrderStatus
          /\ quote \in QuoteStates

Init == /\ status = DRAFT
        /\ quote = "none"

-----------------------------------------------------------------------------

\* The adviser sends a quote: only for a draft whose last quote is gone.
GenerateQuote == /\ status = DRAFT
                 /\ quote \in {"none", "withdrawn"}
                 /\ status' = AWAITING
                 /\ quote' = "offered"

\* The adviser takes the quote back; the client's acceptance, if any, goes too.
Reopen == /\ status \in {AWAITING, ACCEPTED}
          /\ status' = DRAFT
          /\ quote' = "withdrawn"

\* The client accepts the quote that is on offer.
AcceptQuote == /\ status = AWAITING
               /\ quote = "offered"
               /\ status' = ACCEPTED
               /\ quote' = "accepted"

\* The client pays for what he accepted.
MarkAsPaid == /\ status = ACCEPTED
              /\ quote = "accepted"
              /\ status' = PAID
              /\ UNCHANGED quote

\* The adviser has delivered.
Deliver == /\ status = PAID
           /\ status' = COMPLETE
           /\ UNCHANGED quote

\* An adviser gives up a draft or a quote nobody accepted yet; an
\* administrator may also cancel an accepted or a paid order.
Cancel(force) == /\ \/ status \in {DRAFT, AWAITING}
                    \/ force /\ status \in {ACCEPTED, PAID}
                 /\ status' = CANCELLED
                 /\ UNCHANGED quote

Next == \/ GenerateQuote
        \/ Reopen
        \/ AcceptQuote
        \/ MarkAsPaid
        \/ Deliver
        \/ \E force \in BOOLEAN : Cancel(force)

Spec == Init /\ [][Next]_vars

-----------------------------------------------------------------------------

\* The quote always agrees with the status: a sent order has an offer open, an
\* accepted, paid or complete order rests on an accepted quote, and a draft
\* has no live quote (Order docstring, omis/order/models.py:94-118).
QuoteMatchesStatus ==
  /\ status = AWAITING => quote = "offered"
  /\ status \in {ACCEPTED, PAID, COMPLETE} => quote = "accepted"
  /\ status = DRAFT => quote \in {"none", "withdrawn"}

=============================================================================
