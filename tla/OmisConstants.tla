--------------------------- MODULE OmisConstants ----------------------------
(***************************************************************************)
(* Names shared by the OMIS modules: the statuses of an order              *)
(* (omis/order/constants.py) and of a payment gateway session              *)
(* (omis/payment/constants.py).                                            *)
(***************************************************************************)

DRAFT == "draft"
AWAITING == "quote_awaiting_acceptance"
ACCEPTED == "quote_accepted"
PAID == "paid"
COMPLETE == "complete"
CANCELLED == "cancelled"

OrderStatus == {DRAFT, AWAITING, ACCEPTED, PAID, COMPLETE, CANCELLED}

\* Sessions a client may still pay with, and sessions that are over.
OngoingStatus == {"created", "started", "submitted"}
FinishedStatus == {"success", "failed", "cancelled", "error"}

SessionStatus == OngoingStatus \cup FinishedStatus

=============================================================================
