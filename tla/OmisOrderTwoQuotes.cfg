\* Two requests send a quote for the same draft.
CONSTANTS
  Requests = {r1, r2}
  Rate = 5
  VatRate = 1
  Vats = {"unset", "charged"}
  Estimates = {0, 1}
  Amounts = {6}
  MaxQuotes = 2
  MaxInvoices = 1
  MaxPayments = 1
SPECIFICATION Spec
INVARIANT OneActiveQuote
