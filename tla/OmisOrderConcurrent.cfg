\* Two requests at a time, on copies that may be stale: what survives lost updates.
CONSTANTS
  Requests = {r1, r2}
  Rate = 5
  VatRate = 1
  Vats = {"unset", "charged"}
  Estimates = {0, 1}
  Amounts = {6}
  MaxQuotes = 1
  MaxInvoices = 2
  MaxPayments = 1
SPECIFICATION Spec
SYMMETRY RequestSymmetry
INVARIANTS  OrderConsistent InvoiceVatCurrent PriceBelongsToVat
