\* A request that read the order before it was paid takes it back to draft.
CONSTANTS
  Requests = {r1, r2}
  Rate = 5
  VatRate = 1
  Vats = {"unset", "charged"}
  Estimates = {0, 1}
  Amounts = {6}
  MaxQuotes = 1
  MaxInvoices = 1
  MaxPayments = 1
SPECIFICATION Spec
PROPERTY PaidIsNotReopened
