\* One request at a time: the promises of the documentation hold.
CONSTANTS
  Requests = {r1}
  Rate = 5
  VatRate = 1
  Vats = {"unset", "charged", "exempt"}
  Estimates = {0, 1, 2}
  Amounts = {0, 5, 6, 10, 12}
  MaxQuotes = 2
  MaxInvoices = 3
  MaxPayments = 2
SPECIFICATION Spec
INVARIANTS TypeOK OneActiveQuote ChargedAsQuoted InvoiceUpToDate PaidOnceInFull PriceUpToDate
PROPERTY LifecycleSpec

