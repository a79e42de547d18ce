\* The search alone, with two mappings deployed after the first.
CONSTANTS
  Components = {"search"}
  Requests = {r1}
  Jobs = {j1}
  DocumentKinds = {"entity"}
  Docs = {d1}
  Workers = {w1}
  Identifiers = {t1}
  DueItems = {1}
  Slots = {j1}
  Mails = {m1}
  Threshold = 1
  Companies = {c1, c2}
  Items = {i1}
  None = None
  MaxRetries = 0
  MaxResends = 0
  MaxCalls = 1
  MaxIndex = 3
  MaxVersion = 2
  MaxObjects = 1
  MaxTime = 1
  MaxRuns = 1
  MaxReminders = 1
  MaxSent = 1
SPECIFICATION Spec
PROPERTY FoundStaysFound
CHECK_DEADLOCK FALSE
