\* What the services beside OMIS bring to an end, on smaller instances.
CONSTANTS
  Components = {"documents", "search", "ingest", "reminders"}
  Requests = {r1}
  Jobs = {j1, j2}
  DocumentKinds = {"entity", "generic"}
  Docs = {d1}
  Workers = {w1, w2}
  Identifiers = {t1}
  DueItems = {1, 2}
  Slots = {j1}
  Mails = {m1}
  Threshold = 1
  Companies = {c1, c2}
  Items = {i1, i2}
  None = None
  MaxRetries = 0
  MaxResends = 0
  MaxCalls = 1
  MaxIndex = 2
  MaxVersion = 2
  MaxObjects = 2
  MaxTime = 1
  MaxRuns = 1
  MaxReminders = 2
  MaxSent = 2
SPECIFICATION FairSpec
PROPERTIES ScanEnds RowsAreFound   
CHECK_DEADLOCK FALSE
