\* Each of the services beside OMIS, with two of whatever may compete.
CONSTANTS
  Components = {"documents", "search", "ingest", "reminders", "merges", "projects"}
  Requests = {r1, r2}
  Jobs = {j1, j2}
  DocumentKinds = {"entity", "generic"}
  Docs = {d1}
  Workers = {w1, w2}
  Identifiers = {t1}
  DueItems = {1, 2}
  Slots = {j1, j2}
  Mails = {m1}
  Threshold = 1
  Companies = {c1, c2}
  Items = {i1, i2}
  None = None
  MaxRetries = 1
  MaxResends = 0
  MaxCalls = 2
  MaxIndex = 2
  MaxVersion = 2
  MaxObjects = 2
  MaxTime = 3
  MaxRuns = 2
  MaxReminders = 2
  MaxSent = 2
SPECIFICATION Spec
SYMMETRY Symmetry
INVARIANTS TypeOK
   ErasedOnlyIfAsked 
  AliasesSound
  OneJobPerObject NewestIsStored
  OneReminder MailedOnce DeliveryIsTrue
    
  StageIsComplete StageIsLogged
PROPERTY FoundStaysFound
CHECK_DEADLOCK FALSE
