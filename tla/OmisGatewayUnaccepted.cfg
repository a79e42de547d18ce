\* The order is reopened while a session is being created.
CONSTANTS
  Viewers = {}
  Jobs = {}
  Creators = {c1}
  Nobody = Nobody
  Prices = {1}
  GovUkStatus = {"started", "success"}
  MaxSessions = 1
SPECIFICATION Spec
PROPERTY SessionOnlyIfAccepted
CHECK_DEADLOCK FALSE
