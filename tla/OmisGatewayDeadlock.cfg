\* Two creators wait for each other.
CONSTANTS
  Viewers = {}
  Jobs = {}
  Creators = {c1, c2}
  Nobody = Nobody
  Prices = {1}
  GovUkStatus = {"started", "success"}
  MaxSessions = 1
SPECIFICATION Spec
INVARIANT NoWaitCycle
CHECK_DEADLOCK FALSE
