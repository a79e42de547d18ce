\* A slow view takes a finished session back.
CONSTANTS
  Viewers = {v1}
  Jobs = {j1}
  Creators = {c1}
  Nobody = Nobody
  Prices = {1}
  GovUkStatus = {"started", "success"}
  MaxSessions = 1
SPECIFICATION Spec
PROPERTY FinishedStaysFinished
CHECK_DEADLOCK FALSE
