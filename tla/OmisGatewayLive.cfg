\* A view, a job and a creator compete for one session of an order.
CONSTANTS
  Viewers = {v1}
  Jobs = {j1}
  Creators = {c1}
  Nobody = Nobody
  Prices = {1, 2}
  GovUkStatus = {"submitted", "success"}
  MaxSessions = 1
SPECIFICATION FairSpec
  
PROPERTY PaidIsCredited
CHECK_DEADLOCK FALSE
