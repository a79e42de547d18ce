\* Two browsers create sessions while a third looks at them and the job refreshes.
CONSTANTS
  Viewers = {v1}
  Jobs = {j1}
  Creators = {c1, c2}
  Nobody = Nobody
  Prices = {1}
  GovUkStatus = {"started", "success"}
  MaxSessions = 2
SPECIFICATION Spec
SYMMETRY ProcSymmetry
INVARIANTS TypeOK OnePayable FinishedAsGovUk  RefreshCannotDeadlock
CHECK_DEADLOCK FALSE
