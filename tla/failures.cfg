CONSTANTS
  Bmcs = {b1}
  VMs = {v1}
  Secrets = {s1}
  None = None
  UserOps = {"editVM", "editSecret"}
  MaxEdits = 2
  Faults = {"error", "restart"}
  MaxFaults = 1
SPECIFICATION Spec
INVARIANTS TypeOK NoLostWakeup
PROPERTIES StatusNotLost EventuallyStopped EventuallyTruthful
CHECK_DEADLOCK FALSE
