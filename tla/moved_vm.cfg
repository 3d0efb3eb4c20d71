CONSTANTS
  Bmcs = {b1}
  VMs = {v1, v2}
  Secrets = {s1}
  None = None
  UserOps = {"editBMC"}
  MaxEdits = 1
  Faults = {}
  MaxFaults = 0
SPECIFICATION Spec
PROPERTIES EventuallyCollected
CHECK_DEADLOCK FALSE
