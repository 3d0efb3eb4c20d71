CONSTANTS
  Bmcs = {b1}
  VMs = {v1}
  Secrets = {s1}
  None = None
  UserOps = {"createBMC", "deleteBMC", "editVM"}
  MaxEdits = 2
  Faults = {}
  MaxFaults = 0
SPECIFICATION Spec
PROPERTIES EventuallyServing EventuallyCollected
CHECK_DEADLOCK FALSE
