CONSTANTS
  Bmcs = {b1}
  VMs = {v1}
  Secrets = {s1}
  None = None
  UserOps = {"editSecret"}
  MaxEdits = 1
  Faults = {"error"}
  MaxFaults = 2
SPECIFICATION Spec
PROPERTIES EventuallyServing
CHECK_DEADLOCK FALSE
