CONSTANTS
  Bmcs = {b1}
  VMs = {v1}
  Secrets = {s1, s2}
  None = None
  UserOps = {"editVM", "editBMC", "editSecret", "resync"}
  MaxEdits = 1
  Faults = {"restart"}
  MaxFaults = 1
SPECIFICATION Spec
PROPERTIES EventuallyServing
CHECK_DEADLOCK FALSE
