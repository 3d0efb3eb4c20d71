CONSTANTS
  Bmcs = {b1}
  VMs = {v1}
  Secrets = {s1, s2}
  None = None
  UserOps = {"editVM", "editBMC", "editSecret"}
  MaxEdits = 2
  Faults = {}
  MaxFaults = 0
SPECIFICATION Spec
PROPERTIES EventuallyServing EventuallyTruthful
CHECK_DEADLOCK FALSE
