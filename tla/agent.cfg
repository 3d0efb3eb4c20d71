CONSTANTS
  HasTemplate = TRUE
  NumIntf = 0
  NumDisk = 2
  EmptyLists = TRUE
  Cdrom = 2
  Requests = {r1}
  Ops <- AllOps
  Images = {iso1, iso2}
  NoImage = NoImage
  Policies = {"nil", "Halted"}
  MaxOrder = 0
  Faults = {"crash", "interrupt"}
  Commands <- AllCommands
  NoCommand = NoCommand
SPECIFICATION AgentSpec
INVARIANTS AgentTypeOK SuccessMeansDone MediaStatusCurrent BootOverrideInForce
PROPERTIES StopCompletes
