CONSTANTS
  HasTemplate = TRUE
  NumIntf = 0
  NumDisk = 1
  EmptyLists = FALSE
  Cdrom = 1
  Requests = {r1}
  Ops = {"Insert"}
  Images = {iso1}
  NoImage = NoImage
  Policies = {"Always"}
  MaxOrder = 0
  Faults = {}
SPECIFICATION Spec
INVARIANTS InsertNotBlocked
