CONSTANTS
  HasTemplate = TRUE
  NumIntf = 1
  NumDisk = 1
  EmptyLists = FALSE
  Cdrom = 0
  Requests = {r1, r2}
  Ops <- PowerTraffic
  Images = {iso1}
  NoImage = NoImage
  Policies = {"nil", "Always"}
  MaxOrder = 1
  Faults = {"error", "lost", "crash", "interrupt", "edit"}
SYMMETRY Symmetry
SPECIFICATION Spec
INVARIANTS TypeOK MachineValid
PROPERTIES ImplementsAtomicBmc
