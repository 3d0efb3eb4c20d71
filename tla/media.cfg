CONSTANTS
  HasTemplate = TRUE
  NumIntf = 0
  NumDisk = 1
  EmptyLists = TRUE
  Cdrom = 1
  Requests = {r1, r2}
  Ops <- MediaTraffic
  Images = {iso1, iso2}
  NoImage = NoImage
  Policies = {"Always"}
  MaxOrder = 0
  Faults = {"error", "lost", "crash", "edit"}
SYMMETRY Symmetry
SPECIFICATION Spec
INVARIANTS AttachedMediaExists MediaLock
PROPERTIES AttachedMediaStable ImplementsAtomicBmc
