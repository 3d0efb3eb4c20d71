CONSTANTS
  Clients = {c1}
  Ids = {id1}
SPECIFICATION Spec
INVARIANTS LogoutEndsSession
