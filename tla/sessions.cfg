CONSTANTS
  Clients = {c1, c2}
  Ids = {id1, id2, id3}
SPECIFICATION Spec
INVARIANTS OnlyTrustedServed SessionsLast
