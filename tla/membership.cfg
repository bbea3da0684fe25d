SPECIFICATION Spec
CONSTANTS
  n1 = n1  n2 = n2  a = a  b = b  c1 = c1  c2 = c2
  Nodes = {n1, n2}
  NoNode = NoNode
  Tokens = {a, b}
  Unissued = Unissued
  Calls = {c1, c2}
  NoToken = NoToken
  NoCallId = NoCallId
  MaxStarts = 1
  MaxCalls = 4
  MaxMoves = 0
  MaxEdits = 0
SYMMETRY Symmetry
INVARIANTS TypeOK  CertIsOwn
PROPERTY RevokedIsFinal
CHECK_DEADLOCK FALSE
