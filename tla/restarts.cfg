SPECIFICATION Spec
CONSTANTS
  n1 = n1  n2 = n2  a = a  b = b  c1 = c1  c2 = c2
  Nodes = {n1}
  NoNode = NoNode
  Tokens = {a, b}
  Unissued = Unissued
  Calls = {c1, c2}
  NoToken = NoToken
  NoCallId = NoCallId
  MaxStarts = 2
  MaxCalls = 4
  MaxMoves = 1
  MaxEdits = 1
SYMMETRY Symmetry
INVARIANTS CAStable ServesTrusted
 
CHECK_DEADLOCK FALSE
