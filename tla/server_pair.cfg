SPECIFICATION Spec
CONSTANTS
  n1 = n1  n2 = n2  a = a  b = b  c1 = c1  c2 = c2
  Nodes = {n1}
  NoNode = NoNode
  Tokens = {a}
  Unissued = Unissued
  Calls = {c1, c2}
  NoToken = NoToken
  NoCallId = NoCallId
  MaxStarts = 3
  MaxCalls = 1
  MaxMoves = 1
  MaxEdits = 0
SYMMETRY Symmetry
INVARIANT NoPanic
CHECK_DEADLOCK FALSE
