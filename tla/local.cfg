SPECIFICATION Spec
CONSTANTS
  c1 = c1  c2 = c2  j1 = j1  j2 = j2
  Names = {"qwen"}
  Tags = {"7b", "latest"}
  Latest = "latest"
  NoTag = "none"
  Refs <- TwoRefs
  Window <- TwoWindows
  Override = 0
  Uncapped = FALSE
  Chats = {c1, c2}
  Forms <- SomeForms
  NoChat = NoChat
  MaxAttempts = 2
  Jobs = {j1, j2}
  Wanted <- FullNames
  NoModel = NoModel
  Shapes <- SomeShapes
  MaxRequests = 2
  LastSecond = 2
SYMMETRY Symmetry
INVARIANTS TypeOK  NoneTwice WindowAsked   
PROPERTY GoneIsGone
CHECK_DEADLOCK FALSE
