SPECIFICATION Spec
CONSTANTS
  Nodes = {1, 2}
  Models <- SmallModels
  Catalog <- SmallCatalog
  Entry <- SmallEntry
  NamedTools <- NamesWithTools
  SizeBytes <- Sizes
  NoNode = NoNode
  NoModel = NoModel
  c1 = c1  c2 = c2
  Clients = {c1, c2}
  Prompts <- OnePrompt
  Reports <- TwoReports
SYMMETRY Symmetry
INVARIANTS TypeOK ToolsReachToolModel 
