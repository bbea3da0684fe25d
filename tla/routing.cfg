SPECIFICATION Spec
CONSTANTS
  Nodes = {1}
  Models <- TextModels
  Catalog <- TextCatalog
  Entry <- TextEntry
  NamedTools <- NamesWithTools
  SizeBytes <- Sizes
  NoNode = NoNode
  NoModel = NoModel
  c1 = c1  c2 = c2
  Clients = {c1}
  Prompts <- SomePrompts
  Reports <- AllReports
INVARIANTS  RightSized
