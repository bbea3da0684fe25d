SPECIFICATION Spec
CONSTANTS
  n1 = n1  n2 = n2  t1 = t1  t2 = t2
  Nodes <- TwoNodes
  NoNode = NoNode
  Jobs <- OneJob
  NoJob = NoJob
  CanRun <- AnyNode
  Threads = {t1, t2}
  Faults <- FaultKinds
  Budget = 1
SYMMETRY Symmetry
INVARIANTS TypeOK OneHolder IInv HolderIsOwner
PROPERTY LifecycleSpec
