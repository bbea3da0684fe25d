SPECIFICATION FairSpec
CONSTANTS
  n1 = n1  n2 = n2  t1 = t1  t2 = t2
  Nodes <- OneNode
  NoNode = NoNode
  Jobs <- TwoJobs
  NoJob = NoJob
  CanRun <- AnyNode
  Threads = {t1}
  Faults <- AgentFaults
  Budget = 2
PROPERTIES  ServedInTheEnd
