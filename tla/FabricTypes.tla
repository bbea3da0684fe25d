----------------------------- MODULE FabricTypes -----------------------------
(***************************************************************************)
(* The names shared by every module of the fabric: GPU nodes, jobs, the    *)
(* values of Node.Status and Job.Status, and the requirements of a job     *)
(* reduced to the set of nodes whose resources satisfy them.               *)
(***************************************************************************)
EXTENDS Naturals, FiniteSets

CONSTANTS
  Nodes,     \* node ids, the common names of the client certificates
  NoNode,    \* the empty node_id
  Jobs,      \* job ids, numbered in the order of Job.CreatedAt
  NoJob,     \* the empty job id
  CanRun     \* CanRun[j]: the nodes whose GPUs and models satisfy job j

ASSUME NodesAssumption == NoNode \notin Nodes
ASSUME JobsAssumption == Jobs \subseteq Nat /\ NoJob \notin Jobs
ASSUME CanRunAssumption == CanRun \in [Jobs -> SUBSET Nodes]

NodeOrNone == Nodes \cup {NoNode}
JobOrNone == Jobs \cup {NoJob}

\* "none" stands for an id that is not in the store.
JobStatuses == {"none", "queued", "pending", "running", "succeeded", "failed"}
Terminal == {"succeeded", "failed"}
InFlight == {"pending", "running"}

\* "absent" stands for a node with no row in the registry.
NodeStatuses == {"absent", "JOINED", "READY", "BUSY", "DRAINING", "OFFLINE"}

\* Job.Error, reduced to who wrote it: the worker's own error, an execution
\* aborted by its cancelled context, or the reason the plane gave up.
WorkerErrors == {"exec", "cancelled"}
PlaneErrors == {"timeout", "left", "restarted", "notrunning"}
JobErrors == {""} \cup WorkerErrors \cup PlaneErrors
=============================================================================
