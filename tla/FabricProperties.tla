---------------------------- MODULE FabricProperties ----------------------------
(***************************************************************************)
(* What the fabric keeps, and what its documents say of it.                *)
(***************************************************************************)
EXTENDS Fabric

\* Every variable has its type (the types of Node, Job, the request handlers
\* of server.go and the local state of Run in agent.go).
TypeOK ==
  /\ jobs \in [Jobs -> JobRec]
  /\ nodes \in [Nodes -> NodeRec]
  /\ calls \in [Threads -> Call]
  /\ agents \in [Nodes -> Agent]
  /\ budget \in Nat

-----------------------------------------------------------------------------
(* Custody.  From the moment JobStore.Claim marks a job running, one thing *)
(* in the whole system may still turn into its report: the claim handler   *)
(* or its answer, the goroutine executing it, or the report on its way.    *)

Carries(c, j) ==
  /\ c.j = j
  /\ \/ c.op = "claim" /\ (c.pc = "busy" \/ (c.pc = "done" /\ c.arg = "job"))
     \/ c.op = "result" /\ c.pc \in {"auth", "complete"}

CallHolds(t, j) == Carries(calls[t], j)

AgentHolds(n, j) == agents[n].exec = "run" /\ agents[n].busy = j

\* A job is never executed or reported twice (handleClaimJob, Run's goroutine,
\* handleJobResult): no two claim handlers, executions or reports hold the same
\* job, whatever is lost, abandoned, restarted or repeated.
OneHolder ==
  \A j \in Jobs :
    /\ \A t, u \in Threads : CallHolds(t, j) /\ CallHolds(u, j) => t = u
    /\ \A n, m \in Nodes : AgentHolds(n, j) /\ AgentHolds(m, j) => n = m
    /\ \A t \in Threads, n \in Nodes : ~(CallHolds(t, j) /\ AgentHolds(n, j))

Undecided(r) == r.status = "running" \/ (r.status = "failed" /\ r.err \in PlaneErrors)

Reportable(j) == Undecided(jobs[j])

\* Whoever holds a job works for the node it was assigned to, and the plane has
\* not recorded a report for it yet: Complete, which checks neither the status
\* nor the owner, is never reached for any other job (JobStore.Complete).
HolderIsOwner ==
  \A j \in Jobs :
    /\ \A t \in Threads : CallHolds(t, j) => Reportable(j) /\ jobs[j].node = calls[t].n
    /\ \A n \in Nodes : AgentHolds(n, j) => Reportable(j) /\ jobs[j].node = n

JL == INSTANCE JobLifecycle WITH job <- jobs

\* The fabric implements the abstract life cycle of a job: one placement, one
\* hand-out, and a report that is final (the JobStore under all its callers).
LifecycleSpec == JL!Spec

-----------------------------------------------------------------------------
(* The registry against the jobs, whenever no handler is in progress.      *)

Quiet == \A t \in Threads : calls[t].pc \in {"idle", "done"}

OnNode(n, s) == {j \in Jobs : jobs[j].status = s /\ jobs[j].node = n}

\* A node executes one job at a time: the READY gate of handleClaimJob and the
\* later SetStatus BUSY, which are two steps, do not let a second job be taken
\* while the first is still recorded as running, as long as no claim meets an
\* abandoned request of its agent (Sequenced in FabricOrder).
OneJobPerNode == \A n \in Nodes : Cardinality(OnNode(n, "running")) <= 1

\* READY means idle ("agent heartbeating, idle", store.go): the scheduler and
\* the claim gate, which look only at the row, never offer work to a node with
\* a running job (handleHeartbeat, handleJobResult, SetStatus).
ReadyIsIdle == Quiet => \A n \in ReadyNodes(nodes) : OnNode(n, "running") = {}

\* A job failed as "worker is no longer running this job" is not running there:
\* a heartbeat that carries an older view of busyJob never fails the job the
\* agent has claimed since (handleHeartbeat, FailRunningExcept).
NotRunningIsTrue ==
  \A j \in Jobs, n \in Nodes : AgentHolds(n, j) => jobs[j].err # "notrunning"

\* No job stays in flight on a node that has left or gone OFFLINE: its agent
\* would have to come back for anyone to look at it again (handleLeave,
\* sweepOffline).
NoOrphan ==
  Quiet => \A j \in Jobs : jobs[j].status \in InFlight =>
             nodes[jobs[j].node].status \notin {"absent", "OFFLINE"}

-----------------------------------------------------------------------------
(* Liveness.                                                               *)

Serves(n, j) ==
  /\ n \in CanRun[j] /\ jobs[j].pref \in {NoNode, n}
  /\ agents[n].pc # "down" /\ ~agents[n].cancelled /\ ~agents[n].draining
  /\ Registered(nodes, n)

\* No in-flight job hangs: the worker reports it, or the plane notices that it
\* is gone (sweepOffline, the heartbeat's FailRunningExcept, leave, join).
InFlightSettles ==
  \A j \in Jobs : jobs[j].status \in InFlight ~> jobs[j].status \in Terminal

\* A submitted job ends if some agent that may take it stays at work and in the
\* registry (tryScheduleQueued from join, heartbeat, result, submit and sweep).
ServedInTheEnd ==
  \A j \in Jobs :
    (\E n \in Nodes : <>[]Serves(n, j)) =>
      [](jobs[j].status = "queued" => <>(jobs[j].status \in Terminal))
=============================================================================
