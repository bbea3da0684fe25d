----------------------------- MODULE ControlPlane -----------------------------
(***************************************************************************)
(* The request handlers and the sweeper of the control plane               *)
(* (internal/server/server.go, scheduler.go, mtls.go).                     *)
(*                                                                         *)
(* net/http runs every request in a goroutine of its own.  The two stores  *)
(* lock themselves, but no lock spans two calls of a handler: a handler is *)
(* a chain of steps, one per store call, and steps of different handlers   *)
(* interleave.  A call slot holds one such chain: the operation, the step  *)
(* it is at, its arguments, and who waits for the answer.                  *)
(***************************************************************************)
EXTENDS JobStore, NodeStore

CONSTANT Threads   \* call slots: the handlers that may be in progress at once

ASSUME ThreadsAssumption == Threads # {}

VARIABLES
  jobs,    \* the job store
  nodes,   \* the node registry
  calls    \* the handler in each slot

Ops == {"idle", "join", "heartbeat", "drain", "leave", "claim", "result",
        "submit", "sweep"}

Pcs == {"idle", "upsert", "auth", "beat", "failexcept", "mark", "get",
        "leavefail", "offline", "remove", "gate", "take", "busy", "complete",
        "ready", "check", "create", "stale", "expire", "queued", "snapshot",
        "assign", "done"}

\* What a call carries besides the node and the job: a join's or a
\* heartbeat's status, a result's outcome, the command behind a drain; at
\* "done" the answer.
Args == {"", "READY", "BUSY", "DRAINING", "JOINED",
         "ok", "exec", "cancelled", "thenleave",
         "job", "nojob", "unenrolled", "unregistered", "conflict", "lost"}

\* The goroutine of the node's agent that waits for the answer, if any does.
Waiters == {"main", "report", "nobody"}

Call == [op : Ops, pc : Pcs, n : NodeOrNone, j : JobOrNone, arg : Args,
         who : Waiters, q : SUBSET Jobs, up : SUBSET Nodes]

Idle == [op |-> "idle", pc |-> "idle", n |-> NoNode, j |-> NoJob, arg |-> "",
         who |-> "nobody", q |-> {}, up |-> {}]

Request(op, pc, n, j, arg, who) ==
  [Idle EXCEPT !.op = op, !.pc = pc, !.n = n, !.j = j, !.arg = arg, !.who = who]

Free(t) == calls[t].op = "idle"

At(t, pc) == calls[t].pc = pc

Goto(t, pc) == calls' = [calls EXCEPT ![t].pc = pc]

\* writeJSON and return.  The answer waits for its client, if it has one.
Reply(t, answer) ==
  calls' = [calls EXCEPT ![t] =
              IF @.who = "nobody" THEN Idle
              ELSE [@ EXCEPT !.pc = "done", !.arg = answer,
                             !.q = {}, !.up = {}]]

-----------------------------------------------------------------------------
(* checkNodeCert: a certificate whose node has no row is answered 401, for *)
(* every operation but join.                                               *)

AfterAuth == [heartbeat |-> "beat", drain |-> "mark", leave |-> "get",
              claim |-> "gate", result |-> "complete"]

Authenticate(t) ==
  /\ At(t, "auth")
  /\ IF Registered(nodes, calls[t].n)
     THEN Goto(t, AfterAuth[calls[t].op])
     ELSE Reply(t, "unenrolled")
  /\ UNCHANGED <<jobs, nodes>>

-----------------------------------------------------------------------------
(* handleJoin and handleHeartbeat.                                         *)

JoinUpsert(t) ==
  /\ At(t, "upsert")
  /\ nodes' = NodeUpsert(nodes, calls[t].n, calls[t].arg)
  /\ Goto(t, "failexcept")
  /\ UNCHANGED jobs

\* The call keeps the status the registry settled on.
Beat(t) ==
  LET n == calls[t].n
      row == NodeHeartbeat(nodes, n, calls[t].arg, calls[t].j)
  IN /\ At(t, "beat")
     /\ IF Registered(nodes, n)
        THEN /\ nodes' = row
             /\ calls' = [calls EXCEPT ![t].pc = "failexcept",
                                       ![t].arg = row[n].status]
        ELSE Reply(t, "unregistered") /\ UNCHANGED nodes
     /\ UNCHANGED jobs

\* Mutant of FailLost: a heartbeat without a job fails nothing.
FailLostIfBusy(t) ==
  LET c == calls[t]
  IN /\ At(t, "failexcept")
     /\ jobs' = IF c.op = "heartbeat" /\ c.j = NoJob THEN jobs
                ELSE FailRunningExcept(jobs, c.n, c.j,
                       IF c.op = "join" THEN "restarted" ELSE "notrunning")
     /\ IF c.op = "join" \/ c.arg = "READY" THEN Goto(t, "queued") ELSE Reply(t, c.arg)
     /\ UNCHANGED nodes

\* A join passes the empty job id of a worker that has just started.
FailLost(t) ==
  LET c == calls[t]
  IN /\ At(t, "failexcept")
     /\ jobs' = FailRunningExcept(jobs, c.n, c.j,
                  IF c.op = "join" THEN "restarted" ELSE "notrunning")
     /\ IF c.op = "join" \/ c.arg = "READY"
        THEN Goto(t, "queued")
        ELSE Reply(t, c.arg)
     /\ UNCHANGED nodes

-----------------------------------------------------------------------------
(* handleDrain and handleLeave; `houdry node leave` sends both in turn.    *)

Drain(t) ==
  LET c == calls[t]
  IN /\ At(t, "mark")
     /\ IF Registered(nodes, c.n)
        THEN /\ nodes' = NodeSetDrain(nodes, c.n)
             /\ IF c.arg = "thenleave"
                THEN calls' = [calls EXCEPT ![t] =
                       Request("leave", "auth", c.n, NoJob, "", "nobody")]
                ELSE Reply(t, "DRAINING")
        ELSE Reply(t, "unregistered") /\ UNCHANGED nodes
     /\ UNCHANGED jobs

HasActiveJob(row) ==
  row.status = "BUSY" \/ (row.status = "DRAINING" /\ row.job # NoJob)

LeaveGet(t) ==
  LET row == nodes[calls[t].n]
  IN /\ At(t, "get")
     /\ IF row.status = "absent" THEN Reply(t, "unregistered")
        ELSE IF HasActiveJob(row) THEN Reply(t, "conflict")
        ELSE Goto(t, "leavefail")
     /\ UNCHANGED <<jobs, nodes>>

LeaveFail(t) ==
  /\ At(t, "leavefail")
  /\ jobs' = FailRunningForNode(jobs, calls[t].n, "left")
  /\ Goto(t, "offline")
  /\ UNCHANGED nodes

LeaveOffline(t) ==
  /\ At(t, "offline")
  /\ nodes' = NodeSetStatus(nodes, calls[t].n, "OFFLINE", NoJob)
  /\ Goto(t, "remove")
  /\ UNCHANGED jobs

LeaveRemove(t) ==
  /\ At(t, "remove")
  /\ nodes' = NodeRemove(nodes, calls[t].n)
  /\ Reply(t, "ok")
  /\ UNCHANGED jobs

-----------------------------------------------------------------------------
(* handleClaimJob.                                                         *)

\* Mutant of ClaimGate: any registered node may claim.
ClaimGateOpen(t) ==
  /\ At(t, "gate")
  /\ IF Registered(nodes, calls[t].n) THEN Goto(t, "take") ELSE Reply(t, "unregistered")
  /\ UNCHANGED <<jobs, nodes>>

ClaimGate(t) ==
  LET row == nodes[calls[t].n]
  IN /\ At(t, "gate")
     /\ IF row.status = "absent" THEN Reply(t, "unregistered")
        ELSE IF row.status # "READY" THEN Reply(t, "nojob")
        ELSE Goto(t, "take")
     /\ UNCHANGED <<jobs, nodes>>

ClaimTake(t) ==
  LET mine == Claimable(jobs, calls[t].n)
  IN /\ At(t, "take")
     /\ IF mine = {}
        THEN Reply(t, "nojob") /\ UNCHANGED jobs
        ELSE \E j \in mine :
               /\ Earliest(j, mine)
               /\ jobs' = JobClaim(jobs, j)
               /\ calls' = [calls EXCEPT ![t].pc = "busy", ![t].j = j]
     /\ UNCHANGED nodes

\* Mutant of ClaimBusy: the row is left for the next heartbeat to update.
ClaimStaysReady(t) ==
  /\ At(t, "busy")
  /\ Reply(t, "job")
  /\ UNCHANGED <<jobs, nodes>>

ClaimBusy(t) ==
  /\ At(t, "busy")
  /\ nodes' = NodeSetStatus(nodes, calls[t].n, "BUSY", calls[t].j)
  /\ Reply(t, "job")
  /\ UNCHANGED jobs

-----------------------------------------------------------------------------
(* handleJobResult.                                                        *)

ResultComplete(t) ==
  /\ At(t, "complete")
  /\ jobs' = JobComplete(jobs, calls[t].j, calls[t].arg)
  /\ Goto(t, "ready")
  /\ UNCHANGED nodes

ResultReady(t) ==
  /\ At(t, "ready")
  /\ nodes' = NodeSetStatus(nodes, calls[t].n, "READY", NoJob)
  /\ Goto(t, "queued")
  /\ UNCHANGED jobs

-----------------------------------------------------------------------------
(* handleSubmitJob: c.n is the preferred node, if the request names one.   *)

SubmitCheck(t) ==
  LET pref == calls[t].n
  IN /\ At(t, "check")
     /\ IF pref = NoNode \/ (pref \in Nodes /\ Registered(nodes, pref))
        THEN Goto(t, "create")
        ELSE Reply(t, "unregistered")
     /\ UNCHANGED <<jobs, nodes>>

SubmitCreate(t) ==
  /\ At(t, "create")
  /\ jobs' = JobCreate(jobs, calls[t].j, calls[t].n)
  /\ Goto(t, "queued")
  /\ UNCHANGED nodes

-----------------------------------------------------------------------------
(* sweepOffline, one tick.  The jobs of the nodes that newly went OFFLINE  *)
(* are failed node by node, after the registry has been unlocked.          *)

SweepStale(t) ==
  LET S == Stale(nodes)
  IN /\ At(t, "stale")
     /\ nodes' = NodeMarkOffline(nodes, S)
     /\ calls' = [calls EXCEPT ![t].pc = IF S = {} THEN "queued" ELSE "expire",
                               ![t].up = S]
     /\ UNCHANGED jobs

\* Mutant of SweepExpire: an expired node keeps its jobs in flight.
SweepForgets(t) ==
  /\ At(t, "expire")
  /\ Goto(t, "queued")
  /\ UNCHANGED <<jobs, nodes>>

SweepExpire(t) ==
  /\ At(t, "expire")
  /\ \E n \in calls[t].up :
       /\ jobs' = FailRunningForNode(jobs, n, "timeout")
       /\ calls' = [calls EXCEPT
                      ![t].up = @ \ {n},
                      ![t].pc = IF calls[t].up = {n} THEN "queued" ELSE @]
  /\ UNCHANGED nodes

-----------------------------------------------------------------------------
(* tryScheduleQueued: the tail of join, heartbeat, result, submit, sweep.  *)
(* It reads the queued jobs, then the nodes, then assigns from those two   *)
(* copies.  ModelScore ranks the nodes that fit; any of them may be best.  *)

\* Mutant of Candidates: only the preferred node will do.
OnlyPreferred(up, j) == {n \in up : n \in CanRun[j] /\ jobs[j].pref = n}

Candidates(up, j) ==
  {n \in up : n \in CanRun[j] /\ jobs[j].pref \in {NoNode, n}}

Finish(t) ==
  Reply(t, IF calls[t].op = "heartbeat" THEN calls[t].arg ELSE "ok")

SchedQueued(t) ==
  LET q == WithStatus(jobs, "queued")
  IN /\ At(t, "queued")
     /\ IF q = {} THEN Finish(t)
        ELSE calls' = [calls EXCEPT ![t].pc = "snapshot", ![t].q = q]
     /\ UNCHANGED <<jobs, nodes>>

SchedSnapshot(t) ==
  /\ At(t, "snapshot")
  /\ calls' = [calls EXCEPT ![t].pc = "assign", ![t].up = ReadyNodes(nodes)]
  /\ UNCHANGED <<jobs, nodes>>

\* One turn of the loop over the queued jobs, oldest first.
SchedAssign(t) ==
  LET c == calls[t]
  IN /\ At(t, "assign")
     /\ \E j \in c.q :
          /\ Earliest(j, c.q)
          /\ \/ Candidates(c.up, j) = {} /\ UNCHANGED jobs
             \/ \E n \in Candidates(c.up, j) : jobs' = JobAssign(jobs, j, n)
          /\ IF c.q = {j} THEN Finish(t)
             ELSE calls' = [calls EXCEPT ![t].q = @ \ {j}]
     /\ UNCHANGED nodes

-----------------------------------------------------------------------------
Handle(t) ==
  \/ Authenticate(t)
  \/ JoinUpsert(t) \/ Beat(t) \/ FailLost(t)
  \/ Drain(t) \/ LeaveGet(t) \/ LeaveFail(t) \/ LeaveOffline(t) \/ LeaveRemove(t)
  \/ ClaimGate(t) \/ ClaimTake(t) \/ ClaimBusy(t)
  \/ ResultComplete(t) \/ ResultReady(t)
  \/ SubmitCheck(t) \/ SubmitCreate(t)
  \/ SweepStale(t) \/ SweepExpire(t)
  \/ SchedQueued(t) \/ SchedSnapshot(t) \/ SchedAssign(t)
=============================================================================
