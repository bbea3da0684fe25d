------------------------------ MODULE FabricProofs ------------------------------
(***************************************************************************)
(* Proofs about Fabric, for every set of nodes, jobs and call slots and    *)
(* every budget of faults.                                                 *)
(***************************************************************************)
EXTENDS FabricInvariant, TLAPS

-----------------------------------------------------------------------------
(* The stores' operators.                                                  *)

\* Every method of JobStore keeps the type of the store.
LEMMA JobStoreTypes ==
  ASSUME NEW js \in [Jobs -> JobRec], NEW j \in Jobs
  PROVE  /\ \A p \in NodeOrNone : JobCreate(js, j, p) \in [Jobs -> JobRec]
         /\ \A n \in Nodes : JobAssign(js, j, n) \in [Jobs -> JobRec]
         /\ JobClaim(js, j) \in [Jobs -> JobRec]
         /\ \A o \in {"ok"} \cup WorkerErrors : JobComplete(js, j, o) \in [Jobs -> JobRec]
<1>1. \A p \in NodeOrNone : JobCreate(js, j, p) \in [Jobs -> JobRec]
  BY DEF JobCreate, NoJobRec, JobRec, JobStatuses, NodeOrNone, JobErrors
<1>2. \A n \in Nodes : JobAssign(js, j, n) \in [Jobs -> JobRec]
  BY DEF JobAssign, JobRec, JobStatuses, NodeOrNone
<1>3. JobClaim(js, j) \in [Jobs -> JobRec]
  BY DEF JobClaim, JobRec, JobStatuses
<1>4. \A o \in {"ok"} \cup WorkerErrors : JobComplete(js, j, o) \in [Jobs -> JobRec]
  BY DEF JobComplete, JobRec, JobStatuses, JobErrors, WorkerErrors
<1>. QED BY <1>1, <1>2, <1>3, <1>4

\* Failing the in-flight jobs of a node (failInFlight) keeps the type of the
\* job store.
LEMMA FailInFlightType ==
  ASSUME NEW js \in [Jobs -> JobRec], NEW n, NEW k, NEW e \in PlaneErrors, NEW b
  PROVE  FailInFlight(js, n, k, e, b) \in [Jobs -> JobRec]
BY DEF FailInFlight, JobRec, JobStatuses, JobErrors

\* Every method of Store keeps the type of the registry.
LEMMA NodeStoreTypes ==
  ASSUME NEW ns \in [Nodes -> NodeRec], NEW n \in Nodes, NEW j \in JobOrNone
  PROVE  /\ \A s \in {"READY", "JOINED"} : NodeUpsert(ns, n, s) \in [Nodes -> NodeRec]
         /\ \A s \in {"READY", "BUSY", "DRAINING"} :
              /\ NodeHeartbeat(ns, n, s, j) \in [Nodes -> NodeRec]
              /\ NodeHeartbeat(ns, n, s, j)[n].status \in {"READY", "BUSY", "DRAINING"}
         /\ \A s \in NodeStatuses : NodeSetStatus(ns, n, s, j) \in [Nodes -> NodeRec]
         /\ NodeSetDrain(ns, n) \in [Nodes -> NodeRec]
         /\ NodeRemove(ns, n) \in [Nodes -> NodeRec]
<1>. USE DEF NodeRec, NodeStatuses, JobOrNone
<1>1. \A s \in {"READY", "JOINED"} : NodeUpsert(ns, n, s) \in [Nodes -> NodeRec]
  BY DEF NodeUpsert
<1>2. \A s \in {"READY", "BUSY", "DRAINING"} :
        /\ NodeHeartbeat(ns, n, s, j) \in [Nodes -> NodeRec]
        /\ NodeHeartbeat(ns, n, s, j)[n].status \in {"READY", "BUSY", "DRAINING"}
  BY DEF NodeHeartbeat
<1>3. \A s \in NodeStatuses : NodeSetStatus(ns, n, s, j) \in [Nodes -> NodeRec]
  BY DEF NodeSetStatus
<1>4. NodeSetDrain(ns, n) \in [Nodes -> NodeRec]
  BY DEF NodeSetDrain
<1>5. NodeRemove(ns, n) \in [Nodes -> NodeRec]
  BY DEF NodeRemove, Absent
<1>. QED BY <1>1, <1>2, <1>3, <1>4, <1>5

-----------------------------------------------------------------------------
(* Types, and the shape of handlers.                                       *)

\* A call slot that is given a well-formed call keeps all of them well-formed.
LEMMA NewCall ==
  ASSUME calls \in [Threads -> Call], Shape,
         NEW t \in Threads, NEW c \in Call, CallShape(c),
         calls' = [calls EXCEPT ![t] = c]
  PROVE  calls' \in [Threads -> Call] /\ Shape'
BY DEF Shape

\* The fields of a well-formed call, one by one.
LEMMA Goes ==
  ASSUME calls \in [Threads -> Call], Shape, NEW t \in Threads, NEW pc \in Pcs,
         Goto(t, pc), pc \in Steps[calls[t].op], Unanswered(calls[t]),
         pc \notin {"done", "busy", "snapshot", "assign"}
  PROVE  calls' \in [Threads -> Call] /\ Shape'
<1>. DEFINE c == [calls[t] EXCEPT !.pc = pc]
<1>1. calls' = [calls EXCEPT ![t] = c]
  BY DEF Goto
<1>2. c \in Call
  BY DEF Call
<1>3. CallShape(c)
  BY DEF CallShape, Shape, Call, Unanswered
<1>. QED BY <1>1, <1>2, <1>3, NewCall

\* An answer, to a client that waits or to none, keeps slots well formed.
LEMMA Replies ==
  ASSUME calls \in [Threads -> Call], Shape, NEW t \in Threads, NEW a \in Args,
         Reply(t, a), calls[t].op # "idle",
         a = "job" => calls[t].op = "claim" /\ calls[t].j \in Jobs
  PROVE  calls' \in [Threads -> Call] /\ Shape'
<1>. DEFINE d == [calls[t] EXCEPT !.pc = "done", !.arg = a, !.q = {}, !.up = {}]
<1>1. CASE calls[t].who = "nobody"
  <2>1. calls' = [calls EXCEPT ![t] = Idle]
    BY <1>1 DEF Reply
  <2>2. Idle \in Call /\ CallShape(Idle)
    BY DEF Idle, Call, Ops, Pcs, Args, Waiters, NodeOrNone, JobOrNone, CallShape, Steps
  <2>. QED BY <2>1, <2>2, NewCall
<1>2. CASE calls[t].who # "nobody"
  <2>1. calls' = [calls EXCEPT ![t] = d]
    BY <1>2 DEF Reply
  <2>2. d \in Call
    BY DEF Call, Pcs
  <2>3. CallShape(d)
    BY <1>2 DEF CallShape, Shape, Call, Unanswered, Ops, Steps
  <2>. QED BY <2>1, <2>2, <2>3, NewCall
<1>. QED BY <1>1, <1>2

\* The operation a step belongs to, and what its arguments are there.
LEMMA AtStep ==
  ASSUME NEW c \in Call, CallShape(c)
  PROVE  /\ c.pc \notin {"idle", "done"} => c.op # "idle" /\ Unanswered(c)
         /\ c.pc = "auth" => /\ c.op \in {"heartbeat", "drain", "leave", "claim", "result"}
                            /\ c.n \in Nodes
         /\ c.pc = "upsert" => /\ c.op = "join" /\ c.n \in Nodes
                              /\ c.arg \in {"READY", "JOINED"}
         /\ c.pc = "beat" => /\ c.op = "heartbeat" /\ c.n \in Nodes
                            /\ c.arg \in {"READY", "BUSY", "DRAINING"}
         /\ c.pc = "failexcept" => c.op \in {"join", "heartbeat"} /\ c.n \in Nodes
         /\ c.pc = "mark" => c.op = "drain" /\ c.n \in Nodes
         /\ c.pc \in {"get", "leavefail", "offline", "remove"} => c.op = "leave" /\ c.n \in Nodes
         /\ c.pc \in {"gate", "take"} => c.op = "claim" /\ c.n \in Nodes
         /\ c.pc = "busy" => c.op = "claim" /\ c.n \in Nodes /\ c.j \in Jobs
         /\ c.pc \in {"complete", "ready"} => /\ c.op = "result" /\ c.n \in Nodes /\ c.j \in Jobs
                                           /\ c.arg \in {"ok"} \cup WorkerErrors
         /\ c.pc \in {"check", "create"} => c.op = "submit" /\ c.j \in Jobs
         /\ c.pc \in {"stale", "expire"} => c.op = "sweep"
         /\ c.pc \in Scheduling => c.op \in {"join", "heartbeat", "result", "submit", "sweep"}
         /\ c.op = "heartbeat" /\ Unanswered(c) => c.arg \in {"READY", "BUSY", "DRAINING"}
BY DEF Call, CallShape, Steps, Scheduling, Unanswered, Ops

\* Finish, at the end of tryScheduleQueued, is a well-formed answer.
LEMMA FinishShape ==
  ASSUME calls \in [Threads -> Call], Shape, NEW t \in Threads,
         calls[t].pc \in Scheduling, Finish(t)
  PROVE  calls' \in [Threads -> Call] /\ Shape'
<1>1. calls[t] \in Call /\ CallShape(calls[t])
  BY DEF Shape
<1>2. calls[t].op # "idle" /\ Unanswered(calls[t])
  BY <1>1, AtStep DEF Scheduling
<1>3. calls[t].arg \in Args /\ calls[t].arg # "job"
  BY <1>1, <1>2 DEF Call, CallShape, Unanswered
<1>. QED BY <1>2, <1>3, Replies DEF Finish, Args

\* Every step of a handler keeps the types and the shape.
LEMMA HandlerTypes ==
  ASSUME TypeOK, Shape, NEW t \in Threads, PlaneStep(t)
  PROVE  TypeOK' /\ Shape'
<1>. DEFINE c == calls[t]
<1>. USE DEF At
<1>0. /\ c \in Call /\ CallShape(c)
      /\ jobs \in [Jobs -> JobRec] /\ nodes \in [Nodes -> NodeRec]
      /\ calls \in [Threads -> Call]
      /\ c.op \in Ops /\ c.pc \in Steps[c.op] /\ c.j \in JobOrNone /\ c.arg \in Args
      /\ c.q \in SUBSET Jobs /\ c.up \in SUBSET Nodes /\ c.n \in NodeOrNone
  BY DEF TypeOK, Shape, Call, CallShape
<1>a. UNCHANGED <<agents, budget>>
  BY DEF PlaneStep
<1>. SUFFICES /\ jobs' \in [Jobs -> JobRec] /\ nodes' \in [Nodes -> NodeRec]
              /\ calls' \in [Threads -> Call] /\ Shape'
  BY <1>a DEF TypeOK
<1>. USE <1>0
<1>1. CASE Authenticate(t)
  <2>1. c.pc = "auth"
    BY <1>1 DEF Authenticate
  <2>2. AfterAuth[c.op] \in Steps[c.op] \cap (Pcs \ {"done", "busy", "snapshot", "assign"})
    BY <2>1, AtStep DEF AfterAuth, Steps, Pcs
  <2>3. calls' \in [Threads -> Call] /\ Shape'
    BY <1>1, <2>1, <2>2, AtStep, Goes, Replies DEF Authenticate, Args
  <2>. QED BY <1>1, <2>3 DEF Authenticate
<1>2. CASE JoinUpsert(t)
  <2>1. c.pc = "upsert" /\ c.op = "join" /\ Unanswered(c)
    BY <1>2, AtStep DEF JoinUpsert
  <2>2. calls' \in [Threads -> Call] /\ Shape'
    BY <1>2, <2>1, Goes DEF JoinUpsert, Steps, Pcs
  <2>3. nodes' \in [Nodes -> NodeRec]
    BY <1>2, <2>1, AtStep, NodeStoreTypes DEF JoinUpsert
  <2>. QED BY <1>2, <2>2, <2>3 DEF JoinUpsert
<1>3. CASE Beat(t)
  <2>. DEFINE row == NodeHeartbeat(nodes, c.n, c.arg, c.j)
              d == [c EXCEPT !.pc = "failexcept", !.arg = row[c.n].status]
  <2>1. c.pc = "beat" /\ c.op = "heartbeat"
    BY <1>3, AtStep DEF Beat
  <2>2. /\ row \in [Nodes -> NodeRec]
        /\ row[c.n].status \in {"READY", "BUSY", "DRAINING"}
    BY <2>1, AtStep, NodeStoreTypes
  <2>3. CASE Registered(nodes, c.n)
    <3>1. calls' = [calls EXCEPT ![t] = d]
      BY <1>3, <2>3 DEF Beat
    <3>2. row[c.n].status \in Args
      BY <2>2 DEF Args
    <3>3. d \in Call
      BY <3>2 DEF Call, Pcs
    <3>4. CallShape(d)
      BY <2>1, <2>2, <3>3 DEF Call, CallShape, Steps, Unanswered
    <3>5. calls' \in [Threads -> Call] /\ Shape'
      BY <3>1, <3>3, <3>4, NewCall
    <3>. QED BY <1>3, <2>2, <2>3, <3>5 DEF Beat
  <2>4. CASE ~Registered(nodes, c.n)
    <3>1. calls' \in [Threads -> Call] /\ Shape'
      BY <1>3, <2>1, <2>4, Replies DEF Beat, Args
    <3>. QED BY <1>3, <2>4, <3>1 DEF Beat
  <2>. QED BY <2>3, <2>4
<1>4. CASE FailLost(t)
  <2>1. c.op \in {"join", "heartbeat"} /\ Unanswered(c)
    BY <1>4, AtStep DEF FailLost
  <2>2. c.arg # "job"
    BY <2>1 DEF CallShape, Unanswered
  <2>3. calls' \in [Threads -> Call] /\ Shape'
    BY <1>4, <2>1, <2>2, Goes, Replies DEF FailLost, Steps, Scheduling, Pcs
  <2>4. jobs' \in [Jobs -> JobRec]
    BY <1>4, FailInFlightType DEF FailLost, FailRunningExcept, PlaneErrors
  <2>. QED BY <1>4, <2>3, <2>4 DEF FailLost
<1>5. CASE Drain(t)
  <2>. DEFINE d == Request("leave", "auth", c.n, NoJob, "", "nobody")
  <2>1. c.pc = "mark"
    BY <1>5 DEF Drain
  <2>2. c.op = "drain" /\ c.n \in Nodes
    BY <2>1, AtStep
  <2>3. d \in Call
    BY <2>2 DEF Request, Idle, Call, Ops, Pcs, Args, Waiters, NodeOrNone, JobOrNone
  <2>4. CallShape(d)
    BY <2>2 DEF Request, Idle, CallShape, Steps, Unanswered
  <2>5. calls' \in [Threads -> Call] /\ Shape'
    <3>1. CASE Registered(nodes, c.n) /\ c.arg = "thenleave"
      BY <1>5, <2>3, <2>4, <3>1, NewCall DEF Drain
    <3>2. CASE Registered(nodes, c.n) /\ c.arg # "thenleave"
      BY <1>5, <2>2, <3>2, Replies DEF Drain, Args
    <3>3. CASE ~Registered(nodes, c.n)
      BY <1>5, <2>2, <3>3, Replies DEF Drain, Args
    <3>. QED BY <3>1, <3>2, <3>3
  <2>6. nodes' \in {nodes, NodeSetDrain(nodes, c.n)} /\ UNCHANGED jobs
    BY <1>5 DEF Drain
  <2>. QED BY <2>2, <2>5, <2>6, NodeStoreTypes
<1>6. CASE LeaveGet(t)
  <2>1. c.op = "leave" /\ Unanswered(c)
    BY <1>6, AtStep DEF LeaveGet
  <2>2. Goto(t, "leavefail") \/ Reply(t, "unregistered") \/ Reply(t, "conflict")
    BY <1>6 DEF LeaveGet
  <2>3. "leavefail" \in Pcs \cap Steps["leave"]
    BY DEF Pcs, Steps
  <2>4. calls' \in [Threads -> Call] /\ Shape'
    BY <2>1, <2>2, <2>3, Goes, Replies DEF Args
  <2>. QED BY <1>6, <2>4 DEF LeaveGet
<1>7. CASE LeaveFail(t)
  <2>1. c.op = "leave" /\ Unanswered(c)
    BY <1>7, AtStep DEF LeaveFail
  <2>2. calls' \in [Threads -> Call] /\ Shape'
    BY <1>7, <2>1, Goes DEF LeaveFail, Steps, Pcs
  <2>3. jobs' \in [Jobs -> JobRec]
    BY <1>7, FailInFlightType DEF LeaveFail, FailRunningForNode, PlaneErrors
  <2>. QED BY <1>7, <2>2, <2>3 DEF LeaveFail
<1>8. CASE LeaveOffline(t)
  <2>1. c.op = "leave" /\ Unanswered(c) /\ c.n \in Nodes
    BY <1>8, AtStep DEF LeaveOffline
  <2>2. calls' \in [Threads -> Call] /\ Shape'
    BY <1>8, <2>1, Goes DEF LeaveOffline, Steps, Pcs
  <2>3. nodes' \in [Nodes -> NodeRec]
    BY <1>8, <2>1, NodeStoreTypes DEF LeaveOffline, NodeStatuses, JobOrNone
  <2>. QED BY <1>8, <2>2, <2>3 DEF LeaveOffline
<1>9. CASE LeaveRemove(t)
  <2>1. c.op = "leave" /\ c.n \in Nodes
    BY <1>9, AtStep DEF LeaveRemove
  <2>2. calls' \in [Threads -> Call] /\ Shape'
    BY <1>9, <2>1, Replies DEF LeaveRemove, Args
  <2>3. nodes' \in [Nodes -> NodeRec]
    BY <1>9, <2>1, NodeStoreTypes DEF LeaveRemove
  <2>. QED BY <1>9, <2>2, <2>3 DEF LeaveRemove
<1>10. CASE ClaimGate(t)
  <2>1. c.op = "claim" /\ Unanswered(c)
    BY <1>10, AtStep DEF ClaimGate
  <2>2. Goto(t, "take") \/ Reply(t, "unregistered") \/ Reply(t, "nojob")
    BY <1>10 DEF ClaimGate
  <2>3. "take" \in Pcs \cap Steps["claim"]
    BY DEF Pcs, Steps
  <2>4. calls' \in [Threads -> Call] /\ Shape'
    BY <2>1, <2>2, <2>3, Goes, Replies DEF Args
  <2>. QED BY <1>10, <2>4 DEF ClaimGate
<1>11. CASE ClaimTake(t)
  <2>1. c.pc = "take" /\ c.op = "claim"
    BY <1>11, AtStep DEF ClaimTake
  <2>2. CASE Claimable(jobs, c.n) = {}
    <3>1. calls' \in [Threads -> Call] /\ Shape'
      BY <1>11, <2>1, <2>2, Replies DEF ClaimTake, Args
    <3>. QED BY <1>11, <2>2, <3>1 DEF ClaimTake
  <2>3. CASE Claimable(jobs, c.n) # {}
    <3>1. PICK j \in Jobs : /\ jobs' = JobClaim(jobs, j)
                            /\ calls' = [calls EXCEPT ![t].pc = "busy", ![t].j = j]
      BY <1>11, <2>3 DEF ClaimTake, Claimable, WithStatus
    <3>. DEFINE d == [c EXCEPT !.pc = "busy", !.j = j]
    <3>2. calls' = [calls EXCEPT ![t] = d]
      BY <3>1
    <3>3. d \in Call
      BY DEF Call, Pcs, JobOrNone
    <3>4. c.arg # "job"
      BY <2>1 DEF CallShape
    <3>5. CallShape(d)
      BY <2>1, <3>4 DEF Call, CallShape, Steps, Unanswered
    <3>6. calls' \in [Threads -> Call] /\ Shape'
      BY <3>2, <3>3, <3>5, NewCall
    <3>. QED BY <1>11, <3>1, <3>6, JobStoreTypes DEF ClaimTake
  <2>. QED BY <2>2, <2>3
<1>12. CASE ClaimBusy(t)
  <2>1. c.op = "claim" /\ c.n \in Nodes /\ c.j \in Jobs
    BY <1>12, AtStep DEF ClaimBusy
  <2>2. calls' \in [Threads -> Call] /\ Shape'
    BY <1>12, <2>1, Replies DEF ClaimBusy, Args
  <2>3. nodes' \in [Nodes -> NodeRec]
    BY <1>12, <2>1, NodeStoreTypes DEF ClaimBusy, NodeStatuses
  <2>. QED BY <1>12, <2>2, <2>3 DEF ClaimBusy
<1>13. CASE ResultComplete(t)
  <2>1. c.pc = "complete" /\ c.op = "result" /\ Unanswered(c)
    BY <1>13, AtStep DEF ResultComplete
  <2>2. calls' \in [Threads -> Call] /\ Shape'
    BY <1>13, <2>1, Goes DEF ResultComplete, Steps, Pcs
  <2>3. jobs' \in [Jobs -> JobRec]
    BY <1>13, <2>1, AtStep, JobStoreTypes DEF ResultComplete
  <2>. QED BY <1>13, <2>2, <2>3 DEF ResultComplete
<1>14. CASE ResultReady(t)
  <2>1. c.op = "result" /\ Unanswered(c) /\ c.n \in Nodes
    BY <1>14, AtStep DEF ResultReady
  <2>2. calls' \in [Threads -> Call] /\ Shape'
    BY <1>14, <2>1, Goes DEF ResultReady, Steps, Scheduling, Pcs
  <2>3. nodes' \in [Nodes -> NodeRec]
    BY <1>14, <2>1, NodeStoreTypes DEF ResultReady, NodeStatuses, JobOrNone
  <2>. QED BY <1>14, <2>2, <2>3 DEF ResultReady
<1>15. CASE SubmitCheck(t)
  <2>1. c.op = "submit" /\ Unanswered(c)
    BY <1>15, AtStep DEF SubmitCheck
  <2>2. Goto(t, "create") \/ Reply(t, "unregistered")
    BY <1>15 DEF SubmitCheck
  <2>3. "create" \in Pcs \cap Steps["submit"]
    BY DEF Pcs, Steps
  <2>4. calls' \in [Threads -> Call] /\ Shape'
    BY <2>1, <2>2, <2>3, Goes, Replies DEF Args
  <2>. QED BY <1>15, <2>4 DEF SubmitCheck
<1>16. CASE SubmitCreate(t)
  <2>1. c.pc = "create" /\ c.op = "submit" /\ Unanswered(c) /\ c.j \in Jobs
    BY <1>16, AtStep DEF SubmitCreate
  <2>2. calls' \in [Threads -> Call] /\ Shape'
    BY <1>16, <2>1, Goes DEF SubmitCreate, Steps, Scheduling, Pcs
  <2>3. jobs' \in [Jobs -> JobRec]
    BY <1>16, <2>1, JobStoreTypes DEF SubmitCreate
  <2>. QED BY <1>16, <2>2, <2>3 DEF SubmitCreate
<1>17. CASE SweepStale(t)
  <2>. DEFINE S == Stale(nodes)
              pc == IF S = {} THEN "queued" ELSE "expire"
              d == [c EXCEPT !.pc = pc, !.up = S]
  <2>1. c.pc = "stale" /\ c.op = "sweep"
    BY <1>17, AtStep DEF SweepStale
  <2>2. calls' = [calls EXCEPT ![t] = d]
    BY <1>17 DEF SweepStale
  <2>3. S \in SUBSET Nodes
    BY DEF Stale
  <2>4. d \in Call
    BY <2>3 DEF Call, Pcs
  <2>5. c.arg # "job" /\ c.who = "nobody"
    BY <2>1 DEF CallShape
  <2>6. CallShape(d)
    BY <2>1, <2>5 DEF Call, CallShape, Steps, Scheduling
  <2>7. calls' \in [Threads -> Call] /\ Shape'
    BY <2>2, <2>4, <2>6, NewCall
  <2>8. nodes' = NodeMarkOffline(nodes, S) /\ UNCHANGED jobs
    BY <1>17 DEF SweepStale
  <2>9. nodes' \in [Nodes -> NodeRec]
    BY <2>3, <2>8 DEF NodeMarkOffline, NodeRec, NodeStatuses, JobOrNone
  <2>. QED BY <2>7, <2>8, <2>9
<1>18. CASE SweepExpire(t)
  <2>1. PICK n \in c.up :
          /\ jobs' = FailRunningForNode(jobs, n, "timeout")
          /\ calls' = [calls EXCEPT ![t].up = @ \ {n},
                                    ![t].pc = IF c.up = {n} THEN "queued" ELSE @]
    BY <1>18 DEF SweepExpire
  <2>. DEFINE d == [c EXCEPT !.up = @ \ {n},
                             !.pc = IF c.up = {n} THEN "queued" ELSE @]
  <2>2. c.pc = "expire" /\ c.op = "sweep"
    BY <1>18, AtStep DEF SweepExpire
  <2>3. calls' = [calls EXCEPT ![t] = d]
    BY <2>1
  <2>4. d \in Call
    BY DEF Call, Pcs
  <2>5. c.arg # "job" /\ c.who = "nobody"
    BY <2>2 DEF CallShape
  <2>6. CallShape(d)
    BY <2>2, <2>5 DEF Call, CallShape, Steps, Scheduling
  <2>7. calls' \in [Threads -> Call] /\ Shape'
    BY <2>3, <2>4, <2>6, NewCall
  <2>8. jobs' \in [Jobs -> JobRec]
    BY <2>1, FailInFlightType DEF FailRunningForNode, PlaneErrors
  <2>. QED BY <1>18, <2>7, <2>8 DEF SweepExpire
<1>19. CASE SchedQueued(t)
  <2>. DEFINE q == WithStatus(jobs, "queued")
              d == [c EXCEPT !.pc = "snapshot", !.q = q]
  <2>1. c.pc = "queued"
    BY <1>19 DEF SchedQueued
  <2>2. CASE q = {}
    <3>1. calls' \in [Threads -> Call] /\ Shape'
      BY <1>19, <2>1, <2>2, FinishShape DEF SchedQueued, Scheduling
    <3>. QED BY <1>19, <3>1 DEF SchedQueued
  <2>3. CASE q # {}
    <3>1. calls' = [calls EXCEPT ![t] = d]
      BY <1>19, <2>3 DEF SchedQueued
    <3>2. d \in Call
      BY DEF Call, Pcs, WithStatus
    <3>3. CallShape(d)
      BY <2>1, <2>3, AtStep DEF Call, CallShape, Steps, Scheduling, Unanswered
    <3>4. calls' \in [Threads -> Call] /\ Shape'
      BY <3>1, <3>2, <3>3, NewCall
    <3>. QED BY <1>19, <3>4 DEF SchedQueued
  <2>. QED BY <2>2, <2>3
<1>20. CASE SchedSnapshot(t)
  <2>. DEFINE d == [c EXCEPT !.pc = "assign", !.up = ReadyNodes(nodes)]
  <2>1. c.pc = "snapshot" /\ calls' = [calls EXCEPT ![t] = d]
    BY <1>20 DEF SchedSnapshot
  <2>2. d \in Call
    BY DEF Call, Pcs, ReadyNodes
  <2>3. c.q # {}
    BY <2>1 DEF CallShape
  <2>4. CallShape(d)
    BY <2>1, <2>3, AtStep DEF Call, CallShape, Steps, Scheduling, Unanswered
  <2>5. calls' \in [Threads -> Call] /\ Shape'
    BY <2>1, <2>2, <2>4, NewCall
  <2>. QED BY <1>20, <2>5 DEF SchedSnapshot
<1>21. CASE SchedAssign(t)
  <2>1. c.pc = "assign" /\ UNCHANGED nodes
    BY <1>21 DEF SchedAssign
  <2>2. PICK j \in c.q :
          /\ \/ UNCHANGED jobs
             \/ \E n \in Candidates(c.up, j) : jobs' = JobAssign(jobs, j, n)
          /\ IF c.q = {j} THEN Finish(t)
             ELSE calls' = [calls EXCEPT ![t].q = @ \ {j}]
    BY <1>21 DEF SchedAssign
  <2>3. jobs' \in [Jobs -> JobRec]
    BY <2>2, JobStoreTypes DEF Candidates
  <2>4. CASE c.q = {j}
    <3>1. calls' \in [Threads -> Call] /\ Shape'
      BY <2>1, <2>2, <2>4, FinishShape DEF Scheduling
    <3>. QED BY <2>1, <2>3, <3>1
  <2>5. CASE c.q # {j}
    <3>. DEFINE d == [c EXCEPT !.q = @ \ {j}]
    <3>1. calls' = [calls EXCEPT ![t] = d]
      BY <2>2, <2>5
    <3>2. d \in Call
      BY DEF Call
    <3>3. d.q # {}
      BY <2>5
    <3>4. CallShape(d)
      BY <3>3 DEF CallShape, Call, Unanswered
    <3>5. calls' \in [Threads -> Call] /\ Shape'
      BY <3>1, <3>2, <3>4, NewCall
    <3>. QED BY <2>1, <2>3, <3>5
  <2>. QED BY <2>4, <2>5
<1>. QED
  BY <1>1, <1>2, <1>3, <1>4, <1>5, <1>6, <1>7, <1>8, <1>9, <1>10, <1>11, <1>12,
     <1>13, <1>14, <1>15, <1>16, <1>17, <1>18, <1>19, <1>20, <1>21
     DEF PlaneStep, Handle

\* A call whose client has gone, or whose request was lost, is well-formed.
LEMMA Orphaned ==
  ASSUME NEW c \in Call, CallShape(c)
  PROVE  /\ Orphan(c) \in Call /\ CallShape(Orphan(c))
         /\ \A d \in Broken(c) : d \in Call /\ CallShape(d)
<1>1. Idle \in Call /\ CallShape(Idle)
  BY DEF Idle, Call, Ops, Pcs, Args, Waiters, NodeOrNone, JobOrNone, CallShape, Steps
<1>2. CASE c.pc = "done"
  BY <1>1, <1>2 DEF Orphan, Broken
<1>3. CASE c.pc # "done"
  <2>. DEFINE d == [c EXCEPT !.who = "nobody"]
  <2>1. d \in Call
    BY DEF Call, Waiters
  <2>2. CallShape(d)
    BY <1>3 DEF CallShape, Call, Unanswered
  <2>. QED BY <1>1, <1>3, <2>1, <2>2 DEF Orphan, Broken
<1>. QED BY <1>2, <1>3

\* An agent that exits leaves well-formed slots behind.
LEMMA AllOrphaned ==
  ASSUME calls \in [Threads -> Call], Shape, NEW S, calls' = OrphanAll(S)
  PROVE  calls' \in [Threads -> Call] /\ Shape'
BY Orphaned DEF OrphanAll, Shape

\* What a client may send.
LEMMA Sends ==
  ASSUME calls \in [Threads -> Call], Shape,
         NEW t \in Threads, NEW op \in Ops, NEW pc \in Pcs, NEW n \in NodeOrNone,
         NEW j \in JobOrNone, NEW a \in Args, NEW w \in Waiters,
         Send(t, op, pc, n, j, a, w), CallShape(Request(op, pc, n, j, a, w))
  PROVE  calls' \in [Threads -> Call] /\ Shape'
<1>1. Request(op, pc, n, j, a, w) \in Call
  BY DEF Request, Idle, Call
<1>. QED BY <1>1, NewCall DEF Send

\* Every step of an agent keeps the types and the shape.
LEMMA AgentTypes ==
  ASSUME TypeOK, Shape, MainWaits, NEW n \in Nodes, NEW t \in Threads,
         \/ Start(n, t) \/ TryClaim(n, t) \/ Heartbeat(n, t) \/ SendDrain(n, t)
         \/ SendLeave(n, t) \/ Receive(n, t) \/ Abandon(n, t) \/ Report(n, t)
         \/ Reported(n, t) \/ SkipClaim(n) \/ SkipBeat(n) \/ Tick(n) \/ Settle(n)
         \/ SettleTimeout(n) \/ Interrupt(n) \/ Crash(n)
  PROVE  TypeOK' /\ Shape'
<1>. DEFINE a == agents[n]
            c == calls[t]
<1>0. /\ calls \in [Threads -> Call] /\ c \in Call /\ CallShape(c)
      /\ agents \in [Nodes -> Agent] /\ a \in Agent /\ budget \in Nat
      /\ jobs \in [Jobs -> JobRec] /\ nodes \in [Nodes -> NodeRec]
  BY DEF TypeOK, Shape
<1>. USE <1>0
<1>a. n \in NodeOrNone /\ NoJob \in JobOrNone /\ Down \in Agent
  BY DEF NodeOrNone, JobOrNone, Down, Agent, AgentPcs
<1>b. \A f : Spend(f) => budget' \in Nat
  BY DEF Spend
<1>c. Exit(n) => agents' \in [Nodes -> Agent] /\ calls' \in [Threads -> Call] /\ Shape'
  BY <1>a, AllOrphaned DEF Exit
<1>d. \A pc \in AgentPcs : AgentGoto(n, pc) => agents' \in [Nodes -> Agent]
  BY DEF AgentGoto, Agent
<1>1. CASE Start(n, t)
  <2>1. agents' \in [Nodes -> Agent]
    BY <1>1, <1>a DEF Start, Down, Agent, AgentPcs
  <2>2. CallShape(Request("join", "upsert", n, NoJob, "READY", "main"))
    BY DEF CallShape, Request, Idle, Steps, Unanswered
  <2>3. calls' \in [Threads -> Call] /\ Shape'
    BY <1>1, <1>a, <2>2, Sends DEF Start, Ops, Pcs, Args, Waiters
  <2>. QED BY <1>1, <2>1, <2>3 DEF Start, TypeOK
<1>2. CASE TryClaim(n, t)
  <2>1. CallShape(Request("claim", "auth", n, NoJob, "", "main"))
    BY DEF CallShape, Request, Idle, Steps, Unanswered
  <2>2. calls' \in [Threads -> Call] /\ Shape'
    BY <1>2, <1>a, <2>1, Sends DEF TryClaim, Ops, Pcs, Args, Waiters
  <2>. QED BY <1>2, <2>2 DEF TryClaim, TypeOK
<1>3. CASE Heartbeat(n, t)
  <2>1. BeatStatus(a) \in {"READY", "BUSY", "DRAINING"} /\ a.busy \in JobOrNone
    BY DEF BeatStatus, Agent
  <2>2. CallShape(Request("heartbeat", "auth", n, a.busy, BeatStatus(a), "main"))
    BY <2>1 DEF CallShape, Request, Idle, Steps, Unanswered
  <2>3. BeatStatus(a) \in Args
    BY <2>1 DEF Args
  <2>4. calls' \in [Threads -> Call] /\ Shape'
    BY <1>3, <1>a, <2>1, <2>2, <2>3, Sends DEF Heartbeat, Ops, Pcs, Waiters
  <2>. QED BY <1>3, <2>4 DEF Heartbeat, TypeOK
<1>4. CASE SendDrain(n, t)
  <2>1. CallShape(Request("drain", "auth", n, NoJob, "", "main"))
    BY DEF CallShape, Request, Idle, Steps, Unanswered
  <2>2. calls' \in [Threads -> Call] /\ Shape'
    BY <1>4, <1>a, <2>1, Sends DEF SendDrain, Ops, Pcs, Args, Waiters
  <2>. QED BY <1>4, <2>2 DEF SendDrain, TypeOK
<1>5. CASE SendLeave(n, t)
  <2>1. CallShape(Request("leave", "auth", n, NoJob, "", "main"))
    BY DEF CallShape, Request, Idle, Steps, Unanswered
  <2>2. calls' \in [Threads -> Call] /\ Shape'
    BY <1>5, <1>a, <2>1, Sends DEF SendLeave, Ops, Pcs, Args, Waiters
  <2>. QED BY <1>5, <2>2 DEF SendLeave, TypeOK
<1>6. CASE Receive(n, t)
  <2>1. c.n = n /\ c.who = "main" /\ a.pc \in Asking
    BY <1>6 DEF Receive, MainWaits
  <2>2. CASE Exits(a, c.arg)
    BY <1>6, <1>c, <2>2 DEF Receive, TypeOK
  <2>3. CASE ~Exits(a, c.arg)
    <3>1. AfterAnswer[a.pc] \in AgentPcs
      BY <2>1, <2>3 DEF Exits, Asking, AfterAnswer, AgentPcs
    <3>2. Answered(a, c) \in Agent
      BY <3>1 DEF Answered, Agent, Call
    <3>3. Idle \in Call /\ CallShape(Idle)
      BY DEF Idle, Call, Ops, Pcs, Args, Waiters, NodeOrNone, JobOrNone, CallShape, Steps
    <3>4. /\ agents' = [agents EXCEPT ![n] = Answered(a, c)]
          /\ calls' = [calls EXCEPT ![t] = Idle]
          /\ UNCHANGED <<jobs, nodes, budget>>
      BY <1>6, <2>3 DEF Receive
    <3>. QED BY <3>2, <3>3, <3>4, NewCall DEF TypeOK
  <2>. QED BY <2>2, <2>3
<1>7. CASE Abandon(n, t)
  <2>1. c.n = n /\ c.who = "main" /\ a.pc \in Asking /\ budget' \in Nat
    BY <1>7, <1>b DEF Abandon, MainWaits
  <2>2. CASE Exits(a, "lost")
    BY <1>7, <1>c, <2>1, <2>2 DEF Abandon, TypeOK
  <2>3. CASE ~Exits(a, "lost")
    <3>1. AfterAnswer[a.pc] \in AgentPcs
      BY <2>1, <2>3 DEF Exits, Asking, AfterAnswer, AgentPcs
    <3>2. PICK left \in Broken(c) : calls' = [calls EXCEPT ![t] = left]
      BY <1>7, <2>3 DEF Abandon
    <3>3. AgentGoto(n, AfterAnswer[a.pc]) /\ UNCHANGED <<jobs, nodes>>
      BY <1>7, <2>3 DEF Abandon
    <3>4. left \in Call /\ CallShape(left)
      BY Orphaned
    <3>. QED BY <1>d, <2>1, <3>1, <3>2, <3>3, <3>4, NewCall DEF TypeOK
  <2>. QED BY <2>2, <2>3
<1>8. CASE Report(n, t)
  <2>1. a.exec = "run" /\ a.busy \in Jobs
    BY <1>8 DEF Report, MainWaits
  <2>2. PICK o \in Outcomes(a) : Send(t, "result", "auth", n, a.busy, o, "report")
    BY <1>8 DEF Report
  <2>3. o \in {"ok"} \cup WorkerErrors /\ o \in Args
    BY DEF Outcomes, WorkerErrors, Args
  <2>4. CallShape(Request("result", "auth", n, a.busy, o, "report"))
    BY <2>1, <2>3 DEF CallShape, Request, Idle, Steps, Unanswered, WorkerErrors
  <2>5. calls' \in [Threads -> Call] /\ Shape'
    BY <1>a, <2>1, <2>2, <2>3, <2>4, Sends DEF Ops, Pcs, Waiters, JobOrNone
  <2>6. agents' \in [Nodes -> Agent]
    BY <1>8 DEF Report, Agent
  <2>. QED BY <1>8, <2>5, <2>6 DEF Report, TypeOK
<1>9. CASE Reported(n, t)
  <2>1. PICK left \in Broken(c) : calls' = [calls EXCEPT ![t] = left]
    BY <1>9 DEF Reported
  <2>2. left \in Call /\ CallShape(left)
    BY Orphaned
  <2>3. agents' \in [Nodes -> Agent]
    BY <1>9, <1>a DEF Reported, Agent
  <2>. QED BY <1>9, <1>b, <2>1, <2>2, <2>3, NewCall DEF Reported, TypeOK
<1>10. CASE SkipClaim(n) \/ SkipBeat(n) \/ Settle(n)
  BY <1>10, <1>d DEF SkipClaim, SkipBeat, Settle, AgentPcs, TypeOK, Shape
<1>11. CASE Tick(n)
  <2>1. agents' \in [Nodes -> Agent]
    BY <1>11 DEF Tick, AgentGoto, Agent, AgentPcs
  <2>. QED BY <1>11, <2>1 DEF Tick, TypeOK, Shape
<1>12. CASE SettleTimeout(n)
  BY <1>12, <1>b, <1>d DEF SettleTimeout, AgentPcs, TypeOK, Shape
<1>13. CASE Interrupt(n)
  <2>1. agents' \in [Nodes -> Agent]
    BY <1>13 DEF Interrupt, Agent
  <2>. QED BY <1>13, <1>b, <2>1 DEF Interrupt, TypeOK, Shape
<1>14. CASE Crash(n)
  BY <1>14, <1>b, <1>c DEF Crash, TypeOK
<1>. QED BY <1>1, <1>2, <1>3, <1>4, <1>5, <1>6, <1>7, <1>8, <1>9, <1>10, <1>11,
            <1>12, <1>13, <1>14

\* Every step of clients, of the operator, of time and of failures does too.
LEMMA EnvironmentTypes ==
  ASSUME TypeOK, Shape, NEW t \in Threads,
         \/ \E j \in Jobs, pref \in NodeOrNone : Submit(j, pref, t)
         \/ \E n \in Nodes : AdminDrain(n, t) \/ AdminLeave(n, t) \/ AdminSnapshot(n, t)
         \/ SweepTick(t) \/ (\E n \in Nodes : Silence(n)) \/ Restart
  PROVE  TypeOK' /\ Shape'
<1>0. /\ calls \in [Threads -> Call] /\ agents \in [Nodes -> Agent] /\ budget \in Nat
      /\ jobs \in [Jobs -> JobRec] /\ nodes \in [Nodes -> NodeRec]
  BY DEF TypeOK
<1>. USE <1>0
<1>a. Nodes \subseteq NodeOrNone /\ NoNode \in NodeOrNone /\ NoJob \in JobOrNone
  BY DEF NodeOrNone, JobOrNone
<1>b. \A f : Spend(f) => budget' \in Nat
  BY DEF Spend
<1>1. ASSUME NEW j \in Jobs, NEW pref \in NodeOrNone, Submit(j, pref, t)
      PROVE  TypeOK' /\ Shape'
  <2>1. CallShape(Request("submit", "check", pref, j, "", "nobody"))
    BY DEF CallShape, Request, Idle, Steps, Unanswered
  <2>2. calls' \in [Threads -> Call] /\ Shape'
    BY <1>1, <2>1, Sends DEF Submit, Ops, Pcs, Args, Waiters, JobOrNone
  <2>. QED BY <1>1, <2>2 DEF Submit, TypeOK
<1>2. ASSUME NEW n \in Nodes, AdminDrain(n, t)
      PROVE  TypeOK' /\ Shape'
  <2>1. CallShape(Request("drain", "auth", n, NoJob, "", "nobody"))
    BY DEF CallShape, Request, Idle, Steps, Unanswered
  <2>2. calls' \in [Threads -> Call] /\ Shape'
    BY <1>2, <1>a, <2>1, Sends DEF AdminDrain, Ops, Pcs, Args, Waiters
  <2>. QED BY <1>2, <1>b, <2>2 DEF AdminDrain, TypeOK
<1>3. ASSUME NEW n \in Nodes, AdminLeave(n, t)
      PROVE  TypeOK' /\ Shape'
  <2>1. CallShape(Request("drain", "auth", n, NoJob, "thenleave", "nobody"))
    BY DEF CallShape, Request, Idle, Steps, Unanswered
  <2>2. calls' \in [Threads -> Call] /\ Shape'
    BY <1>3, <1>a, <2>1, Sends DEF AdminLeave, Ops, Pcs, Args, Waiters
  <2>. QED BY <1>3, <1>b, <2>2 DEF AdminLeave, TypeOK
<1>4. ASSUME NEW n \in Nodes, AdminSnapshot(n, t)
      PROVE  TypeOK' /\ Shape'
  <2>1. CallShape(Request("join", "upsert", n, NoJob, "JOINED", "nobody"))
    BY DEF CallShape, Request, Idle, Steps, Unanswered
  <2>2. calls' \in [Threads -> Call] /\ Shape'
    BY <1>4, <1>a, <2>1, Sends DEF AdminSnapshot, Ops, Pcs, Args, Waiters
  <2>. QED BY <1>4, <1>b, <2>2 DEF AdminSnapshot, TypeOK
<1>5. CASE SweepTick(t)
  <2>1. CallShape(Request("sweep", "stale", NoNode, NoJob, "", "nobody"))
    BY DEF CallShape, Request, Idle, Steps, Unanswered
  <2>2. calls' \in [Threads -> Call] /\ Shape'
    BY <1>5, <1>a, <2>1, Sends DEF SweepTick, Ops, Pcs, Args, Waiters
  <2>. QED BY <1>5, <2>2 DEF SweepTick, TypeOK
<1>6. ASSUME NEW n \in Nodes, Silence(n)
      PROVE  TypeOK' /\ Shape'
  <2>1. nodes' \in [Nodes -> NodeRec] /\ budget' \in Nat
    BY <1>6, <1>b DEF Silence, NodeRec
  <2>. QED BY <1>6, <2>1 DEF Silence, TypeOK, Shape
<1>7. CASE Restart
  <2>. DEFINE Broke(c) == [c EXCEPT !.pc = "done", !.arg = "lost", !.q = {}, !.up = {}]
              After(c) == IF c.who = "nobody" THEN Idle
                          ELSE IF c.pc = "done" THEN c ELSE Broke(c)
  <2>1. calls' = [u \in Threads |-> After(calls[u])]
    BY <1>7 DEF Restart
  <2>2. ASSUME NEW u \in Threads
        PROVE  After(calls[u]) \in Call /\ CallShape(After(calls[u]))
    <3>1. calls[u] \in Call /\ CallShape(calls[u])
      BY DEF Shape
    <3>2. Idle \in Call /\ CallShape(Idle)
      BY DEF Idle, Call, Ops, Pcs, Args, Waiters, NodeOrNone, JobOrNone, CallShape, Steps
    <3>3. Broke(calls[u]) \in Call
      BY <3>1 DEF Call, Pcs, Args
    <3>4. calls[u].who # "nobody" => CallShape(Broke(calls[u]))
      BY <3>1 DEF Call, CallShape, Unanswered, Steps, Ops
    <3>. QED BY <3>1, <3>2, <3>3, <3>4
  <2>3. calls' \in [Threads -> Call] /\ Shape'
    BY <2>1, <2>2 DEF Shape
  <2>. QED BY <1>7, <1>b, <2>3 DEF Restart, TypeOK
<1>. QED BY <1>1, <1>2, <1>3, <1>4, <1>5, <1>6, <1>7

-----------------------------------------------------------------------------
(* Clients, fresh ids and custody under the steps of a handler.            *)

Clientless(c) == c.who = "nobody"

SameClient(c, d) == c.who = d.who /\ c.n = d.n

\* What the next step d of a handler at c keeps of its client, its job id and
\* the job it holds.
StepKeeps(c, d) ==
  /\ Clientless(d) \/ SameClient(d, c)
  /\ \A j \in Jobs : Creates(d, j) => Creates(c, j)
  /\ \A j \in Jobs : Carries(d, j) => c.pc = "take" \/ (Carries(c, j) /\ d.n = c.n)

\* Moving on to another step, or answering, keeps all of it.
LEMMA RecordKeeps ==
  ASSUME NEW c \in Call
  PROVE  /\ \A pc : pc \notin {"check", "create", "auth", "complete", "busy", "done"}
                      => StepKeeps(c, [c EXCEPT !.pc = pc])
         /\ \A a : a # "job" => StepKeeps(c, [c EXCEPT !.pc = "done", !.arg = a, !.q = {}, !.up = {}])
         /\ StepKeeps(c, Idle)
<1>1. ASSUME NEW pc, pc \notin {"check", "create", "auth", "complete", "busy", "done"}
      PROVE  StepKeeps(c, [c EXCEPT !.pc = pc])
  BY <1>1 DEF StepKeeps, Clientless, SameClient, Creates, Carries, Call
<1>2. ASSUME NEW a, a # "job"
      PROVE  StepKeeps(c, [c EXCEPT !.pc = "done", !.arg = a, !.q = {}, !.up = {}])
  BY <1>2 DEF StepKeeps, Clientless, SameClient, Creates, Carries, Call
<1>3. StepKeeps(c, Idle)
  BY DEF StepKeeps, Clientless, Creates, Carries, Idle
<1>. QED BY <1>1, <1>2, <1>3

\* A handler that moves between its inner steps gains no job.
LEMMA GotoKeeps ==
  ASSUME calls \in [Threads -> Call], NEW t \in Threads, NEW pc, Goto(t, pc),
         pc \notin {"check", "create", "auth", "complete", "busy", "done"}
  PROVE  StepKeeps(calls[t], calls'[t])
<1>1. calls'[t] = [calls[t] EXCEPT !.pc = pc]
  BY DEF Goto
<1>2. calls[t] \in Call
  OBVIOUS
<1>3. StepKeeps(calls[t], [calls[t] EXCEPT !.pc = pc])
  BY <1>2, RecordKeeps
<1>. QED BY <1>1, <1>3

\* A handler that answers, other than with a job, gains no job.
LEMMA ReplyKeeps ==
  ASSUME calls \in [Threads -> Call], NEW t \in Threads, NEW a, Reply(t, a), a # "job"
  PROVE  StepKeeps(calls[t], calls'[t])
<1>1. calls'[t] \in {Idle, [calls[t] EXCEPT !.pc = "done", !.arg = a, !.q = {}, !.up = {}]}
  BY DEF Reply
<1>2. calls[t] \in Call
  OBVIOUS
<1>3. StepKeeps(calls[t], [calls[t] EXCEPT !.pc = "done", !.arg = a, !.q = {}, !.up = {}])
  BY <1>2, RecordKeeps
<1>4. StepKeeps(calls[t], Idle)
  BY <1>2, RecordKeeps
<1>. QED BY <1>1, <1>3, <1>4

\* No step of a handler changes who waits for it, turns it into a submission,
\* or gives it a job, except the step that claims one.
LEMMA HandlerKeeps ==
  ASSUME TypeOK, Shape, NEW t \in Threads, PlaneStep(t)
  PROVE  /\ StepKeeps(calls[t], calls'[t])
         /\ \A u \in Threads \ {t} : calls'[u] = calls[u]
<1>. DEFINE c == calls[t]
            d == calls'[t]
<1>0. c \in Call /\ CallShape(c) /\ calls \in [Threads -> Call]
  BY DEF TypeOK, Shape
<1>. USE <1>0 DEF At
<1>1. \A u \in Threads \ {t} : calls'[u] = calls[u]
  BY DEF PlaneStep, Handle, Authenticate, JoinUpsert, Beat, FailLost, Drain, LeaveGet,
     LeaveFail, LeaveOffline, LeaveRemove, ClaimGate, ClaimTake, ClaimBusy, ResultComplete,
     ResultReady, SubmitCheck, SubmitCreate, SweepStale, SweepExpire, SchedQueued,
     SchedSnapshot, SchedAssign, Finish, Goto, Reply
<1>. SUFFICES StepKeeps(c, d)
  BY <1>1
<1>2. CASE Authenticate(t)
  <2>1. c.pc = "auth"
    BY <1>2 DEF Authenticate
  <2>2. CASE Goto(t, AfterAuth[c.op]) /\ c.op = "result"
    <3>1. d = [c EXCEPT !.pc = "complete"]
      BY <2>2 DEF Goto, AfterAuth
    <3>. QED BY <2>1, <2>2, <3>1 DEF StepKeeps, Clientless, SameClient, Creates, Carries, Call
  <2>3. CASE Goto(t, AfterAuth[c.op]) /\ c.op # "result"
    <3>1. AfterAuth[c.op] \in {"beat", "mark", "get", "gate"}
      BY <2>1, <2>3, AtStep DEF AfterAuth
    <3>. QED BY <2>3, <3>1, GotoKeeps
  <2>. QED BY <1>2, <2>2, <2>3, ReplyKeeps DEF Authenticate
<1>3. CASE JoinUpsert(t)
  BY <1>3, GotoKeeps DEF JoinUpsert
<1>4. CASE Beat(t)
  <2>. DEFINE row == NodeHeartbeat(nodes, c.n, c.arg, c.j)
  <2>1. c.pc = "beat" /\ c.op = "heartbeat"
    BY <1>4, AtStep DEF Beat
  <2>2. Reply(t, "unregistered") \/ d = [c EXCEPT !.pc = "failexcept", !.arg = row[c.n].status]
    BY <1>4 DEF Beat
  <2>3. d = [c EXCEPT !.pc = "failexcept", !.arg = row[c.n].status] => StepKeeps(c, d)
    BY <2>1 DEF StepKeeps, Clientless, SameClient, Creates, Carries, Call
  <2>. QED BY <2>2, <2>3, ReplyKeeps
<1>5. CASE FailLost(t)
  <2>1. c.op \in {"join", "heartbeat"} /\ c.arg # "job"
    BY <1>5, AtStep DEF FailLost, CallShape
  <2>2. Goto(t, "queued") \/ Reply(t, c.arg)
    BY <1>5 DEF FailLost
  <2>. QED BY <2>1, <2>2, GotoKeeps, ReplyKeeps
<1>6. CASE Drain(t)
  <2>1. \/ Reply(t, "DRAINING") \/ Reply(t, "unregistered")
        \/ d = Request("leave", "auth", c.n, NoJob, "", "nobody")
    BY <1>6 DEF Drain
  <2>2. d = Request("leave", "auth", c.n, NoJob, "", "nobody") => StepKeeps(c, d)
    BY DEF StepKeeps, Clientless, Creates, Carries, Request, Idle
  <2>. QED BY <2>1, <2>2, ReplyKeeps
<1>7. CASE LeaveGet(t) \/ LeaveFail(t) \/ LeaveOffline(t) \/ LeaveRemove(t)
  <2>1. \/ \E pc \in {"leavefail", "offline", "remove"} : Goto(t, pc)
        \/ \E a \in {"unregistered", "conflict", "ok"} : Reply(t, a)
    BY <1>7 DEF LeaveGet, LeaveFail, LeaveOffline, LeaveRemove
  <2>. QED BY <2>1, GotoKeeps, ReplyKeeps
<1>8. CASE ClaimGate(t)
  <2>1. Goto(t, "take") \/ Reply(t, "unregistered") \/ Reply(t, "nojob")
    BY <1>8 DEF ClaimGate
  <2>. QED BY <2>1, GotoKeeps, ReplyKeeps
<1>9. CASE ClaimTake(t)
  <2>1. c.pc = "take" /\ c.op = "claim"
    BY <1>9, AtStep DEF ClaimTake
  <2>2. Reply(t, "nojob") \/ \E j : d = [c EXCEPT !.pc = "busy", !.j = j]
    BY <1>9 DEF ClaimTake
  <2>3. \A j : d = [c EXCEPT !.pc = "busy", !.j = j] => StepKeeps(c, d)
    BY <2>1 DEF StepKeeps, SameClient, Creates, Call
  <2>. QED BY <2>2, <2>3, ReplyKeeps
<1>10. CASE ClaimBusy(t)
  <2>1. c.pc = "busy" /\ c.op = "claim"
    BY <1>10, AtStep DEF ClaimBusy
  <2>2. d \in {Idle, [c EXCEPT !.pc = "done", !.arg = "job", !.q = {}, !.up = {}]}
    BY <1>10 DEF ClaimBusy, Reply
  <2>3. StepKeeps(c, [c EXCEPT !.pc = "done", !.arg = "job", !.q = {}, !.up = {}])
    BY <2>1 DEF StepKeeps, SameClient, Creates, Carries, Call
  <2>. QED BY <2>2, <2>3, RecordKeeps
<1>11. CASE ResultComplete(t) \/ ResultReady(t) \/ SubmitCreate(t)
  BY <1>11, GotoKeeps DEF ResultComplete, ResultReady, SubmitCreate
<1>12. CASE SubmitCheck(t)
  <2>1. c.pc = "check" /\ c.op = "submit"
    BY <1>12, AtStep DEF SubmitCheck
  <2>2. Reply(t, "unregistered") \/ d = [c EXCEPT !.pc = "create"]
    BY <1>12 DEF SubmitCheck, Goto
  <2>3. StepKeeps(c, [c EXCEPT !.pc = "create"])
    BY <2>1 DEF StepKeeps, SameClient, Creates, Carries, Call
  <2>. QED BY <2>2, <2>3, ReplyKeeps
<1>13. CASE SweepStale(t) \/ SweepExpire(t)
  <2>1. c.op = "sweep"
    BY <1>13, AtStep DEF SweepStale, SweepExpire
  <2>2. d.op = c.op /\ d.who = c.who /\ d.n = c.n
    <3>1. CASE SweepStale(t)
      BY <3>1 DEF SweepStale, Call
    <3>2. CASE SweepExpire(t)
      <4>1. PICK n \in c.up :
              calls' = [calls EXCEPT ![t].up = @ \ {n},
                                     ![t].pc = IF c.up = {n} THEN "queued" ELSE @]
        BY <3>2 DEF SweepExpire
      <4>. QED BY <4>1 DEF Call
    <3>. QED BY <1>13, <3>1, <3>2
  <2>. QED BY <2>1, <2>2 DEF StepKeeps, SameClient, Creates, Carries
<1>14. Finish(t) => StepKeeps(c, d) \/ c.pc \notin Scheduling
  <2>1. c.pc \in Scheduling => c.arg # "job"
    BY DEF CallShape, Scheduling
  <2>. QED BY <2>1, ReplyKeeps DEF Finish
<1>15. CASE SchedQueued(t) \/ SchedSnapshot(t) \/ SchedAssign(t)
  <2>1. c.pc \in Scheduling
    BY <1>15 DEF SchedQueued, SchedSnapshot, SchedAssign, Scheduling
  <2>2. \/ Finish(t)
        \/ /\ d.op = c.op /\ d.who = c.who /\ d.n = c.n
           /\ d.pc \in {"snapshot", "assign"}
    <3>1. CASE SchedQueued(t)
      <4>1. CASE WithStatus(jobs, "queued") = {}
        BY <3>1, <4>1 DEF SchedQueued
      <4>2. CASE WithStatus(jobs, "queued") # {}
        BY <3>1, <4>2 DEF SchedQueued, Call
      <4>. QED BY <4>1, <4>2
    <3>2. CASE SchedSnapshot(t)
      BY <3>2 DEF SchedSnapshot, Call
    <3>3. CASE SchedAssign(t)
      <4>1. PICK j \in c.q : IF c.q = {j} THEN Finish(t)
                             ELSE calls' = [calls EXCEPT ![t].q = @ \ {j}]
        BY <3>3 DEF SchedAssign
      <4>2. c.pc = "assign"
        BY <3>3 DEF SchedAssign
      <4>. QED BY <4>1, <4>2 DEF Call
    <3>. QED BY <1>15, <3>1, <3>2, <3>3
  <2>3. d.pc \in {"snapshot", "assign"} => \A j : ~Creates(d, j) /\ ~Carries(d, j)
    BY DEF Creates, Carries
  <2>. QED BY <1>14, <2>1, <2>2, <2>3 DEF StepKeeps, SameClient
<1>. QED
  BY <1>2, <1>3, <1>4, <1>5, <1>6, <1>7, <1>8, <1>9, <1>10, <1>11, <1>12,
     <1>13, <1>15 DEF PlaneStep, Handle

\* A step after which the main goroutines wait for no more than before, and
\* where they did, keeps MainWaits.
LEMMA WaitsShrink ==
  ASSUME MainWaits,
         \A u \in Threads : calls'[u].who = "main" =>
            /\ calls[u].who = "main" /\ calls[u].n = calls'[u].n
            /\ agents'[calls'[u].n].pc \in Asking,
         \A m \in Nodes : agents'[m].exec = "run" =>
            (agents[m].exec = "run" /\ agents[m].busy = agents'[m].busy) \/ agents'[m].busy \in Jobs
  PROVE  MainWaits'
BY DEF MainWaits

\* A request of a main goroutine that waits for nothing keeps MainWaits.
LEMMA WaitsGrow ==
  ASSUME MainWaits, calls \in [Threads -> Call], NEW n \in Nodes, NEW t \in Threads,
         NEW c, calls' = [calls EXCEPT ![t] = c], c.who = "main", c.n = n,
         \A u \in Threads : ~(calls[u].who = "main" /\ calls[u].n = n),
         \A m \in Nodes : /\ agents'[m].exec = agents[m].exec \/ agents'[m].exec # "run"
                          /\ agents'[m].busy = agents[m].busy \/ agents'[m].exec # "run"
                          /\ m # n => agents'[m].pc = agents[m].pc,
         \A u \in Threads : calls[u].who = "main" => calls[u].n \in Nodes,
         agents'[n].pc \in Asking
  PROVE  MainWaits'
<1>1. \A u \in Threads : calls'[u] = IF u = t THEN c ELSE calls[u]
  OBVIOUS
<1>2. \A u \in Threads : calls'[u].who = "main" => agents'[calls'[u].n].pc \in Asking
  <2>1. \A u \in Threads : calls[u].who = "main" =>
          calls[u].n \in Nodes \ {n} /\ agents[calls[u].n].pc \in Asking
    BY DEF MainWaits
  <2>. QED BY <1>1, <2>1
<1>3. \A u, v \in Threads :
        calls'[u].who = "main" /\ calls'[v].who = "main" /\ calls'[u].n = calls'[v].n => u = v
  <2>. TAKE u \in Threads, v \in Threads
  <2>. HAVE calls'[u].who = "main" /\ calls'[v].who = "main" /\ calls'[u].n = calls'[v].n
  <2>1. CASE u = t
    BY <1>1, <2>1
  <2>2. CASE v = t
    BY <1>1, <2>2
  <2>3. CASE u # t /\ v # t
    BY <1>1, <2>3 DEF MainWaits
  <2>. QED BY <2>1, <2>2, <2>3
<1>4. \A m \in Nodes : agents'[m].exec = "run" => agents'[m].busy \in Jobs
  BY DEF MainWaits
<1>. QED BY <1>2, <1>3, <1>4 DEF MainWaits

\* The steps of handlers keep MainWaits.
LEMMA HandlerWaits ==
  ASSUME TypeOK, Shape, MainWaits, NEW t \in Threads, PlaneStep(t)
  PROVE  MainWaits'
<1>1. agents' = agents
  BY DEF PlaneStep
<1>2. \A u \in Threads : calls'[u].who = "main" => calls[u].who = "main" /\ calls[u].n = calls'[u].n
  BY HandlerKeeps DEF StepKeeps, Clientless, SameClient
<1>. QED BY <1>1, <1>2, WaitsShrink DEF MainWaits

\* A call that a client gives up on is nobody's, or as it was before.
LEMMA OrphansWait ==
  ASSUME NEW c \in Call
  PROVE  /\ Orphan(c).who = "nobody"
         /\ \A d \in Broken(c) : d.who = "nobody"
<1>1. Idle.who = "nobody"
  BY DEF Idle
<1>2. [c EXCEPT !.who = "nobody"].who = "nobody"
  BY DEF Call
<1>. QED BY <1>1, <1>2 DEF Orphan, Broken

\* The steps of agents keep MainWaits.
LEMMA AgentWaits ==
  ASSUME TypeOK, Shape, MainWaits, NEW n \in Nodes, NEW t \in Threads,
         \/ Start(n, t) \/ TryClaim(n, t) \/ Heartbeat(n, t) \/ SendDrain(n, t)
         \/ SendLeave(n, t) \/ Receive(n, t) \/ Abandon(n, t) \/ Report(n, t)
         \/ Reported(n, t) \/ SkipClaim(n) \/ SkipBeat(n) \/ Tick(n) \/ Settle(n)
         \/ SettleTimeout(n) \/ Interrupt(n) \/ Crash(n)
  PROVE  MainWaits'
<1>. DEFINE a == agents[n]
            c == calls[t]
<1>0. /\ calls \in [Threads -> Call] /\ c \in Call /\ CallShape(c)
      /\ agents \in [Nodes -> Agent] /\ a \in Agent
  BY DEF TypeOK, Shape
<1>a. \A u \in Threads : calls[u].who = "main" => calls[u].n \in Nodes
  BY DEF TypeOK, Shape, CallShape
<1>b. \A pc : Ready(n, pc) => \A u \in Threads : ~(calls[u].who = "main" /\ calls[u].n = n)
  BY DEF Ready, Waiting, Awaits
<1>. USE <1>0
<1>1. CASE Start(n, t)
  <2>. DEFINE r == Request("join", "upsert", n, NoJob, "READY", "main")
  <2>1. \A u \in Threads : ~(calls[u].who = "main" /\ calls[u].n = n)
    BY <1>1 DEF Start, MainWaits, Asking
  <2>2. agents' = [agents EXCEPT ![n] = [Down EXCEPT !.pc = "join"]]
    BY <1>1 DEF Start
  <2>3. calls' = [calls EXCEPT ![t] = r] /\ r.who = "main" /\ r.n = n
    BY <1>1 DEF Start, Send, Request, Idle
  <2>4. agents'[n].pc \in Asking /\ agents'[n].exec # "run"
    BY <2>2 DEF Down, Asking
  <2>5. \A m \in Nodes : m # n => agents'[m] = agents[m]
    BY <2>2
  <2>. HIDE DEF r
  <2>. QED BY <1>a, <2>1, <2>3, <2>4, <2>5, WaitsGrow
<1>e. ASSUME NEW pc \in Asking, Ready(n, pc), agents' = agents,
             NEW op, NEW j, NEW arg, Send(t, op, "auth", n, j, arg, "main")
      PROVE  MainWaits'
  <2>. DEFINE r == Request(op, "auth", n, j, arg, "main")
  <2>1. calls' = [calls EXCEPT ![t] = r] /\ r.who = "main" /\ r.n = n
    BY <1>e DEF Send, Request, Idle
  <2>2. agents'[n].pc \in Asking
    BY <1>e DEF Ready
  <2>. HIDE DEF r
  <2>. QED BY <1>a, <1>b, <1>e, <2>1, <2>2, WaitsGrow
<1>2. CASE TryClaim(n, t)
  BY <1>2, <1>e DEF TryClaim, Asking
<1>3. CASE Heartbeat(n, t)
  BY <1>3, <1>e DEF Heartbeat, Asking
<1>4. CASE SendDrain(n, t)
  BY <1>4, <1>e DEF SendDrain, Asking
<1>5. CASE SendLeave(n, t)
  BY <1>5, <1>e DEF SendLeave, Asking
<1>c. ASSUME Exit(n)
      PROVE  MainWaits'
  <2>1. \A u \in Threads : calls'[u].who = "main" => calls'[u] = calls[u] /\ calls[u].n # n
    BY <1>c, OrphansWait DEF Exit, OrphanAll, Awaits
  <2>2. agents' = [agents EXCEPT ![n] = Down]
    BY <1>c DEF Exit
  <2>3. \A u \in Threads : calls[u].who = "main" => agents[calls[u].n].pc \in Asking
    BY DEF MainWaits
  <2>. QED BY <1>a, <2>1, <2>2, <2>3, WaitsShrink DEF Down
\* After an answer was read or given up, nobody waits for node n.
<1>d. ASSUME c.who = "main", c.n = n, calls'[t].who = "nobody",
             \A u \in Threads \ {t} : calls'[u] = calls[u],
             \A m \in Nodes \ {n} : agents'[m] = agents[m],
             agents'[n].exec = "run" =>
                (a.exec = "run" /\ a.busy = agents'[n].busy) \/ agents'[n].busy \in Jobs
      PROVE  MainWaits'
  <2>1. \A u \in Threads : calls'[u].who = "main" => calls'[u] = calls[u] /\ calls[u].n # n
    BY <1>d DEF MainWaits
  <2>2. \A u \in Threads : calls[u].who = "main" => agents[calls[u].n].pc \in Asking
    BY DEF MainWaits
  <2>3. \A u \in Threads : calls'[u].who = "main" =>
            /\ calls[u].who = "main" /\ calls[u].n = calls'[u].n
            /\ agents'[calls'[u].n].pc \in Asking
    BY <1>a, <1>d, <2>1, <2>2
  <2>4. \A m \in Nodes : agents'[m].exec = "run" =>
            (agents[m].exec = "run" /\ agents[m].busy = agents'[m].busy) \/ agents'[m].busy \in Jobs
    BY <1>d
  <2>. QED BY <2>3, <2>4, WaitsShrink
<1>6. CASE Receive(n, t)
  <2>1. CASE Exits(a, c.arg)
    BY <1>c, <1>6, <2>1 DEF Receive
  <2>2. CASE ~Exits(a, c.arg)
    <3>1. /\ agents' = [agents EXCEPT ![n] = Answered(a, c)]
          /\ calls' = [calls EXCEPT ![t] = Idle]
          /\ c.who = "main" /\ c.n = n
      BY <1>6, <2>2 DEF Receive
    <3>2. Answered(a, c).exec = "run" =>
             (a.exec = "run" /\ a.busy = Answered(a, c).busy) \/ Answered(a, c).busy \in Jobs
      BY DEF Answered, Agent, CallShape
    <3>. QED BY <1>d, <3>1, <3>2 DEF Idle
  <2>. QED BY <2>1, <2>2
<1>7. CASE Abandon(n, t)
  <2>1. CASE Exits(a, "lost")
    BY <1>c, <1>7, <2>1 DEF Abandon
  <2>2. CASE ~Exits(a, "lost")
    <3>1. PICK left \in Broken(c) : calls' = [calls EXCEPT ![t] = left]
      BY <1>7, <2>2 DEF Abandon
    <3>2. AgentGoto(n, AfterAnswer[a.pc]) /\ c.who = "main" /\ c.n = n
      BY <1>7, <2>2 DEF Abandon
    <3>3. left.who = "nobody"
      BY OrphansWait
    <3>4. agents' = [agents EXCEPT ![n] = [a EXCEPT !.pc = AfterAnswer[a.pc]]]
      BY <3>2 DEF AgentGoto
    <3>5. agents'[n].exec = a.exec /\ agents'[n].busy = a.busy
      BY <3>4 DEF Agent
    <3>. QED BY <1>d, <3>1, <3>2, <3>3, <3>4, <3>5
  <2>. QED BY <2>1, <2>2
<1>8. CASE Report(n, t)
  <2>1. PICK o \in Outcomes(a) : Send(t, "result", "auth", n, a.busy, o, "report")
    BY <1>8 DEF Report
  <2>2. \A u \in Threads : calls'[u].who = "main" => calls'[u] = calls[u]
    BY <2>1 DEF Send, Request, Idle
  <2>3. agents' = [agents EXCEPT ![n].exec = "report"]
    BY <1>8 DEF Report
  <2>4. \A m \in Nodes : /\ agents'[m].pc = agents[m].pc
                         /\ agents'[m].exec = "run" => agents'[m] = agents[m]
    BY <2>3 DEF Agent
  <2>. QED BY <1>a, <2>2, <2>4, WaitsShrink DEF MainWaits
<1>9. CASE Reported(n, t)
  <2>1. PICK left \in Broken(c) : calls' = [calls EXCEPT ![t] = left]
    BY <1>9 DEF Reported
  <2>2. \A u \in Threads : calls'[u].who = "main" => calls'[u] = calls[u]
    BY <2>1, OrphansWait
  <2>3. agents' = [agents EXCEPT ![n].busy = NoJob, ![n].exec = "none"]
    BY <1>9 DEF Reported
  <2>4. \A m \in Nodes : /\ agents'[m].pc = agents[m].pc
                         /\ agents'[m].exec = "run" => agents'[m] = agents[m]
    BY <2>3 DEF Agent
  <2>. QED BY <1>a, <2>2, <2>4, WaitsShrink DEF MainWaits
<1>10. CASE SkipClaim(n) \/ SkipBeat(n) \/ Tick(n) \/ Settle(n) \/ SettleTimeout(n)
  <2>1. \A u \in Threads : ~(calls[u].who = "main" /\ calls[u].n = n)
    BY <1>b, <1>10 DEF SkipClaim, SkipBeat, Tick, Settle, SettleTimeout
  <2>2. calls' = calls
    BY <1>10 DEF SkipClaim, SkipBeat, Tick, Settle, SettleTimeout
  <2>3. /\ \A m \in Nodes \ {n} : agents'[m] = agents[m]
        /\ agents'[n].exec = a.exec /\ agents'[n].busy = a.busy
    BY <1>10 DEF SkipClaim, SkipBeat, Tick, Settle, SettleTimeout, AgentGoto, Agent
  <2>. QED BY <1>a, <2>1, <2>2, <2>3, WaitsShrink DEF MainWaits
<1>11. CASE Interrupt(n)
  <2>1. calls' = calls /\ agents' = [agents EXCEPT ![n].cancelled = TRUE]
    BY <1>11 DEF Interrupt
  <2>2. \A m \in Nodes : /\ agents'[m].pc = agents[m].pc /\ agents'[m].exec = agents[m].exec
                         /\ agents'[m].busy = agents[m].busy
    BY <2>1 DEF Agent
  <2>. QED BY <1>a, <2>1, <2>2, WaitsShrink DEF MainWaits
<1>12. CASE Crash(n)
  BY <1>c, <1>12 DEF Crash
<1>. QED BY <1>1, <1>2, <1>3, <1>4, <1>5, <1>6, <1>7, <1>8, <1>9, <1>10, <1>11, <1>12

\* The steps of the environment keep MainWaits.
LEMMA EnvironmentWaits ==
  ASSUME TypeOK, Shape, MainWaits, NEW t \in Threads,
         \/ \E j \in Jobs, pref \in NodeOrNone : Submit(j, pref, t)
         \/ \E n \in Nodes : AdminDrain(n, t) \/ AdminLeave(n, t) \/ AdminSnapshot(n, t)
         \/ SweepTick(t) \/ (\E n \in Nodes : Silence(n)) \/ Restart
  PROVE  MainWaits'
<1>0. calls \in [Threads -> Call]
  BY DEF TypeOK
<1>1. agents' = agents
  BY DEF Submit, AdminDrain, AdminLeave, AdminSnapshot, SweepTick, Silence, Restart
<1>2. \A u \in Threads : calls'[u].who = "main" => calls[u].who = "main" /\ calls[u].n = calls'[u].n
  <2>1. CASE Restart
    BY <1>0, <2>1 DEF Restart, Idle, Call
  <2>2. CASE ~Restart
    BY <1>0, <2>2 DEF Submit, AdminDrain, AdminLeave, AdminSnapshot, SweepTick, Silence,
       Send, Request, Idle
  <2>. QED BY <2>1, <2>2
<1>. QED BY <1>1, <1>2, WaitsShrink DEF MainWaits

-----------------------------------------------------------------------------
(* Type correctness.                                                       *)

Types == TypeOK /\ Shape /\ MainWaits

\* The types, the shape and the waiting of goroutines hold at the start.
LEMMA InitTypes == Init => Types
<1>. SUFFICES ASSUME Init PROVE Types
  OBVIOUS
<1>1. TypeOK
  BY BudgetAssumption DEF Init, TypeOK, EmptyJobs, NoJobRec, JobRec, JobStatuses, NodeOrNone,
     JobErrors, EmptyRegistry, Absent, NodeRec, NodeStatuses, JobOrNone, Idle, Call, Ops,
     Pcs, Args, Waiters, Down, Agent, AgentPcs
<1>2. Shape
  BY DEF Init, Shape, CallShape, Idle, Steps, Unanswered
<1>3. MainWaits
  BY DEF Init, MainWaits, Idle, Down
<1>. QED BY <1>1, <1>2, <1>3 DEF Types

\* They depend on the variables only.
LEMMA StutterTypes == Types /\ UNCHANGED vars => Types'
BY DEF Types, TypeOK, Shape, MainWaits, vars

\* Every step of the fabric keeps them.
LEMMA NextTypes == Types /\ Next => Types'
<1>. SUFFICES ASSUME Types, Next PROVE Types'
  OBVIOUS
<1>1. CASE \E t \in Threads : PlaneStep(t)
  BY <1>1, HandlerTypes, HandlerWaits DEF Types
<1>a. PICK u \in Threads : TRUE
  BY ThreadsAssumption
<1>2. ASSUME NEW n \in Nodes, AgentStep(n) \/ \E t \in Threads : Reported(n, t)
      PROVE  Types'
  <2>1. PICK t \in Threads :
          \/ TryClaim(n, t) \/ Heartbeat(n, t) \/ SendDrain(n, t) \/ SendLeave(n, t)
          \/ Receive(n, t) \/ Report(n, t) \/ Reported(n, t)
          \/ SkipClaim(n) \/ SkipBeat(n) \/ Tick(n) \/ Settle(n)
    BY <1>a, <1>2 DEF AgentStep
  <2>. QED BY <2>1, AgentTypes, AgentWaits DEF Types
<1>3. CASE Environment
  <2>1. ASSUME NEW t \in Threads, NEW n \in Nodes, 
               \/ Start(n, t) \/ Abandon(n, t)
               \/ SettleTimeout(n) \/ Interrupt(n) \/ Crash(n)
        PROVE  Types'
    BY <2>1, AgentTypes, AgentWaits DEF Types
  <2>2. ASSUME NEW t \in Threads,
               \/ \E j \in Jobs, pref \in NodeOrNone : Submit(j, pref, t)
               \/ \E n \in Nodes : AdminDrain(n, t) \/ AdminLeave(n, t) \/ AdminSnapshot(n, t)
               \/ SweepTick(t) \/ (\E n \in Nodes : Silence(n)) \/ Restart
        PROVE  Types'
    BY <2>2, EnvironmentTypes, EnvironmentWaits DEF Types
  <2>. QED BY <1>a, <1>3, <2>1, <2>2 DEF Environment
<1>. QED BY <1>1, <1>2, <1>3 DEF Next

\* Every variable of the fabric keeps its type (the types of store.go, jobs.go,
\* agent.go and of the request handlers), whatever fails.
THEOREM TypeCorrect == Spec => []TypeOK
<1>1. Spec => []Types
  BY InitTypes, NextTypes, StutterTypes, PTL DEF Spec
<1>2. Types => TypeOK
  BY DEF Types
<1>. QED BY <1>1, <1>2, PTL
=============================================================================
