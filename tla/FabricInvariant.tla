---------------------------- MODULE FabricInvariant ----------------------------
(***************************************************************************)
(* The inductive invariant behind TypeOK, OneHolder and HolderIsOwner.     *)
(***************************************************************************)
EXTENDS FabricProperties

Scheduling == {"queued", "snapshot", "assign"}

\* The steps of each handler.
Steps == [idle      |-> {"idle"},
          join      |-> {"upsert", "failexcept", "done"} \cup Scheduling,
          heartbeat |-> {"auth", "beat", "failexcept", "done"} \cup Scheduling,
          drain     |-> {"auth", "mark", "done"},
          leave     |-> {"auth", "get", "leavefail", "offline", "remove", "done"},
          claim     |-> {"auth", "gate", "take", "busy", "done"},
          result    |-> {"auth", "complete", "ready", "done"} \cup Scheduling,
          submit    |-> {"check", "create", "done"} \cup Scheduling,
          sweep     |-> {"stale", "expire", "done"} \cup Scheduling]

Unanswered(c) == c.pc # "done"

\* A handler is at one of its own steps, with the arguments of its operation.
CallShape(c) ==
  /\ c.pc \in Steps[c.op]
  /\ c.op \notin {"idle", "submit", "sweep"} => c.n \in Nodes
  /\ c.op = "join" /\ Unanswered(c) => c.arg \in {"READY", "JOINED"}
  /\ c.op = "heartbeat" /\ Unanswered(c) => c.arg \in {"READY", "BUSY", "DRAINING"}
  /\ c.op = "result" /\ Unanswered(c) => c.arg \in {"ok"} \cup WorkerErrors
  /\ c.op \in {"result", "submit"} => c.j \in Jobs
  /\ c.op = "claim" /\ c.pc = "busy" => c.j \in Jobs
  /\ c.arg = "job" => c.op = "claim" /\ c.pc = "done" /\ c.j \in Jobs
  /\ c.pc \in {"snapshot", "assign"} => c.q # {}
  /\ c.who = "nobody" => c.pc # "done"
  /\ c.op \in {"idle", "submit", "sweep"} => c.who = "nobody"

Shape == \A t \in Threads : CallShape(calls[t])

Asking == {"join", "claim", "beat", "drain", "leave"}

\* The main goroutine of an agent waits for one answer at a time, and only
\* where it sends a request; a claimed job has a goroutine.
MainWaits ==
  /\ \A t \in Threads : calls[t].who = "main" => agents[calls[t].n].pc \in Asking
  /\ \A t, u \in Threads :
       calls[t].who = "main" /\ calls[u].who = "main" /\ calls[t].n = calls[u].n => t = u
  /\ \A n \in Nodes : agents[n].exec = "run" => agents[n].busy \in Jobs

Creates(c, j) == c.op = "submit" /\ c.pc \in {"check", "create"} /\ c.j = j

Creating(t, j) == Creates(calls[t], j)

\* A job id is created once, by the one request that drew it.
FreshIds ==
  \A t \in Threads, j \in Jobs : Creating(t, j) =>
     /\ jobs[j].status = "none"
     /\ \A u \in Threads : Creating(u, j) => t = u

\* An id that is not in the store has no record there.
Blank == \A j \in Jobs : jobs[j].status = "none" => jobs[j] = NoJobRec

\* Custody of every job that was claimed, which rests on fresh ids.
Custody == FreshIds /\ Blank /\ OneHolder /\ HolderIsOwner

\* The whole inductive invariant: types, the shape of handlers and agents
\* (server.go, agent.go), and custody (JobStore.Claim to JobStore.Complete).
IInv == TypeOK /\ Shape /\ MainWaits /\ Custody
=============================================================================
