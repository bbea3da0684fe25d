----------------------------- MODULE FabricOrder -----------------------------
(***************************************************************************)
(* Four properties of the registry against the jobs hold only as long as   *)
(* certain steps do not overlap: no lock of the control plane spans two    *)
(* calls of a handler.  This module names the overlaps to be excluded, as  *)
(* restrictions on the steps of the fabric, and the inductive invariants   *)
(* that the properties follow from when they are.                          *)
(***************************************************************************)
EXTENDS FabricInvariant

-----------------------------------------------------------------------------
(* Overlaps.                                                               *)

\* A request of a running agent, as against one typed at a terminal.
OfAgent(c) ==
  c.op \in {"claim", "heartbeat", "result"} \/ (c.op = "join" /\ c.arg # "JOINED")

\* No claim and an abandoned request of the same agent are in progress at once,
\* nor an abandoned claim and any other: before an agent asks for a job, what it
\* has given up waiting for has ended, or was lost.
Sequenced ==
  \A t, u \in Threads :
    t # u /\ calls[t].op = "claim" /\ OfAgent(calls[u]) /\ calls[t].n = calls[u].n
      => "nobody" \notin {calls[t].who, calls[u].who}

Gone(n) == nodes[n].status \in {"absent", "OFFLINE"}

\* A leave handler that has failed the jobs of n and is taking n out.
Outbound(c, n) == c.op = "leave" /\ c.n = n /\ c.pc \in {"offline", "remove"}

\* No node in the scheduler's copy of the registry goes away before the copy
\* has been used.
FreshCopies ==
  \A t \in Threads : calls[t].pc = "assign" =>
    \A n \in calls[t].up : ~Gone(n) /\ \A u \in Threads : ~Outbound(calls[u], n)

\* The plane does not crash while a handler stands at a step in S.
Uncut(S) == (\E t \in Threads : calls[t].pc \in S) => ~Restart

\* The steps that finish a change of both stores of which the first half has
\* been saved: SetStatus BUSY after Claim; FailRunningExcept after Upsert or
\* Heartbeat.
SecondHalves == {"busy", "failexcept"}

\* The same of the sweeper: FailRunningForNode after MarkStaleOffline.
SweptHalf == {"expire"}

\* The fabric when no claim meets an abandoned request of its agent, and no
\* claim, heartbeat or join is cut short between its two changes.
SequencedSpec == Init /\ [][Next /\ Sequenced' /\ Uncut(SecondHalves)]_vars

\* The fabric when the scheduler's copies are fresh and no sweep is cut short.
FreshSpec == Init /\ [][Next /\ FreshCopies' /\ Uncut(SweptHalf)]_vars

-----------------------------------------------------------------------------
(* What FreshSpec keeps.                                                   *)

\* A job in flight has a node, which is there, or whose jobs the sweeper is
\* about to fail, and which is not on its way out.
FreshInv ==
  /\ \A j \in Jobs : jobs[j].status \in InFlight => jobs[j].node \in Nodes
  /\ \A j \in Jobs : jobs[j].status \in InFlight /\ Gone(jobs[j].node) =>
       \E t \in Threads : calls[t].pc = "expire" /\ jobs[j].node \in calls[t].up
  /\ \A t \in Threads, j \in Jobs :
       jobs[j].status \in InFlight => ~Outbound(calls[t], jobs[j].node)

-----------------------------------------------------------------------------
(* What SequencedSpec keeps.                                               *)

Running(n) == OnNode(n, "running")

\* What a call and its agent know of each other: only the goroutine of a job
\* waits for a report, which is of that job; a request that finds or makes the
\* node READY names no job; and what a request says of the agent's busyJob is
\* still so, or the job is over.
Knows(c, a) ==
  /\ c.who = "report" => c.op = "result" /\ a.exec = "report" /\ a.busy = c.j
  /\ c.op = "result" => c.who # "main"
  /\ c.op = "join" => c.j = NoJob
  /\ c.op = "heartbeat" /\ Unanswered(c) /\ c.arg = "READY" => c.j = NoJob
  /\ c.op = "heartbeat" /\ c.pc \in {"auth", "beat", "failexcept"} => a.busy \in {NoJob, c.j}
  /\ c.op = "claim" => a.busy = NoJob

OneReport ==
  \A t, u \in Threads :
    calls[t].who = "report" /\ calls[u].who = "report" /\ calls[t].n = calls[u].n => t = u

\* busyJob is set as long as a goroutine is there for it.
BusyIsAtWork(a) ==
  /\ a.exec = "none" <=> a.busy = NoJob
  /\ a.pc = "down" => a.exec = "none"

Knowledge ==
  /\ \A t \in Threads : Knows(calls[t], agents[calls[t].n])
  /\ OneReport
  /\ \A n \in Nodes : BusyIsAtWork(agents[n])

\* A claim past the gate finds the node idle; a claim that took a job, and a
\* report of one, are about the only job that runs there.
RunsAlone(c, running) ==
  /\ c.op = "claim" /\ c.pc = "take" => running = {}
  /\ c.op = "claim" /\ (c.pc = "busy" \/ (c.pc = "done" /\ c.arg = "job"))
       => running \subseteq {c.j}
  /\ c.op = "result" /\ c.pc \in {"auth", "complete"} => running \subseteq {c.j}
  /\ c.op = "result" /\ c.pc = "ready" => running = {}

\* An agent that executes a job executes the only one recorded for its node.
BusyRuns ==
  \A n \in Nodes : agents[n].busy # NoJob => Running(n) \subseteq {agents[n].busy}

OneRuns == \A n \in Nodes : \A j, k \in Running(n) : j = k

\* The handler is about to take the row of n from READY, or to fail job j.
Covers(c, n, j) ==
  /\ OfAgent(c) /\ c.n = n
  /\ \/ c.pc = "busy" /\ c.j = j
     \/ c.pc = "failexcept" /\ c.j # j

\* A row that is READY while a job runs there is being seen to.
ReadyCovered ==
  \A n \in Nodes, j \in Jobs : nodes[n].status = "READY" /\ j \in Running(n) =>
    \E t \in Threads : Covers(calls[t], n, j)

\* No job is failed as "no longer running" on its way to the agent or there.
NotLost ==
  /\ \A j \in Jobs : jobs[j].status \in {"queued", "pending"} => jobs[j].err = ""
  /\ \A t \in Threads, j \in Jobs :
       calls[t].op = "claim" /\ CallHolds(t, j) => jobs[j].err # "notrunning"
  /\ NotRunningIsTrue

\* The whole inductive invariant behind ReadyIsIdle, OneJobPerNode and
\* NotRunningIsTrue (handleClaimJob, handleHeartbeat, handleJobResult).
SeqInv ==
  /\ Knowledge
  /\ \A t \in Threads : RunsAlone(calls[t], Running(calls[t].n))
  /\ BusyRuns /\ OneRuns /\ ReadyCovered /\ NotLost
=============================================================================
