------------------------------- MODULE NodeAgent -------------------------------
(***************************************************************************)
(* The agent of a GPU node (internal/agent/agent.go, Run): one goroutine   *)
(* that joins, then claims and heartbeats on every tick, and one goroutine *)
(* per claimed job that executes it and reports the result.  Both talk to  *)
(* the control plane through a call slot and see only the answer.          *)
(***************************************************************************)
EXTENDS ControlPlane

VARIABLES
  agents,  \* the agent process of each node
  budget   \* how many more faults may happen

\* What disturbs the fabric: failures, and commands of the operator.
FaultKinds == {"giveup", "crash", "silence", "restart", "interrupt",
               "drain", "leave", "snapshot"}

CONSTANTS
  Faults,  \* the kinds of fault that may happen
  Budget   \* how many of them may happen in one behaviour

ASSUME FaultsAssumption == Faults \subseteq FaultKinds
ASSUME BudgetAssumption == Budget \in Nat

Spend(f) == f \in Faults /\ budget > 0 /\ budget' = budget - 1

\* Where the main goroutine is.
AgentPcs == {"down", "join", "claim", "beat", "tick", "drain", "settle", "leave"}

\* busy and draining are the variables busyJob and draining of Run; exec is
\* where the goroutine of busyJob is; cancelled: the signal context is done.
Agent == [pc : AgentPcs, busy : JobOrNone, exec : {"none", "run", "report"},
          draining : BOOLEAN, cancelled : BOOLEAN]

Down == [pc |-> "down", busy |-> NoJob, exec |-> "none",
         draining |-> FALSE, cancelled |-> FALSE]

\* The call a goroutine of node n waits for.
Awaits(n, who) == {t \in Threads : calls[t].n = n /\ calls[t].who = who}

Waiting(n) == Awaits(n, "main") # {}

\* The main goroutine stands at pc and is not waiting for an answer.
Ready(n, pc) == agents[n].pc = pc /\ ~Waiting(n)

AgentGoto(n, pc) == agents' = [agents EXCEPT ![n].pc = pc]

Send(t, op, pc, n, j, arg, who) ==
  /\ Free(t)
  /\ calls' = [calls EXCEPT ![t] = Request(op, pc, n, j, arg, who)]

\* A client that stops waiting does not stop the handler.
Orphan(c) == IF c.pc = "done" THEN Idle ELSE [c EXCEPT !.who = "nobody"]

\* What a broken connection leaves of a call: a request still on its way may
\* never arrive.
Broken(c) == {Orphan(c)} \cup (IF c.pc \in {"auth", "upsert"} THEN {Idle} ELSE {})

OrphanAll(S) == [t \in Threads |-> IF t \in S THEN Orphan(calls[t]) ELSE calls[t]]

\* The process is gone, and with it the job it was executing.
Exit(n) ==
  /\ agents' = [agents EXCEPT ![n] = Down]
  /\ calls' = OrphanAll(Awaits(n, "main") \cup Awaits(n, "report"))

-----------------------------------------------------------------------------
(* Requests of the main goroutine.                                         *)

Start(n, t) ==
  /\ agents[n].pc = "down"
  /\ agents' = [agents EXCEPT ![n] = [Down EXCEPT !.pc = "join"]]
  /\ Send(t, "join", "upsert", n, NoJob, "READY", "main")
  /\ UNCHANGED <<jobs, nodes, budget>>

MayClaim(a) == a.busy = NoJob /\ ~a.draining /\ ~a.cancelled

TryClaim(n, t) ==
  /\ Ready(n, "claim") /\ MayClaim(agents[n])
  /\ Send(t, "claim", "auth", n, NoJob, "", "main")
  /\ UNCHANGED <<jobs, nodes, agents, budget>>

\* Busy, draining, or the request fails at once with the cancelled context.
SkipClaim(n) ==
  /\ Ready(n, "claim") /\ ~MayClaim(agents[n])
  /\ AgentGoto(n, "beat")
  /\ UNCHANGED <<jobs, nodes, calls, budget>>

\* Mutant of BeatStatus: a draining agent reports itself OFFLINE.
BeatOffline(a) == IF a.draining THEN "OFFLINE"
                  ELSE IF a.busy # NoJob THEN "BUSY" ELSE "READY"

BeatStatus(a) == IF a.draining THEN "DRAINING"
                 ELSE IF a.busy # NoJob THEN "BUSY" ELSE "READY"

Heartbeat(n, t) ==
  LET a == agents[n]
  IN /\ Ready(n, "beat") /\ ~a.cancelled
     /\ Send(t, "heartbeat", "auth", n, a.busy, BeatStatus(a), "main")
     /\ UNCHANGED <<jobs, nodes, agents, budget>>

SkipBeat(n) ==
  /\ Ready(n, "beat") /\ agents[n].cancelled
  /\ AgentGoto(n, "tick")
  /\ UNCHANGED <<jobs, nodes, calls, budget>>

\* The select of Run.  With both channels ready it may also pick the ticker,
\* which sends nothing under a cancelled context and comes back here.
Tick(n) ==
  /\ Ready(n, "tick")
  /\ IF agents[n].cancelled
     THEN agents' = [agents EXCEPT ![n].pc = "drain", ![n].draining = TRUE]
     ELSE AgentGoto(n, "claim")
  /\ UNCHANGED <<jobs, nodes, calls, budget>>

SendDrain(n, t) ==
  /\ Ready(n, "drain")
  /\ Send(t, "drain", "auth", n, NoJob, "", "main")
  /\ UNCHANGED <<jobs, nodes, agents, budget>>

\* The heartbeats of this loop fail with the cancelled context.
Settle(n) ==
  /\ Ready(n, "settle") /\ agents[n].busy = NoJob
  /\ AgentGoto(n, "leave")
  /\ UNCHANGED <<jobs, nodes, calls, budget>>

\* Two minutes are up and the job is still there.
SettleTimeout(n) ==
  /\ Ready(n, "settle") /\ agents[n].busy # NoJob
  /\ Spend("giveup")
  /\ AgentGoto(n, "leave")
  /\ UNCHANGED <<jobs, nodes, calls>>

SendLeave(n, t) ==
  /\ Ready(n, "leave")
  /\ Send(t, "leave", "auth", n, NoJob, "", "main")
  /\ UNCHANGED <<jobs, nodes, agents, budget>>

-----------------------------------------------------------------------------
(* Answers.  isNotRegistered knows "unregistered" (404) but not the 401    *)
(* "unenrolled" of checkNodeCert, which is printed like any other error.   *)

Exits(a, answer) ==
  \/ a.pc = "join" /\ answer = "lost"
  \/ a.pc \in {"claim", "beat"} /\ answer = "unregistered"
  \/ a.pc = "leave"

AfterAnswer == [join |-> "claim", claim |-> "beat", beat |-> "tick",
                drain |-> "settle"]

\* The main goroutine reads an answer and moves on; a claimed job starts.
Answered(a, c) ==
  [a EXCEPT !.pc = AfterAnswer[a.pc],
            !.busy = IF c.arg = "job" THEN c.j ELSE @,
            !.exec = IF c.arg = "job" THEN "run" ELSE @,
            !.draining = @ \/ (a.pc = "beat" /\ c.arg = "DRAINING")]

Receive(n, t) ==
  LET c == calls[t]
      a == agents[n]
  IN /\ c.n = n /\ c.who = "main" /\ c.pc = "done"
     /\ IF Exits(a, c.arg)
        THEN Exit(n)
        ELSE /\ agents' = [agents EXCEPT ![n] = Answered(a, c)]
             /\ calls' = [calls EXCEPT ![t] = Idle]
     /\ UNCHANGED <<jobs, nodes, budget>>

\* The main goroutine stops waiting for an answer: the 20 s timeout of the
\* client, a broken connection, or the context a signal cancelled (drain and
\* leave use a detached one).
Abandon(n, t) ==
  LET a == agents[n]
      c == calls[t]
  IN /\ c.n = n /\ c.who = "main"
     /\ \/ a.cancelled /\ a.pc \in {"join", "claim", "beat"} /\ UNCHANGED budget
        \/ Spend("giveup")
     /\ IF Exits(a, "lost")
        THEN Exit(n)
        ELSE /\ AgentGoto(n, AfterAnswer[a.pc])
             /\ \E left \in Broken(c) : calls' = [calls EXCEPT ![t] = left]
     /\ UNCHANGED <<jobs, nodes>>

-----------------------------------------------------------------------------
(* The goroutine of a claimed job.                                         *)

\* Execute runs under the signal context: once that is cancelled it may be
\* aborted.  The report uses a detached context.
Outcomes(a) == {"ok", "exec"} \cup (IF a.cancelled THEN {"cancelled"} ELSE {})

Report(n, t) ==
  LET a == agents[n]
  IN /\ a.exec = "run"
     /\ \E outcome \in Outcomes(a) :
          Send(t, "result", "auth", n, a.busy, outcome, "report")
     /\ agents' = [agents EXCEPT ![n].exec = "report"]
     /\ UNCHANGED <<jobs, nodes, budget>>

\* Any answer, error or timeout ends the goroutine: a report is never retried.
Reported(n, t) ==
  /\ calls[t].n = n /\ calls[t].who = "report"
  /\ \/ calls[t].pc = "done" /\ UNCHANGED budget
     \/ calls[t].pc # "done" /\ Spend("giveup")
  /\ agents' = [agents EXCEPT ![n].busy = NoJob, ![n].exec = "none"]
  /\ \E left \in Broken(calls[t]) : calls' = [calls EXCEPT ![t] = left]
  /\ UNCHANGED <<jobs, nodes>>

-----------------------------------------------------------------------------
\* Ctrl+C or SIGTERM.
Interrupt(n) ==
  /\ agents[n].pc # "down" /\ ~agents[n].cancelled
  /\ Spend("interrupt")
  /\ agents' = [agents EXCEPT ![n].cancelled = TRUE]
  /\ UNCHANGED <<jobs, nodes, calls>>

Crash(n) ==
  /\ agents[n].pc # "down"
  /\ Spend("crash")
  /\ Exit(n)
  /\ UNCHANGED <<jobs, nodes>>

\* What the agent does of its own accord.
AgentStep(n) ==
  \/ \E t \in Threads : TryClaim(n, t) \/ Heartbeat(n, t) \/ SendDrain(n, t)
                        \/ SendLeave(n, t) \/ Receive(n, t) \/ Report(n, t)
  \/ SkipClaim(n) \/ SkipBeat(n) \/ Tick(n) \/ Settle(n)
=============================================================================
