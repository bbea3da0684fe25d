--------------------------------- MODULE Fabric ---------------------------------
(***************************************************************************)
(* The compute fabric: one control plane, the agents of its GPU nodes, the *)
(* clients that submit jobs, the operator's commands, and time passing.    *)
(***************************************************************************)
EXTENDS NodeAgent

vars == <<jobs, nodes, calls, agents, budget>>

Init ==
  /\ jobs = EmptyJobs
  /\ nodes = EmptyRegistry
  /\ calls = [t \in Threads |-> Idle]
  /\ agents = [n \in Nodes |-> Down]
  /\ budget = Budget

-----------------------------------------------------------------------------
(* Clients and the operator.                                               *)

Submitted(j) ==
  jobs[j].status # "none" \/ \E t \in Threads : calls[t].op = "submit" /\ calls[t].j = j

\* POST /v1/jobs, with or without a preferred node.  Job ids are handed out
\* in the order the requests reach Create's clock.
Submit(j, pref, t) ==
  /\ ~Submitted(j) /\ \A k \in Jobs : k < j => Submitted(k)
  /\ Send(t, "submit", "check", pref, j, "", "nobody")
  /\ UNCHANGED <<jobs, nodes, agents, budget>>

\* `houdry node drain` and `houdry node leave`, from a terminal of the node.
AdminDrain(n, t) ==
  /\ Spend("drain")
  /\ Send(t, "drain", "auth", n, NoJob, "", "nobody")
  /\ UNCHANGED <<jobs, nodes, agents>>

AdminLeave(n, t) ==
  /\ Spend("leave")
  /\ Send(t, "drain", "auth", n, NoJob, "thenleave", "nobody")
  /\ UNCHANGED <<jobs, nodes, agents>>

\* `houdry gpu join`: an inventory snapshot, with no agent version.
AdminSnapshot(n, t) ==
  /\ Spend("snapshot")
  /\ Send(t, "join", "upsert", n, NoJob, "JOINED", "nobody")
  /\ UNCHANGED <<jobs, nodes, agents>>

-----------------------------------------------------------------------------
(* Time and failures.                                                      *)

\* 20 s have passed since LastSeen was written.  It takes a network failure
\* for that to happen to a node whose agent is up and waits for no answer.
Silence(n) ==
  /\ Registered(nodes, n) /\ nodes[n].seen
  /\ nodes' = [nodes EXCEPT ![n].seen = FALSE]
  /\ IF agents[n].pc = "down" THEN UNCHANGED budget ELSE Spend("silence")
  /\ UNCHANGED <<jobs, calls, agents>>

\* The ticker of sweepOffline; one goroutine runs all the ticks.  A tick that
\* finds nothing to do is a stutter.
SweepTick(t) ==
  /\ \A u \in Threads : calls[u].op # "sweep"
  /\ Stale(nodes) # {} \/ WithStatus(jobs, "queued") # {}
  /\ Send(t, "sweep", "stale", NoNode, NoJob, "", "nobody")
  /\ UNCHANGED <<jobs, nodes, agents, budget>>

\* The control plane crashes and starts again: both stores come back as they
\* were saved, every handler is gone and its client's connection breaks.
Restart ==
  /\ \E t \in Threads : ~Free(t)
  /\ Spend("restart")
  /\ calls' = [t \in Threads |->
                 LET c == calls[t]
                 IN IF c.who = "nobody" THEN Idle
                    ELSE IF c.pc = "done" THEN c
                    ELSE [c EXCEPT !.pc = "done", !.arg = "lost",
                                   !.q = {}, !.up = {}]]
  /\ UNCHANGED <<jobs, nodes, agents>>

-----------------------------------------------------------------------------
Environment ==
  \/ \E t \in Threads :
       \/ \E j \in Jobs, pref \in NodeOrNone : Submit(j, pref, t)
       \/ \E n \in Nodes : \/ Start(n, t)
                           \/ AdminDrain(n, t) \/ AdminLeave(n, t)
                           \/ AdminSnapshot(n, t)
                           \/ Abandon(n, t)
       \/ SweepTick(t)
  \/ \E n \in Nodes : Silence(n) \/ SettleTimeout(n) \/ Interrupt(n) \/ Crash(n)
  \/ Restart

\* A handler of the control plane takes its next step.
PlaneStep(t) == Handle(t) /\ UNCHANGED <<agents, budget>>

Next ==
  \/ \E t \in Threads : PlaneStep(t)
  \/ \E n \in Nodes : AgentStep(n) \/ \E t \in Threads : Reported(n, t)
  \/ Environment

Spec == Init /\ [][Next]_vars

-----------------------------------------------------------------------------
(* What is bound to happen.  A handler runs on once it has started, answers *)
(* are read, the agent's loop and the sweeper's ticker go on, and LastSeen  *)
(* grows old when no agent is left to renew it.  A request needs a free     *)
(* slot, which the code never runs out of: hence strong fairness.  Nobody   *)
(* has to submit, to start an agent or to type a command, and no fault has  *)
(* to happen.                                                               *)

AgentSend(n, t) ==
  TryClaim(n, t) \/ Heartbeat(n, t) \/ SendDrain(n, t) \/ SendLeave(n, t)

AgentMove(n) == SkipClaim(n) \/ SkipBeat(n) \/ Tick(n) \/ Settle(n)

Fairness ==
  /\ \A t \in Threads : WF_vars(PlaneStep(t))
  /\ \A n \in Nodes :
       /\ WF_vars(\E t \in Threads : Receive(n, t))
       /\ WF_vars(\E t \in Threads : calls[t].pc = "done" /\ Reported(n, t))
       /\ WF_vars(AgentMove(n))
       /\ SF_vars(\E t \in Threads : AgentSend(n, t))
       /\ SF_vars(\E t \in Threads : Report(n, t))
       /\ WF_vars(agents[n].pc = "down" /\ Silence(n))
  /\ SF_vars(\E t \in Threads : SweepTick(t))

FairSpec == Spec /\ Fairness
=============================================================================
