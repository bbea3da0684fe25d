------------------------------ MODULE OrderProofs ------------------------------
(***************************************************************************)
(* The registry against the jobs, when the steps of handlers do not        *)
(* overlap in the ways FabricOrder names: for every set of nodes, jobs and *)
(* call slots, every set of faults and any number of them.                 *)
(***************************************************************************)
EXTENDS FabricOrder, CustodyProofs, FiniteSetTheorems

-----------------------------------------------------------------------------
(* What agents, clients, the operator and time do to the calls.            *)

\* What becomes of call c when no handler takes a step: nothing, or its client
\* goes away, or reads the answer, or the plane crashes.  A call at a step in
\* S is not cut off.
Lets(S, c, d) ==
  \/ c.pc \notin S /\ d = Idle
  \/ /\ d.op = c.op /\ d.n = c.n /\ d.j = c.j
     /\ \/ d.pc = c.pc /\ d.arg = c.arg /\ d.up = c.up /\ d.who \in {c.who, "nobody"}
        \/ c.pc \notin S /\ d.pc = "done" /\ d.arg = "lost" /\ d.who = c.who

Opens(c, d) ==
  c.op = "idle" /\ \E pc \in {"auth", "upsert", "stale", "check"} : \E op, n, j, a, w :
                      d = Request(op, pc, n, j, a, w) /\ (op = "result" => w = "report")

ClientStep(S) ==
  /\ UNCHANGED jobs
  /\ \A n \in Nodes : nodes'[n].status = nodes[n].status
  /\ \A t \in Threads : Lets(S, calls[t], calls'[t]) \/ Opens(calls[t], calls'[t])

\* A client that goes away lets its call be.
LEMMA OrphanLets ==
  ASSUME NEW S \in SUBSET {"busy", "failexcept", "expire"}, NEW c \in Call
  PROVE  Lets(S, c, Orphan(c)) /\ \A d \in Broken(c) : Lets(S, c, d)
<1>1. Lets(S, c, Orphan(c))
  BY DEF Lets, Orphan, Call
<1>2. c.pc \in {"auth", "upsert"} => Lets(S, c, Idle)
  BY DEF Lets
<1>. QED BY <1>1, <1>2 DEF Broken

\* So does one that sends a request.
LEMMA SendOpens ==
  ASSUME calls \in [Threads -> Call], NEW S, NEW t \in Threads, NEW op,
         NEW pc \in {"auth", "upsert", "stale", "check"},
         NEW n, NEW j, NEW a, NEW w, Send(t, op, pc, n, j, a, w), op = "result" => w = "report"
  PROVE  \A u \in Threads : Lets(S, calls[u], calls'[u]) \/ Opens(calls[u], calls'[u])
BY DEF Send, Free, Lets, Opens

\* Every step that is not a handler's is a ClientStep.
LEMMA ClientMoves ==
  ASSUME TypeOK, Shape, NEW S \in SUBSET {"busy", "failexcept", "expire"}, Uncut(S),
         \/ \E n \in Nodes : AgentStep(n) \/ \E t \in Threads : Reported(n, t)
         \/ Environment
  PROVE  ClientStep(S)
<1>0. /\ calls \in [Threads -> Call] /\ nodes \in [Nodes -> NodeRec]
      /\ \A t \in Threads : calls[t] \in Call
  BY DEF TypeOK
<1>. USE <1>0
<1>a. ASSUME UNCHANGED <<jobs, nodes>>,
             \A t \in Threads : Lets(S, calls[t], calls'[t]) \/ Opens(calls[t], calls'[t])
      PROVE  ClientStep(S)
  BY <1>a DEF ClientStep
<1>b. ASSUME NEW n, Exit(n), UNCHANGED <<jobs, nodes>>
      PROVE  ClientStep(S)
  <2>1. \A u \in Threads : calls'[u] = calls[u] \/ calls'[u] = Orphan(calls[u])
    BY <1>b DEF Exit, OrphanAll
  <2>2. \A u \in Threads : Lets(S, calls[u], calls'[u])
    BY <2>1, OrphanLets DEF Lets
  <2>. QED BY <1>a, <1>b, <2>2
<1>c. ASSUME NEW t \in Threads, NEW left \in Broken(calls[t]),
             calls' = [calls EXCEPT ![t] = left], UNCHANGED <<jobs, nodes>>
      PROVE  ClientStep(S)
  <2>1. \A u \in Threads : Lets(S, calls[u], calls'[u])
    BY <1>c, OrphanLets DEF Lets
  <2>. QED BY <1>a, <1>c, <2>1
<1>d. ASSUME UNCHANGED <<jobs, nodes, calls>>
      PROVE  ClientStep(S)
  BY <1>a, <1>d DEF Lets
<1>1. ASSUME NEW n \in Nodes, AgentStep(n) \/ \E t \in Threads : Reported(n, t)
      PROVE  ClientStep(S)
  <2>1. CASE \E t \in Threads : \/ TryClaim(n, t) \/ Heartbeat(n, t) \/ SendDrain(n, t)
                                \/ SendLeave(n, t) \/ Report(n, t)
    <3>1. UNCHANGED <<jobs, nodes>>
      BY <2>1 DEF TryClaim, Heartbeat, SendDrain, SendLeave, Report
    <3>2. \/ \E t \in Threads, op \in {"claim", "heartbeat", "drain", "leave"} : \E j, a :
               Send(t, op, "auth", n, j, a, "main")
          \/ \E t \in Threads : \E j, a : Send(t, "result", "auth", n, j, a, "report")
      BY <2>1 DEF TryClaim, Heartbeat, SendDrain, SendLeave, Report
    <3>3. \A u \in Threads : Lets(S, calls[u], calls'[u]) \/ Opens(calls[u], calls'[u])
      <4>1. ASSUME NEW t \in Threads, NEW op \in {"claim", "heartbeat", "drain", "leave"},
                   NEW j, NEW a, Send(t, op, "auth", n, j, a, "main")
            PROVE  \A u \in Threads : Lets(S, calls[u], calls'[u]) \/ Opens(calls[u], calls'[u])
        BY <4>1, SendOpens
      <4>2. ASSUME NEW t \in Threads, NEW j, NEW a, Send(t, "result", "auth", n, j, a, "report")
            PROVE  \A u \in Threads : Lets(S, calls[u], calls'[u]) \/ Opens(calls[u], calls'[u])
        BY <4>2, SendOpens
      <4>. QED BY <3>2, <4>1, <4>2
    <3>. QED BY <1>a, <3>1, <3>3
  <2>2. ASSUME NEW t \in Threads, Receive(n, t)
        PROVE  ClientStep(S)
    <3>1. CASE Exit(n)
      BY <1>b, <2>2, <3>1 DEF Receive
    <3>2. CASE calls' = [calls EXCEPT ![t] = Idle]
      <4>1. calls[t].pc \notin S /\ UNCHANGED <<jobs, nodes>>
        BY <2>2 DEF Receive
      <4>2. \A u \in Threads : Lets(S, calls[u], calls'[u])
        BY <3>2, <4>1 DEF Lets
      <4>. QED BY <1>a, <4>1, <4>2
    <3>. QED BY <2>2, <3>1, <3>2 DEF Receive
  <2>3. CASE SkipClaim(n) \/ SkipBeat(n) \/ Tick(n) \/ Settle(n)
    BY <1>d, <2>3 DEF SkipClaim, SkipBeat, Tick, Settle
  <2>4. CASE \E t \in Threads : Reported(n, t)
    BY <1>c, <2>4 DEF Reported
  <2>. QED BY <1>1, <2>1, <2>2, <2>3, <2>4 DEF AgentStep
<1>2. CASE Environment
  <2>1. CASE \E t \in Threads : \/ \E j \in Jobs, pref \in NodeOrNone : Submit(j, pref, t)
                                \/ \E n \in Nodes : \/ Start(n, t) \/ AdminDrain(n, t)
                                                    \/ AdminLeave(n, t) \/ AdminSnapshot(n, t)
                                \/ SweepTick(t)
    <3>1. UNCHANGED <<jobs, nodes>>
      BY <2>1 DEF Submit, Start, AdminDrain, AdminLeave, AdminSnapshot, SweepTick
    <3>2. PICK t \in Threads, pc \in {"auth", "upsert", "stale", "check"},
               op \in {"submit", "drain", "join", "sweep"} :
            \E n, j, a, w : Send(t, op, pc, n, j, a, w)
      BY <2>1 DEF Submit, Start, AdminDrain, AdminLeave, AdminSnapshot, SweepTick
    <3>3. op # "result"
      OBVIOUS
    <3>4. \A u \in Threads : Lets(S, calls[u], calls'[u]) \/ Opens(calls[u], calls'[u])
      BY <3>2, <3>3, SendOpens
    <3>. QED BY <1>a, <3>1, <3>4
  <2>2. CASE \E n \in Nodes, t \in Threads : Abandon(n, t)
    <3>1. PICK n \in Nodes, t \in Threads : Abandon(n, t)
      BY <2>2
    <3>. QED BY <1>b, <1>c, <3>1 DEF Abandon
  <2>3. CASE \E n \in Nodes : Silence(n)
    <3>1. PICK n \in Nodes : Silence(n)
      BY <2>3
    <3>2. \A m \in Nodes : nodes'[m].status = nodes[m].status
      BY <3>1 DEF Silence, NodeRec
    <3>3. UNCHANGED <<jobs, calls>>
      BY <3>1 DEF Silence
    <3>. QED BY <3>2, <3>3 DEF ClientStep, Lets
  <2>4. CASE \E n \in Nodes : SettleTimeout(n) \/ Interrupt(n)
    BY <1>d, <2>4 DEF SettleTimeout, Interrupt
  <2>5. CASE \E n \in Nodes : Crash(n)
    BY <1>b, <2>5 DEF Crash
  <2>6. CASE Restart
    <3>1. \A t \in Threads : calls[t].pc \notin S
      BY <2>6 DEF Uncut
    <3>2. \A t \in Threads : Lets(S, calls[t], calls'[t])
      BY <2>6, <3>1 DEF Restart, Lets, Call
    <3>3. UNCHANGED <<jobs, nodes>>
      BY <2>6 DEF Restart
    <3>. QED BY <1>a, <3>2, <3>3
  <2>. QED BY <1>2, <2>1, <2>2, <2>3, <2>4, <2>5, <2>6 DEF Environment
<1>. QED BY <1>1, <1>2

-----------------------------------------------------------------------------
(* Which step a handler takes.                                             *)

\* The step a handler is at tells which one it takes.
LEMMA StepAt ==
  ASSUME NEW t \in Threads
  PROVE  /\ Authenticate(t) => calls[t].pc = "auth"
         /\ JoinUpsert(t) => calls[t].pc = "upsert"
         /\ Beat(t) => calls[t].pc = "beat"
         /\ FailLost(t) => calls[t].pc = "failexcept"
         /\ Drain(t) => calls[t].pc = "mark"
         /\ LeaveGet(t) => calls[t].pc = "get"
         /\ LeaveFail(t) => calls[t].pc = "leavefail"
         /\ LeaveOffline(t) => calls[t].pc = "offline"
         /\ LeaveRemove(t) => calls[t].pc = "remove"
         /\ ClaimGate(t) => calls[t].pc = "gate"
         /\ ClaimTake(t) => calls[t].pc = "take"
         /\ ClaimBusy(t) => calls[t].pc = "busy"
         /\ ResultComplete(t) => calls[t].pc = "complete"
         /\ ResultReady(t) => calls[t].pc = "ready"
         /\ SubmitCheck(t) => calls[t].pc = "check"
         /\ SubmitCreate(t) => calls[t].pc = "create"
         /\ SweepStale(t) => calls[t].pc = "stale"
         /\ SweepExpire(t) => calls[t].pc = "expire"
         /\ SchedQueued(t) => calls[t].pc = "queued"
         /\ SchedSnapshot(t) => calls[t].pc = "snapshot"
         /\ SchedAssign(t) => calls[t].pc = "assign"
BY DEF At, Authenticate, JoinUpsert, Beat, FailLost, Drain, LeaveGet, LeaveFail, LeaveOffline,
   LeaveRemove, ClaimGate, ClaimTake, ClaimBusy, ResultComplete, ResultReady, SubmitCheck,
   SubmitCreate, SweepStale, SweepExpire, SchedQueued, SchedSnapshot, SchedAssign

\* The steps of each operation.
LEMMA StepOf ==
  ASSUME TypeOK, Shape, NEW t \in Threads, PlaneStep(t)
  PROVE  LET c == calls[t] IN
         /\ c.op = "leave" => \/ Authenticate(t) \/ LeaveGet(t) \/ LeaveFail(t)
                              \/ LeaveOffline(t) \/ LeaveRemove(t)
         /\ c.op = "claim" => Authenticate(t) \/ ClaimGate(t) \/ ClaimTake(t) \/ ClaimBusy(t)
         /\ c.op = "result" => \/ Authenticate(t) \/ ResultComplete(t) \/ ResultReady(t)
                               \/ SchedQueued(t) \/ SchedSnapshot(t) \/ SchedAssign(t)
         /\ c.op = "heartbeat" => \/ Authenticate(t) \/ Beat(t) \/ FailLost(t)
                                  \/ SchedQueued(t) \/ SchedSnapshot(t) \/ SchedAssign(t)
         /\ c.op = "join" => \/ JoinUpsert(t) \/ FailLost(t)
                             \/ SchedQueued(t) \/ SchedSnapshot(t) \/ SchedAssign(t)
         /\ c.op # "idle"
<1>1. calls[t] \in Call /\ CallShape(calls[t])
  BY DEF TypeOK, Shape
<1>. QED BY <1>1, AtStep, StepAt DEF PlaneStep, Handle, Scheduling, Unanswered

\* What becomes of a call in a step of its own handler: it ends, it becomes the
\* leave that follows a drain, or it goes on as what it was.
Follows(c, d) ==
  /\ d.op = c.op /\ d.n = c.n /\ d.who = c.who
  /\ d.j = c.j \/ c.pc = "take"
  /\ d.pc # "done" => d.arg = c.arg \/ c.pc = "beat"

\* The three ways in which most steps end.
LEMMA Endings ==
  ASSUME calls \in [Threads -> Call], NEW t \in Threads
  PROVE  /\ \A a : Reply(t, a) => \/ calls'[t] = Idle
                                 \/ /\ Follows(calls[t], calls'[t]) /\ calls'[t].pc = "done"
                                    /\ calls'[t].arg = a /\ calls'[t].j = calls[t].j
         /\ \A pc : Goto(t, pc) => /\ Follows(calls[t], calls'[t])
                                   /\ calls'[t].pc = pc /\ calls'[t].j = calls[t].j
<1>1. ASSUME NEW a, Reply(t, a), calls[t].who = "nobody"
      PROVE  calls'[t] = Idle
  BY <1>1 DEF Reply
<1>2. ASSUME NEW a, Reply(t, a), calls[t].who # "nobody"
      PROVE  /\ Follows(calls[t], calls'[t]) /\ calls'[t].pc = "done"
             /\ calls'[t].arg = a /\ calls'[t].j = calls[t].j
  <2>1. calls'[t] = [calls[t] EXCEPT !.pc = "done", !.arg = a, !.q = {}, !.up = {}]
    BY <1>2 DEF Reply
  <2>. QED BY <2>1 DEF Follows, Call
<1>3. ASSUME NEW pc, Goto(t, pc)
      PROVE  Follows(calls[t], calls'[t]) /\ calls'[t].pc = pc /\ calls'[t].j = calls[t].j
  BY <1>3 DEF Goto, Follows, Call
<1>4. \A a : Reply(t, a) => \/ calls'[t] = Idle
                          \/ /\ Follows(calls[t], calls'[t]) /\ calls'[t].pc = "done"
                             /\ calls'[t].arg = a /\ calls'[t].j = calls[t].j
  BY <1>1, <1>2
<1>. QED BY <1>3, <1>4

\* Every step of every handler.
LEMMA CallMoves ==
  ASSUME TypeOK, Shape, NEW t \in Threads, PlaneStep(t)
  PROVE  \/ calls'[t] = Idle
         \/ /\ calls[t].op = "drain" /\ calls'[t].op = "leave"
            /\ calls'[t].pc = "auth" /\ calls'[t].who = "nobody"
         \/ Follows(calls[t], calls'[t])
<1>0. /\ calls[t] \in Call /\ CallShape(calls[t]) /\ calls \in [Threads -> Call]
  BY DEF TypeOK, Shape
<1>. USE <1>0
<1>1. CASE \E a : Reply(t, a)
  BY <1>1, Endings
<1>2. CASE \E pc : Goto(t, pc)
  BY <1>2, Endings
<1>3. CASE Beat(t)
  BY <1>1, <1>3, StepAt DEF Beat, Follows, Call
<1>4. CASE Drain(t)
  <2>1. \/ \E a : Reply(t, a)
        \/ calls'[t] = Request("leave", "auth", calls[t].n, NoJob, "", "nobody")
    BY <1>4 DEF Drain
  <2>. QED BY <1>1, <1>4, <2>1, StepAt, AtStep DEF Request, Idle
<1>5. CASE ClaimTake(t)
  BY <1>1, <1>5, StepAt DEF ClaimTake, Follows, Call
<1>a. ASSUME NEW pc, NEW up, calls' = [calls EXCEPT ![t].pc = pc, ![t].up = up]
      PROVE  Follows(calls[t], calls'[t])
  BY <1>a DEF Follows, Call
<1>b. CASE SweepStale(t)
  BY <1>a, <1>b DEF SweepStale
<1>6. CASE SweepExpire(t)
  BY <1>6 DEF SweepExpire, Follows, Call
<1>7. CASE SchedQueued(t) \/ SchedSnapshot(t)
  BY <1>1, <1>7 DEF SchedQueued, SchedSnapshot, Finish, Follows, Call
<1>8. CASE SchedAssign(t)
  BY <1>1, <1>8 DEF SchedAssign, Finish, Follows, Call
<1>. QED
  BY <1>1, <1>2, <1>3, <1>4, <1>5, <1>b, <1>6, <1>7, <1>8 DEF PlaneStep, Handle, Authenticate,
     JoinUpsert, FailLost, LeaveGet, LeaveFail, LeaveOffline, LeaveRemove, ClaimGate, ClaimBusy,
     ResultComplete, ResultReady, SubmitCheck, SubmitCreate

\* What the methods of Store do to the status of a row.
LEMMA StatusAfter ==
  ASSUME NEW ns \in [Nodes -> NodeRec], NEW n \in Nodes, NEW m \in Nodes
  PROVE  /\ \A s, j : NodeSetStatus(ns, n, s, j)[m].status =
              IF m = n /\ Registered(ns, n)
              THEN IF s = "READY" /\ ns[n].status = "DRAINING" THEN "DRAINING" ELSE s
              ELSE ns[m].status
         /\ NodeSetDrain(ns, n)[m].status = IF m = n THEN "DRAINING" ELSE ns[m].status
         /\ NodeRemove(ns, n)[m].status = IF m = n THEN "absent" ELSE ns[m].status
         /\ \A s : NodeUpsert(ns, n, s)[m].status = IF m = n THEN s ELSE ns[m].status
         /\ \A s, j : NodeHeartbeat(ns, n, s, j)[m].status =
              IF m = n THEN IF ns[n].status = "DRAINING" THEN "DRAINING" ELSE s
              ELSE ns[m].status
         /\ \A S : NodeMarkOffline(ns, S)[m].status = IF m \in S THEN "OFFLINE" ELSE ns[m].status
<1>. USE DEF NodeRec
<1>1. \A s, j : NodeSetStatus(ns, n, s, j)[m].status =
        IF m = n /\ Registered(ns, n)
        THEN IF s = "READY" /\ ns[n].status = "DRAINING" THEN "DRAINING" ELSE s
        ELSE ns[m].status
  BY DEF NodeSetStatus
<1>2. NodeSetDrain(ns, n)[m].status = IF m = n THEN "DRAINING" ELSE ns[m].status
  BY DEF NodeSetDrain
<1>3. NodeRemove(ns, n)[m].status = IF m = n THEN "absent" ELSE ns[m].status
  BY DEF NodeRemove, Absent
<1>4. \A s : NodeUpsert(ns, n, s)[m].status = IF m = n THEN s ELSE ns[m].status
  BY DEF NodeUpsert
<1>5. \A s, j : NodeHeartbeat(ns, n, s, j)[m].status =
        IF m = n THEN IF ns[n].status = "DRAINING" THEN "DRAINING" ELSE s ELSE ns[m].status
  BY DEF NodeHeartbeat
<1>6. \A S : NodeMarkOffline(ns, S)[m].status = IF m \in S THEN "OFFLINE" ELSE ns[m].status
  BY DEF NodeMarkOffline
<1>. QED BY <1>1, <1>2, <1>3, <1>4, <1>5, <1>6

-----------------------------------------------------------------------------
(* Fresh copies: what the steps of handlers do to jobs in flight.          *)

\* A job comes into flight only by an assignment from a copy of the registry.
LEMMA ComesIntoFlight ==
  ASSUME TypeOK, Shape, NEW t \in Threads, PlaneStep(t),
         NEW j \in Jobs, jobs'[j].status \in InFlight
  PROVE  \/ jobs[j].status \in InFlight /\ jobs'[j].node = jobs[j].node
         \/ /\ calls[t].pc = "assign" /\ jobs'[j].node \in calls[t].up
            /\ UNCHANGED nodes
<1>. DEFINE c == calls[t]
<1>0. /\ c \in Call /\ CallShape(c) /\ jobs \in [Jobs -> JobRec]
  BY DEF TypeOK, Shape
<1>. USE <1>0 DEF InFlight
<1>1. CASE Rests(t) \/ GivesUp(t)
  BY <1>1 DEF Rests, GivesUp, FailInFlight, JobRec
<1>2. CASE Claims(t)
  BY <1>2 DEF Claims, Claimable, WithStatus, JobClaim, JobRec
<1>3. CASE Completes(t)
  BY <1>3 DEF Completes, JobComplete, JobRec
<1>4. CASE Submits(t)
  BY <1>4 DEF Submits, JobCreate, NoJobRec, JobRec
<1>5. CASE Places(t)
  BY <1>5 DEF Places, JobAssign, JobRec
<1>. QED BY <1>1, <1>2, <1>3, <1>4, <1>5, JobMoves

Clear(n) == \A j \in Jobs : jobs[j].status \in InFlight => jobs[j].node # n

Expiring(n) == \E t \in Threads : calls[t].pc = "expire" /\ n \in calls[t].up

\* What a step has to respect for FreshInv to be kept.
LEMMA FreshKept ==
  ASSUME FreshInv,
         \A j \in Jobs : jobs'[j].status \in InFlight =>
           \/ jobs[j].status \in InFlight /\ jobs'[j].node = jobs[j].node
           \/ /\ jobs'[j].node \in Nodes /\ ~Gone(jobs[j].node)'
              /\ \A u \in Threads : ~Outbound(calls'[u], jobs'[j].node),
         \A n \in Nodes : Gone(n)' => Gone(n) \/ Clear(n)' \/ Expiring(n)',
         \A n \in Nodes : Expiring(n) => Expiring(n)' \/ Clear(n)',
         \A u \in Threads, n \in Nodes :
           Outbound(calls'[u], n) => Outbound(calls[u], n) \/ Clear(n)'
  PROVE  FreshInv'
<1>1. \A j \in Jobs : jobs'[j].status \in InFlight => jobs'[j].node \in Nodes
  BY DEF FreshInv
<1>2. ASSUME NEW j \in Jobs, jobs'[j].status \in InFlight, Gone(jobs[j].node)'
      PROVE  Expiring(jobs[j].node)'
  <2>1. jobs[j].status \in InFlight /\ jobs'[j].node = jobs[j].node /\ jobs[j].node \in Nodes
    BY <1>1, <1>2
  <2>2. ~Clear(jobs[j].node)'
    BY <1>2, <2>1 DEF Clear
  <2>3. Gone(jobs[j].node)'
    BY <1>2, <2>1
  <2>4. Expiring(jobs[j].node) \/ Expiring(jobs[j].node)'
    BY <2>1, <2>2, <2>3 DEF FreshInv, Expiring
  <2>. QED BY <2>1, <2>2, <2>4
<1>3. ASSUME NEW u \in Threads, NEW j \in Jobs, jobs'[j].status \in InFlight,
             Outbound(calls'[u], jobs'[j].node)
      PROVE  FALSE
  <2>1. jobs[j].status \in InFlight /\ jobs'[j].node = jobs[j].node /\ jobs'[j].node \in Nodes
    BY <1>1, <1>3
  <2>2. ~Clear(jobs[j].node)'
    BY <1>3, <2>1 DEF Clear
  <2>3. Outbound(calls[u], jobs[j].node)
    BY <1>3, <2>1, <2>2
  <2>. QED BY <2>1, <2>3 DEF FreshInv
<1>. QED BY <1>1, <1>2, <1>3 DEF FreshInv, Expiring

\* A node leaves the registry only by a leave handler or the sweeper.
LEMMA GoesAway ==
  ASSUME TypeOK, Shape, NEW t \in Threads, PlaneStep(t), NEW n \in Nodes, Gone(n)'
  PROVE  \/ Gone(n)
         \/ Outbound(calls[t], n) /\ UNCHANGED jobs
         \/ Expiring(n)'
<1>. DEFINE c == calls[t]
<1>0. /\ c \in Call /\ CallShape(c) /\ nodes \in [Nodes -> NodeRec]
      /\ calls \in [Threads -> Call]
  BY DEF TypeOK, Shape
<1>. USE <1>0 DEF Gone, At
<1>1. CASE UNCHANGED nodes
  BY <1>1
<1>2. CASE JoinUpsert(t)
  <2>1. c.arg \in {"READY", "JOINED"} /\ c.n \in Nodes
    BY <1>2, AtStep DEF JoinUpsert
  <2>. QED BY <1>2, <2>1, StatusAfter DEF JoinUpsert
<1>3. CASE Beat(t)
  <2>1. c.arg \in {"READY", "BUSY", "DRAINING"} /\ c.n \in Nodes
    BY <1>3, AtStep DEF Beat
  <2>. QED BY <1>1, <1>3, <2>1, StatusAfter DEF Beat
<1>4. CASE Drain(t)
  <2>1. c.n \in Nodes
    BY <1>4, AtStep DEF Drain
  <2>2. UNCHANGED nodes \/ nodes' = NodeSetDrain(nodes, c.n)
    BY <1>4 DEF Drain
  <2>. QED BY <1>1, <2>1, <2>2, StatusAfter
<1>5. CASE ClaimBusy(t) \/ ResultReady(t)
  <2>1. c.n \in Nodes
    BY <1>5, AtStep DEF ClaimBusy, ResultReady
  <2>. QED BY <1>5, <2>1, StatusAfter DEF ClaimBusy, ResultReady
<1>6. CASE LeaveOffline(t) \/ LeaveRemove(t)
  <2>1. c.op = "leave" /\ c.pc \in {"offline", "remove"} /\ UNCHANGED jobs
    BY <1>6, AtStep DEF LeaveOffline, LeaveRemove
  <2>2. n # c.n => nodes'[n] = nodes[n]
    BY <1>6 DEF LeaveOffline, LeaveRemove, NodeSetStatus, NodeRemove
  <2>. QED BY <2>1, <2>2 DEF Outbound
<1>7. CASE SweepStale(t)
  <2>1. n \notin Stale(nodes) => nodes'[n] = nodes[n]
    BY <1>7 DEF SweepStale, NodeMarkOffline
  <2>2. Stale(nodes) # {} => calls'[t].pc = "expire" /\ calls'[t].up = Stale(nodes)
    BY <1>7 DEF SweepStale, Call
  <2>. QED BY <2>1, <2>2 DEF Expiring
<1>. QED
  BY <1>1, <1>2, <1>3, <1>4, <1>5, <1>6, <1>7 DEF PlaneStep, Handle, Authenticate, FailLost,
     LeaveGet, LeaveFail, ClaimGate, ClaimTake, ResultComplete, SubmitCheck, SubmitCreate,
     SweepExpire, SchedQueued, SchedSnapshot, SchedAssign

\* failInFlight with its pending jobs leaves nothing in flight on a node.
LEMMA FailsAll ==
  ASSUME jobs \in [Jobs -> JobRec], NEW n, NEW e, jobs' = FailRunningForNode(jobs, n, e)
  PROVE  Clear(n)'
BY JobsAssumption DEF FailRunningForNode, FailInFlight, Failing, Clear, InFlight, JobRec

\* A leave handler is on its way out once it has failed the jobs of its node.
LEMMA TurnsOut ==
  ASSUME TypeOK, Shape, NEW t \in Threads, PlaneStep(t), NEW n \in Nodes, Outbound(calls'[t], n)
  PROVE  Outbound(calls[t], n) \/ Clear(n)'
<1>. DEFINE c == calls[t]
            d == calls'[t]
<1>0. /\ c \in Call /\ CallShape(c) /\ calls \in [Threads -> Call]
      /\ jobs \in [Jobs -> JobRec]
  BY DEF TypeOK, Shape
<1>. USE <1>0 DEF At, Outbound
<1>a. d.op = "leave" /\ d.n = n /\ d.pc \in {"offline", "remove"}
  OBVIOUS
<1>1. \A a : ~Reply(t, a)
  <2>1. Idle.op # "leave"
    BY DEF Idle
  <2>. QED BY <1>a, <2>1, Endings
<1>2. \A pc : Goto(t, pc) => c.op = "leave" /\ c.n = n /\ pc \in {"offline", "remove"}
  BY DEF Goto, Call
<1>3. CASE LeaveFail(t)
  BY <1>2, <1>3, FailsAll DEF LeaveFail
<1>4. CASE LeaveOffline(t)
  BY <1>2, <1>4 DEF LeaveOffline
<1>5. CASE Authenticate(t)
  BY <1>1, <1>2, <1>5 DEF Authenticate, AfterAuth
<1>6. CASE c.op # "leave"
  <2>1. Idle.op # "leave"
    BY DEF Idle
  <2>. QED BY <1>6, <1>a, <2>1, CallMoves DEF Follows
<1>7. CASE LeaveGet(t) \/ LeaveRemove(t)
  BY <1>1, <1>2, <1>7 DEF LeaveGet, LeaveRemove
<1>. QED BY <1>3, <1>4, <1>5, <1>6, <1>7, StepOf

\* The sweeper is done with a node when nothing is in flight there.
LEMMA StopsExpiring ==
  ASSUME TypeOK, Shape, NEW t \in Threads, PlaneStep(t), NEW n \in Nodes, Expiring(n)
  PROVE  Expiring(n)' \/ Clear(n)'
<1>. DEFINE c == calls[t]
<1>0. /\ c \in Call /\ CallShape(c) /\ calls \in [Threads -> Call]
      /\ jobs \in [Jobs -> JobRec]
  BY DEF TypeOK, Shape
<1>. USE <1>0 DEF At
<1>1. PICK u \in Threads : calls[u].pc = "expire" /\ n \in calls[u].up
  BY DEF Expiring
<1>2. \A v \in Threads \ {t} : calls'[v] = calls[v]
  BY HandlerKeeps
<1>3. CASE u # t
  BY <1>1, <1>2, <1>3 DEF Expiring
<1>4. CASE u = t
  <2>1. SweepExpire(t)
    BY <1>1, <1>4, StepAt DEF PlaneStep, Handle
  <2>2. PICK m \in c.up : /\ jobs' = FailRunningForNode(jobs, m, "timeout")
                          /\ calls' = [calls EXCEPT ![t].up = @ \ {m},
                                                    ![t].pc = IF c.up = {m} THEN "queued" ELSE @]
    BY <2>1 DEF SweepExpire
  <2>3. CASE m = n
    BY <2>2, <2>3, FailsAll
  <2>4. CASE m # n
    <3>1. c.pc = "expire" /\ n \in c.up \ {m} /\ c.up # {m}
      BY <1>1, <1>4, <2>4
    <3>2. calls'[t].pc = "expire" /\ calls'[t].up = c.up \ {m}
      BY <2>2, <3>1 DEF Call
    <3>. QED BY <3>1, <3>2 DEF Expiring
  <2>. QED BY <2>3, <2>4
<1>. QED BY <1>3, <1>4

\* A step of a handler keeps FreshInv, if the copy it assigns from is fresh.
LEMMA HandlerFresh ==
  ASSUME TypeOK, Shape, FreshCopies, FreshInv, NEW t \in Threads, PlaneStep(t)
  PROVE  FreshInv'
<1>0. /\ \A u \in Threads \ {t} : calls'[u] = calls[u]
      /\ calls[t] \in Call /\ CallShape(calls[t])
  BY HandlerKeeps DEF TypeOK, Shape
<1>1. ASSUME NEW j \in Jobs, jobs'[j].status \in InFlight
      PROVE  \/ jobs[j].status \in InFlight /\ jobs'[j].node = jobs[j].node
             \/ /\ jobs'[j].node \in Nodes /\ ~Gone(jobs[j].node)'
                /\ \A u \in Threads : ~Outbound(calls'[u], jobs'[j].node)
  <2>. SUFFICES ASSUME calls[t].pc = "assign", jobs'[j].node \in calls[t].up, UNCHANGED nodes
                PROVE  /\ jobs'[j].node \in Nodes /\ ~Gone(jobs[j].node)'
                       /\ \A u \in Threads : ~Outbound(calls'[u], jobs'[j].node)
    BY <1>1, ComesIntoFlight
  <2>1. jobs'[j].node \in Nodes
    BY <1>0 DEF Call
  <2>2. ~Gone(jobs[j].node)' /\ \A u \in Threads : ~Outbound(calls[u], jobs'[j].node)
    BY DEF FreshCopies, Gone
  <2>3. calls[t].op \notin {"leave", "drain"}
    BY <1>0, AtStep DEF Scheduling
  <2>4. Idle.op # "leave"
    BY DEF Idle
  <2>5. calls'[t].op # "leave"
    BY <2>3, <2>4, CallMoves DEF Follows
  <2>. QED BY <1>0, <2>1, <2>2, <2>5 DEF Outbound
<1>2. ASSUME NEW n \in Nodes, Gone(n)'
      PROVE  Gone(n) \/ Clear(n)' \/ Expiring(n)'
  <2>1. Outbound(calls[t], n) /\ UNCHANGED jobs => Clear(n)'
    BY DEF FreshInv, Clear
  <2>. QED BY <1>2, <2>1, GoesAway
<1>3. \A n \in Nodes : Expiring(n) => Expiring(n)' \/ Clear(n)'
  BY StopsExpiring
<1>4. \A u \in Threads, n \in Nodes :
        Outbound(calls'[u], n) => Outbound(calls[u], n) \/ Clear(n)'
  BY <1>0, TurnsOut
<1>. QED BY <1>1, <1>2, <1>3, <1>4, FreshKept

\* So does every other step, if it does not cut the sweeper off.
LEMMA ClientFresh ==
  ASSUME TypeOK, Shape, FreshInv, ClientStep(SweptHalf)
  PROVE  FreshInv'
<1>0. \A t \in Threads : calls[t] \in Call /\ CallShape(calls[t])
  BY DEF TypeOK, Shape
<1>1. UNCHANGED jobs /\ \A n \in Nodes : Gone(n)' <=> Gone(n)
  BY DEF ClientStep, Gone
<1>2. ASSUME NEW t \in Threads, NEW n \in Nodes, Outbound(calls'[t], n)
      PROVE  Outbound(calls[t], n)
  <2>1. CASE Lets(SweptHalf, calls[t], calls'[t])
    <3>1. Idle.op # "leave"
      BY DEF Idle
    <3>. QED BY <1>0, <1>2, <2>1, <3>1 DEF Lets, Outbound
  <2>2. CASE Opens(calls[t], calls'[t])
    BY <1>2, <2>2 DEF Opens, Outbound, Request, Idle
  <2>. QED BY <2>1, <2>2 DEF ClientStep
<1>3. ASSUME NEW t \in Threads, calls[t].pc = "expire"
      PROVE  calls'[t].pc = "expire" /\ calls'[t].up = calls[t].up
  <2>1. calls[t].op # "idle"
    BY <1>0, <1>3, AtStep
  <2>2. Lets(SweptHalf, calls[t], calls'[t])
    BY <2>1 DEF ClientStep, Opens
  <2>. QED BY <1>0, <1>3, <2>2 DEF Lets, SweptHalf, Call
<1>4. \A n \in Nodes : Expiring(n) => Expiring(n)'
  BY <1>3 DEF Expiring
<1>. QED BY <1>1, <1>2, <1>4, FreshKept DEF FreshInv

\* FreshInv and what it rests on are inductive.
LEMMA NextFresh ==
  IInv /\ FreshCopies /\ FreshInv /\ [Next /\ FreshCopies' /\ Uncut(SweptHalf)]_vars
    => IInv' /\ FreshCopies' /\ FreshInv'
<1>. SUFFICES ASSUME IInv, FreshCopies, FreshInv,
                     [Next /\ FreshCopies' /\ Uncut(SweptHalf)]_vars
              PROVE  IInv' /\ FreshCopies' /\ FreshInv'
  OBVIOUS
<1>1. TypeOK /\ Shape /\ [Next]_vars
  BY DEF IInv
<1>2. IInv'
  BY <1>1, NextIInv
<1>3. CASE Next /\ FreshCopies' /\ Uncut(SweptHalf)
  <2>1. CASE \E t \in Threads : PlaneStep(t)
    BY <1>1, <1>2, <1>3, <2>1, HandlerFresh
  <2>2. CASE (\E n \in Nodes : AgentStep(n) \/ \E t \in Threads : Reported(n, t)) \/ Environment
    <3>1. ClientStep(SweptHalf)
      BY <1>1, <1>3, <2>2, ClientMoves DEF SweptHalf
    <3>. QED BY <1>1, <1>2, <1>3, <3>1, ClientFresh
  <2>. QED BY <1>3, <2>1, <2>2 DEF Next
<1>4. CASE UNCHANGED vars
  <2>1. FreshCopies'
    BY <1>4 DEF vars, FreshCopies, Gone, Outbound
  <2>2. FreshInv'
    BY <1>4 DEF vars, FreshInv, Gone, Outbound
  <2>. QED BY <1>2, <2>1, <2>2
<1>. QED BY <1>3, <1>4

\* No handler has started yet.
LEMMA InitFresh == Init => FreshCopies /\ FreshInv
<1>. SUFFICES ASSUME Init PROVE FreshCopies /\ FreshInv
  OBVIOUS
<1>1. \A t \in Threads : calls[t] = Idle
  BY DEF Init
<1>2. \A j \in Jobs : jobs[j].status \notin InFlight
  BY DEF Init, EmptyJobs, NoJobRec, InFlight
<1>3. Idle.pc # "assign"
  BY DEF Idle
<1>. QED BY <1>1, <1>2, <1>3 DEF FreshCopies, FreshInv

\* As long as the nodes in a scheduler's copy of the registry do not go away
\* before it is used, and the plane does not crash between MarkStaleOffline and
\* the failing of the jobs, jobs in flight are on nodes that are there, or about
\* to be failed by the sweeper (handleLeave, sweepOffline, tryScheduleQueued).
THEOREM FreshInductive == FreshSpec => []FreshInv
<1>1. FreshSpec => [](IInv /\ FreshCopies /\ FreshInv)
  BY InitIInv, InitFresh, NextFresh, PTL DEF FreshSpec
<1>. QED BY <1>1, PTL

\* Under the same assumption no job is left in flight on a node that has left or
\* gone OFFLINE, once the handlers in progress have ended.
THEOREM NothingOrphaned == FreshSpec => []NoOrphan
<1>1. FreshInv => NoOrphan
  BY DEF FreshInv, NoOrphan, Quiet, Gone
<1>. QED BY <1>1, FreshInductive, PTL

-----------------------------------------------------------------------------
(* Sequenced requests: what an agent and its calls know of each other.     *)

\* No other request of an agent is on its way beside a claim.
LEMMA ClaimsAlone ==
  ASSUME TypeOK, Shape, MainWaits, Knowledge, Sequenced,
         NEW t \in Threads, calls[t].op = "claim",
         NEW u \in Threads \ {t}, OfAgent(calls[u])
  PROVE  calls[u].n # calls[t].n
<1>. SUFFICES ASSUME calls[u].n = calls[t].n PROVE FALSE
  OBVIOUS
<1>0. /\ calls[t].who \in Waiters /\ calls[u].who \in Waiters /\ calls[t].n \in Nodes
      /\ CallShape(calls[u])
  BY DEF TypeOK, Shape, Call, CallShape
<1>1. calls[t].who # "nobody" /\ calls[u].who # "nobody"
  BY DEF Sequenced, OfAgent
<1>2. calls[t].who = "main" /\ calls[u].who = "report"
  BY <1>0, <1>1 DEF Waiters, MainWaits, Knowledge, Knows
<1>3. agents[calls[t].n].busy = NoJob /\ agents[calls[t].n].exec = "report"
  BY <1>2 DEF Knowledge, Knows
<1>. QED BY <1>0, <1>3 DEF Knowledge, BusyIsAtWork

\* A call goes on knowing what it knew, as long as its agent stays as it was.
LEMMA LetsKnow ==
  ASSUME NEW c \in Call, NEW d, Lets({}, c, d), NEW a, NEW b, Knows(c, a),
         c.op \in {"claim", "heartbeat", "result"} /\ d.n = c.n =>
           \/ b.exec = a.exec /\ b.busy = a.busy
           \/ d.who # "report" /\ b.busy = NoJob
  PROVE  Knows(d, b)
<1>1. CASE d = Idle
  <2>1. Idle.who = "nobody" /\ Idle.op = "idle"
    BY DEF Idle
  <2>. QED BY <1>1, <2>1 DEF Knows
<1>2. CASE d # Idle
  <2>1. /\ d.op = c.op /\ d.n = c.n /\ d.j = c.j /\ d.who \in {c.who, "nobody"}
        /\ (d.pc = c.pc /\ d.arg = c.arg) \/ d.pc = "done"
    BY <1>2 DEF Lets
  <2>2. d.who = "report" => c.who = "report"
    BY <2>1
  <2>. QED BY <2>1, <2>2 DEF Knows, Unanswered
<1>. QED BY <1>1, <1>2

\* The steps of a handler leave its call and its agent knowing each other.
LEMMA HandlerKnowledge ==
  ASSUME TypeOK, Shape, Knowledge, NEW t \in Threads, PlaneStep(t)
  PROVE  Knowledge'
<1>. DEFINE c == calls[t]
            d == calls'[t]
<1>0. /\ c \in Call /\ CallShape(c) /\ calls \in [Threads -> Call] /\ nodes \in [Nodes -> NodeRec]
      /\ Knows(c, agents[c.n]) /\ agents' = agents
      /\ \A u \in Threads \ {t} : calls'[u] = calls[u]
  BY HandlerKeeps DEF TypeOK, Shape, PlaneStep, Knowledge
<1>. USE <1>0
<1>a. Idle.op = "idle" /\ Idle.who = "nobody"
  BY DEF Idle
<1>1. \A u \in Threads \ {t} : Knows(calls'[u], agents'[calls'[u].n])
  BY DEF Knowledge
<1>2. Knows(d, agents'[d.n])
  <2>1. CASE d.op \notin {"claim", "heartbeat", "result", "join"}
    <3>1. d.who # "report"
      BY <1>a, <2>1, CallMoves DEF Follows, Knows
    <3>. QED BY <2>1, <3>1 DEF Knows
  <2>2. CASE d.op \in {"claim", "heartbeat", "result", "join"}
    <3>1. Follows(c, d)
      BY <1>a, <2>2, CallMoves
    <3>2. d.op = c.op /\ d.n = c.n /\ d.who = c.who
      BY <3>1 DEF Follows
    <3>3. d.op # "claim" => d.j = c.j
      BY <2>2, <3>1, <3>2, AtStep DEF Follows
    <3>4. d.op = "heartbeat" /\ d.pc \in {"auth", "beat", "failexcept"}
            => c.pc \in {"auth", "beat", "failexcept"}
      <4>. SUFFICES ASSUME d.op = "heartbeat", d.pc \in {"auth", "beat", "failexcept"},
                           SchedQueued(t) \/ SchedSnapshot(t) \/ SchedAssign(t)
                    PROVE  FALSE
        BY <3>2, StepOf, StepAt
      <4>1. \A a : ~Reply(t, a)
        BY <1>a, Endings
      <4>. QED BY <4>1, StepAt DEF SchedQueued, SchedSnapshot, SchedAssign, Finish, Call
    <3>5. d.op = "heartbeat" /\ Unanswered(d) /\ d.arg = "READY" => c.arg = "READY" /\ Unanswered(c)
      <4>. SUFFICES ASSUME d.op = "heartbeat", Unanswered(d), d.arg = "READY"
                    PROVE  c.arg = "READY" /\ Unanswered(c)
        OBVIOUS
      <4>1. Unanswered(c)
        BY <3>2, AtStep, StepOf, StepAt DEF Unanswered
      <4>2. CASE c.pc # "beat"
        BY <3>1, <4>1, <4>2 DEF Follows, Unanswered
      <4>3. CASE c.pc = "beat"
        <5>1. Beat(t) /\ c.n \in Nodes
          BY <3>2, <4>3, AtStep, StepOf, StepAt
        <5>2. \A a : ~Reply(t, a)
          BY <1>a, Endings DEF Unanswered
        <5>3. calls' = [calls EXCEPT ![t].pc = "failexcept",
                                     ![t].arg = NodeHeartbeat(nodes, c.n, c.arg, c.j)[c.n].status]
          BY <5>1, <5>2 DEF Beat
        <5>4. NodeHeartbeat(nodes, c.n, c.arg, c.j)[c.n].status = "READY"
          BY <5>3 DEF Call
        <5>. QED BY <4>1, <5>1, <5>4, StatusAfter
      <4>. QED BY <4>2, <4>3
    <3>. QED BY <2>2, <3>2, <3>3, <3>4, <3>5 DEF Knows
  <2>. QED BY <2>1, <2>2
<1>3. d.who = "report" => c.who = "report" /\ d.n = c.n
  BY <1>a, CallMoves DEF Follows
<1>4. OneReport'
  BY <1>3 DEF Knowledge, OneReport
<1>5. \A n \in Nodes : BusyIsAtWork(agents[n])'
  BY DEF Knowledge, BusyIsAtWork
<1>. QED BY <1>1, <1>2, <1>4, <1>5 DEF Knowledge

\* A step in which nobody sends a report, and whatever an agent forgets of its
\* job nobody else speaks of, keeps what is known.
LEMMA KnowledgeKept ==
  ASSUME TypeOK, Shape, Knowledge,
         \A u \in Threads : calls'[u].who = "report" =>
           calls[u].who = "report" /\ calls'[u].n = calls[u].n,
         \A u \in Threads : Lets({}, calls[u], calls'[u]) \/ Knows(calls'[u], agents'[calls'[u].n]),
         \A m \in Nodes : /\ agents'[m].exec = agents[m].exec
                          /\ agents'[m].busy = agents[m].busy
                          /\ agents'[m].pc = "down" => agents[m].pc = "down"
  PROVE  Knowledge'
<1>1. ASSUME NEW u \in Threads
      PROVE  Knows(calls'[u], agents'[calls'[u].n])
  <2>1. /\ calls[u] \in Call /\ Knows(calls[u], agents[calls[u].n])
        /\ calls[u].op \in {"claim", "heartbeat", "result"} => calls[u].n \in Nodes
    BY DEF Knowledge, TypeOK, Shape, CallShape
  <2>. DEFINE c == calls[u]
              d == calls'[u]
              a == agents[c.n]
              b == agents'[d.n]
  <2>2. c.op \in {"claim", "heartbeat", "result"} /\ d.n = c.n => b.exec = a.exec /\ b.busy = a.busy
    BY <2>1
  <2>3. c \in Call /\ Knows(c, a) /\ (Lets({}, c, d) \/ Knows(d, b))
    BY <2>1
  <2>. HIDE DEF c, d, a, b
  <2>4. Knows(d, b)
    BY <2>2, <2>3, LetsKnow
  <2>. QED BY <2>4 DEF d, b
<1>2. OneReport'
  BY DEF Knowledge, OneReport
<1>3. \A n \in Nodes : BusyIsAtWork(agents[n])'
  BY DEF Knowledge, BusyIsAtWork
<1>. QED BY <1>1, <1>2, <1>3 DEF Knowledge

\* An agent that has forgotten its job, and waits for no report of it.
LEMMA KnowledgeDropped ==
  ASSUME TypeOK, Shape, Knowledge, NEW n \in Nodes,
         \A u \in Threads : Lets({}, calls[u], calls'[u]),
         \A u \in Threads : calls'[u].who = "report" =>
           calls[u].who = "report" /\ calls'[u].n = calls[u].n /\ calls[u].n # n,
         \A m \in Nodes \ {n} : agents'[m] = agents[m],
         agents'[n].busy = NoJob, agents'[n].exec = "none"
  PROVE  Knowledge'
<1>1. ASSUME NEW u \in Threads
      PROVE  Knows(calls'[u], agents'[calls'[u].n])
  <2>1. /\ calls[u] \in Call /\ Knows(calls[u], agents[calls[u].n]) /\ Lets({}, calls[u], calls'[u])
        /\ calls[u].op \in {"claim", "heartbeat", "result"} => calls[u].n \in Nodes
    BY DEF Knowledge, TypeOK, Shape, CallShape
  <2>. DEFINE c == calls[u]
              d == calls'[u]
              a == agents[c.n]
              b == agents'[d.n]
  <2>2. c.op \in {"claim", "heartbeat", "result"} /\ d.n = c.n =>
          \/ b.exec = a.exec /\ b.busy = a.busy
          \/ d.who # "report" /\ b.busy = NoJob
    BY <2>1
  <2>3. c \in Call /\ Knows(c, a) /\ Lets({}, c, d)
    BY <2>1
  <2>. HIDE DEF c, d, a, b
  <2>4. Knows(d, b)
    BY <2>2, <2>3, LetsKnow
  <2>. QED BY <2>4 DEF d, b
<1>2. OneReport'
  BY DEF Knowledge, OneReport
<1>3. \A m \in Nodes : BusyIsAtWork(agents[m])'
  BY DEF Knowledge, BusyIsAtWork
<1>. QED BY <1>1, <1>2, <1>3 DEF Knowledge

\* A new request, other than a report.
LEMMA SentKnows ==
  ASSUME TypeOK, Shape, Knowledge, UNCHANGED agents, NEW t \in Threads,
         NEW op, NEW pc, NEW n, NEW j, NEW a, NEW w,
         Send(t, op, pc, n, j, a, w), op # "result", w # "report",
         Knows(Request(op, pc, n, j, a, w), agents[n])
  PROVE  Knowledge'
<1>. DEFINE r == Request(op, pc, n, j, a, w)
<1>1. calls' = [calls EXCEPT ![t] = r] /\ calls \in [Threads -> Call]
  BY DEF Send, TypeOK
<1>2. r.who = w /\ r.n = n
  BY DEF Request, Idle
<1>. HIDE DEF r
<1>3. Knows(calls'[t], agents'[calls'[t].n])
  BY <1>1, <1>2 DEF r
<1>4. \A u \in Threads \ {t} : Lets({}, calls[u], calls'[u])
  BY <1>1 DEF Lets
<1>5. \A u \in Threads : calls'[u].who = "report" =>
        calls[u].who = "report" /\ calls'[u].n = calls[u].n
  BY <1>1, <1>2
<1>. QED BY <1>3, <1>4, <1>5, KnowledgeKept

\* A client that goes away no longer waits for anything.
LEMMA OrphanWho ==
  ASSUME NEW c \in Call
  PROVE  \A d \in Broken(c) \cup {Orphan(c)} : d.who = "nobody" /\ Lets({}, c, d)
BY OrphansWait, OrphanLets

\* Every step of an agent, its crash, its timeouts and its signals.
LEMMA AgentKnowledge ==
  ASSUME TypeOK, Shape, MainWaits, Knowledge, Sequenced, NEW n \in Nodes, NEW t \in Threads,
         \/ Start(n, t) \/ TryClaim(n, t) \/ Heartbeat(n, t) \/ SendDrain(n, t)
         \/ SendLeave(n, t) \/ Receive(n, t) \/ Abandon(n, t) \/ Report(n, t)
         \/ Reported(n, t) \/ SkipClaim(n) \/ SkipBeat(n) \/ Tick(n) \/ Settle(n)
         \/ SettleTimeout(n) \/ Interrupt(n) \/ Crash(n)
  PROVE  Knowledge'
<1>. DEFINE a == agents[n]
            c == calls[t]
<1>0. /\ calls \in [Threads -> Call] /\ c \in Call /\ CallShape(c)
      /\ agents \in [Nodes -> Agent] /\ a \in Agent /\ BusyIsAtWork(a)
      /\ \A u \in Threads : calls[u] \in Call
  BY DEF TypeOK, Shape, Knowledge
<1>. USE <1>0
<1>a. ASSUME Exit(n)
      PROVE  Knowledge'
  <2>1. \A u \in Threads : Lets({}, calls[u], calls'[u])
    BY <1>a, OrphanWho DEF Exit, OrphanAll, Lets
  <2>2. ASSUME NEW u \in Threads, calls'[u].who = "report"
        PROVE  calls[u].who = "report" /\ calls'[u].n = calls[u].n /\ calls[u].n # n
    <3>1. u \notin Awaits(n, "main") \cup Awaits(n, "report")
      BY <1>a, <2>2, OrphanWho DEF Exit, OrphanAll
    <3>2. calls'[u] = calls[u]
      BY <1>a, <3>1 DEF Exit, OrphanAll
    <3>. QED BY <2>2, <3>1, <3>2 DEF Awaits
  <2>3. agents' = [agents EXCEPT ![n] = Down]
    BY <1>a DEF Exit
  <2>4. agents'[n].busy = NoJob /\ agents'[n].exec = "none"
    BY <2>3 DEF Down
  <2>. QED BY <2>1, <2>2, <2>3, <2>4, KnowledgeDropped
<1>b. ASSUME NEW left \in Broken(c), calls' = [calls EXCEPT ![t] = left]
      PROVE  /\ \A u \in Threads : Lets({}, calls[u], calls'[u])
             /\ \A u \in Threads : calls'[u].who = "report" =>
                  calls[u].who = "report" /\ calls'[u].n = calls[u].n /\ u # t
  <2>1. left.who = "nobody" /\ Lets({}, c, left)
    BY <1>b, OrphanWho
  <2>. QED BY <1>b, <2>1 DEF Lets
<1>1. CASE Start(n, t)
  <2>. DEFINE r == Request("join", "upsert", n, NoJob, "READY", "main")
  <2>1. calls' = [calls EXCEPT ![t] = r]
    BY <1>1 DEF Start, Send
  <2>2. agents' = [agents EXCEPT ![n] = [Down EXCEPT !.pc = "join"]]
    BY <1>1 DEF Start
  <2>3. agents'[n].pc = "join" /\ agents'[n].busy = NoJob /\ agents'[n].exec = "none"
    BY <2>2 DEF Down
  <2>4. a.busy = NoJob /\ a.exec = "none"
    BY <1>1 DEF Start, BusyIsAtWork
  <2>5. \A b : Knows(r, b)
    BY DEF Request, Idle, Knows
  <2>6. r.who = "main"
    BY DEF Request
  <2>. HIDE DEF r
  <2>7. \A u \in Threads : \/ Lets({}, calls[u], calls'[u])
                           \/ Knows(calls'[u], agents'[calls'[u].n])
    BY <2>1, <2>5 DEF Lets
  <2>8. \A u \in Threads : calls'[u].who = "report" =>
          calls[u].who = "report" /\ calls'[u].n = calls[u].n
    BY <2>1, <2>6
  <2>9. \A m \in Nodes : /\ agents'[m].exec = agents[m].exec
                         /\ agents'[m].busy = agents[m].busy
                         /\ agents'[m].pc = "down" => agents[m].pc = "down"
    BY <2>2, <2>3, <2>4
  <2>. QED BY <2>7, <2>8, <2>9, KnowledgeKept
<1>2. CASE TryClaim(n, t)
  <2>1. Send(t, "claim", "auth", n, NoJob, "", "main") /\ a.busy = NoJob /\ UNCHANGED agents
    BY <1>2 DEF TryClaim, MayClaim
  <2>2. Knows(Request("claim", "auth", n, NoJob, "", "main"), a)
    BY <2>1 DEF Request, Idle, Knows
  <2>. QED BY <2>1, <2>2, SentKnows
<1>3. CASE Heartbeat(n, t)
  <2>1. Send(t, "heartbeat", "auth", n, a.busy, BeatStatus(a), "main") /\ UNCHANGED agents
    BY <1>3 DEF Heartbeat
  <2>2. BeatStatus(a) = "READY" => a.busy = NoJob
    BY DEF BeatStatus
  <2>3. Knows(Request("heartbeat", "auth", n, a.busy, BeatStatus(a), "main"), a)
    BY <2>2 DEF Request, Idle, Knows
  <2>. QED BY <2>1, <2>3, SentKnows
<1>4. CASE SendDrain(n, t) \/ SendLeave(n, t)
  <2>1. UNCHANGED agents /\ \E op \in {"drain", "leave"} : Send(t, op, "auth", n, NoJob, "", "main")
    BY <1>4 DEF SendDrain, SendLeave
  <2>2. \A op \in {"drain", "leave"} : Knows(Request(op, "auth", n, NoJob, "", "main"), a)
    BY DEF Request, Idle, Knows
  <2>. QED BY <2>1, <2>2, SentKnows
<1>5. CASE Receive(n, t)
  <2>1. CASE Exits(a, c.arg)
    BY <1>5, <1>a, <2>1 DEF Receive
  <2>2. CASE ~Exits(a, c.arg)
    <3>1. /\ agents' = [agents EXCEPT ![n] = Answered(a, c)]
          /\ calls' = [calls EXCEPT ![t] = Idle]
          /\ c.n = n /\ c.pc = "done" /\ c.who = "main"
      BY <1>5, <2>2 DEF Receive
    <3>2. Answered(a, c).pc # "down"
      BY <2>2, <3>1 DEF Answered, MainWaits, Exits, Asking, AfterAnswer, Agent
    <3>3. \A u \in Threads : Lets({}, calls[u], calls'[u])
      BY <3>1 DEF Lets
    <3>4. Idle.who = "nobody"
      BY DEF Idle
    <3>5. \A u \in Threads : calls'[u].who = "report" =>
            calls[u].who = "report" /\ calls'[u].n = calls[u].n /\ calls'[u] = calls[u] /\ u # t
      BY <3>1, <3>4
    <3>6. CASE c.arg # "job"
      <4>1. Answered(a, c).busy = a.busy /\ Answered(a, c).exec = a.exec
        BY <3>6 DEF Answered, Agent
      <4>2. \A m \in Nodes : /\ agents'[m].exec = agents[m].exec
                             /\ agents'[m].busy = agents[m].busy
                             /\ agents'[m].pc = "down" => agents[m].pc = "down"
        BY <3>1, <3>2, <4>1
      <4>. QED BY <3>3, <3>5, <4>2, KnowledgeKept
    <3>7. CASE c.arg = "job"
      <4>1. c.op = "claim" /\ c.j \in Jobs
        BY <3>7 DEF CallShape
      <4>2. a.busy = NoJob /\ a.exec = "none"
        BY <3>1, <4>1 DEF Knowledge, Knows, BusyIsAtWork
      <4>3. Answered(a, c).busy = c.j /\ Answered(a, c).exec = "run"
        BY <3>7 DEF Answered, Agent
      <4>4. ASSUME NEW u \in Threads
            PROVE  Knows(calls'[u], agents'[calls'[u].n])
        <5>1. CASE u = t
          BY <3>1, <3>4, <5>1 DEF Knows, Idle
        <5>2. CASE u # t
          <6>1. calls'[u] = calls[u] /\ Knows(calls[u], agents[calls[u].n])
            BY <3>1, <5>2 DEF Knowledge
          <6>2. CASE calls[u].n # n
            BY <3>1, <6>1, <6>2
          <6>3. CASE calls[u].n = n
            <7>1. calls[u].op \notin {"claim", "heartbeat", "result"}
              BY <3>1, <4>1, <5>2, <6>3, ClaimsAlone DEF OfAgent
            <7>. QED BY <6>1, <7>1 DEF Knows
          <6>. QED BY <6>2, <6>3
        <5>. QED BY <5>1, <5>2
      <4>5. OneReport'
        BY <3>5 DEF Knowledge, OneReport
      <4>6. \A m \in Nodes : BusyIsAtWork(agents'[m])
        BY <3>1, <3>2, <4>1, <4>3, JobsAssumption DEF Knowledge, BusyIsAtWork
      <4>. QED BY <4>4, <4>5, <4>6 DEF Knowledge
    <3>. QED BY <3>6, <3>7
  <2>. QED BY <2>1, <2>2
<1>6. CASE Abandon(n, t)
  <2>1. CASE Exits(a, "lost")
    BY <1>6, <1>a, <2>1 DEF Abandon
  <2>2. CASE ~Exits(a, "lost")
    <3>1. PICK left \in Broken(c) : calls' = [calls EXCEPT ![t] = left]
      BY <1>6, <2>2 DEF Abandon
    <3>2. agents' = [agents EXCEPT ![n].pc = AfterAnswer[a.pc]]
      BY <1>6, <2>2 DEF Abandon, AgentGoto
    <3>3. AfterAnswer[a.pc] # "down"
      BY <1>6, <2>2 DEF Abandon, MainWaits, Exits, Asking, AfterAnswer
    <3>4. \A m \in Nodes : /\ agents'[m].exec = agents[m].exec
                           /\ agents'[m].busy = agents[m].busy
                           /\ agents'[m].pc = "down" => agents[m].pc = "down"
      BY <3>2, <3>3 DEF Agent
    <3>. QED BY <1>b, <3>1, <3>4, KnowledgeKept
  <2>. QED BY <2>1, <2>2
<1>7. CASE Report(n, t)
  <2>1. PICK o : Send(t, "result", "auth", n, a.busy, o, "report")
    BY <1>7 DEF Report
  <2>. DEFINE r == Request("result", "auth", n, a.busy, o, "report")
  <2>2. calls' = [calls EXCEPT ![t] = r]
    BY <2>1 DEF Send
  <2>3. agents' = [agents EXCEPT ![n].exec = "report"] /\ a.exec = "run"
    BY <1>7 DEF Report
  <2>4. agents'[n].exec = "report" /\ agents'[n].busy = a.busy /\ agents'[n].pc = a.pc
    BY <2>3 DEF Agent
  <2>5. r.n = n /\ Knows(r, agents'[n])
    BY <2>4 DEF Request, Idle, Knows
  <2>. HIDE DEF r
  <2>6. \A u \in Threads : calls[u].who = "report" => calls[u].n # n
    BY <2>3 DEF Knowledge, Knows
  <2>7. ASSUME NEW u \in Threads \ {t}
        PROVE  Knows(calls'[u], agents'[calls'[u].n])
    <3>1. calls'[u] = calls[u] /\ Knows(calls[u], agents[calls[u].n])
      BY <2>2 DEF Knowledge
    <3>2. CASE calls[u].n # n
      BY <2>3, <3>1, <3>2
    <3>3. CASE calls[u].n = n
      BY <2>4, <2>6, <3>1, <3>3 DEF Knows
    <3>. QED BY <3>2, <3>3
  <2>8. OneReport'
    BY <2>2, <2>5, <2>6 DEF Knowledge, OneReport
  <2>9. \A m \in Nodes : BusyIsAtWork(agents'[m])
    BY <2>3, <2>4 DEF Knowledge, BusyIsAtWork
  <2>. QED BY <2>2, <2>5, <2>7, <2>8, <2>9 DEF Knowledge
<1>8. CASE Reported(n, t)
  <2>1. PICK left \in Broken(c) : calls' = [calls EXCEPT ![t] = left]
    BY <1>8 DEF Reported
  <2>2. agents' = [agents EXCEPT ![n].busy = NoJob, ![n].exec = "none"]
    BY <1>8 DEF Reported
  <2>3. agents'[n].busy = NoJob /\ agents'[n].exec = "none"
    BY <2>2 DEF Agent
  <2>4. \A u \in Threads \ {t} : calls[u].who = "report" => calls[u].n # n
    BY <1>8 DEF Reported, Knowledge, OneReport
  <2>. QED BY <1>b, <2>1, <2>2, <2>3, <2>4, KnowledgeDropped
<1>9. CASE SkipClaim(n) \/ SkipBeat(n) \/ Tick(n) \/ Settle(n) \/ SettleTimeout(n) \/ Interrupt(n)
  <2>1. calls' = calls
    BY <1>9 DEF SkipClaim, SkipBeat, Tick, Settle, SettleTimeout, Interrupt
  <2>2. \A m \in Nodes : /\ agents'[m].exec = agents[m].exec
                         /\ agents'[m].busy = agents[m].busy
                         /\ agents'[m].pc = "down" => agents[m].pc = "down"
    BY <1>9 DEF SkipClaim, SkipBeat, Tick, Settle, SettleTimeout, Interrupt, AgentGoto, Agent
  <2>. QED BY <2>1, <2>2, KnowledgeKept DEF Lets
<1>10. CASE Crash(n)
  BY <1>10, <1>a DEF Crash
<1>. QED BY <1>1, <1>2, <1>3, <1>4, <1>5, <1>6, <1>7, <1>8, <1>9, <1>10

\* Clients, the operator, time and a restart of the plane.
LEMMA EnvironmentKnowledge ==
  ASSUME TypeOK, Shape, Knowledge, NEW t \in Threads,
         \/ \E j \in Jobs, pref \in NodeOrNone : Submit(j, pref, t)
         \/ \E n \in Nodes : AdminDrain(n, t) \/ AdminLeave(n, t) \/ AdminSnapshot(n, t)
         \/ SweepTick(t) \/ (\E n \in Nodes : Silence(n)) \/ Restart
  PROVE  Knowledge'
<1>0. UNCHANGED agents /\ \A u \in Threads : calls[u] \in Call
  BY DEF TypeOK, Submit, AdminDrain, AdminLeave, AdminSnapshot, SweepTick, Silence, Restart
<1>1. CASE \E op \in {"submit", "drain", "join", "sweep"} : \E pc, n, j, a :
             Send(t, op, pc, n, j, a, "nobody") /\ (op = "join" => j = NoJob)
  <2>1. PICK op, pc, n, j, a :
          /\ op \in {"submit", "drain", "join", "sweep"}
          /\ Send(t, op, pc, n, j, a, "nobody") /\ (op = "join" => j = NoJob)
    BY <1>1
  <2>2. Knows(Request(op, pc, n, j, a, "nobody"), agents[n])
    BY <2>1 DEF Request, Idle, Knows
  <2>. QED BY <1>0, <2>1, <2>2, SentKnows
<1>2. CASE (\E n \in Nodes : Silence(n)) \/ Restart
  <2>1. \A u \in Threads : Lets({}, calls[u], calls'[u]) /\ calls'[u].who \in {calls[u].who, "nobody"}
    <3>1. CASE \E n \in Nodes : Silence(n)
      BY <1>0, <3>1 DEF Silence, Lets
    <3>2. CASE Restart
      <4>1. Idle.who = "nobody"
        BY DEF Idle
      <4>. QED BY <1>0, <3>2, <4>1 DEF Restart, Lets, Call
    <3>. QED BY <1>2, <3>1, <3>2
  <2>2. Idle.who = "nobody"
    BY DEF Idle
  <2>3. \A u \in Threads : calls'[u].who = "report" =>
          calls[u].who = "report" /\ calls'[u].n = calls[u].n
    BY <2>1, <2>2 DEF Lets
  <2>. QED BY <1>0, <2>1, <2>3, KnowledgeKept
<1>. QED BY <1>1, <1>2 DEF Submit, AdminDrain, AdminLeave, AdminSnapshot, SweepTick

-----------------------------------------------------------------------------
(* Sequenced requests: the steps of handlers.                              *)

\* Only a claim makes a job run; nothing else gives a running job a node.
LEMMA RunningShrinks ==
  ASSUME TypeOK, Shape, NEW t \in Threads, PlaneStep(t), ~Claims(t), NEW n \in Nodes
  PROVE  Running(n)' \subseteq Running(n)
<1>0. jobs \in [Jobs -> JobRec]
  BY DEF TypeOK
<1>. USE <1>0 DEF Running, OnNode, JobRec
<1>1. CASE Rests(t)
  BY <1>1 DEF Rests
<1>2. CASE GivesUp(t)
  BY <1>2 DEF GivesUp, FailInFlight
<1>3. CASE Places(t)
  BY <1>3 DEF Places, JobAssign
<1>4. CASE Completes(t)
  BY <1>4 DEF Completes, JobComplete
<1>5. CASE Submits(t)
  BY <1>5 DEF Submits, JobCreate, NoJobRec
<1>. QED BY <1>1, <1>2, <1>3, <1>4, <1>5, JobMoves

\* A claim past the gate: its node was READY, and no other handler of the same
\* agent could have been about to change that.
LEMMA GateFindsIdle ==
  ASSUME TypeOK, Shape, MainWaits, Knowledge, Sequenced, ReadyCovered,
         NEW t \in Threads, ClaimGate(t), nodes[calls[t].n].status = "READY"
  PROVE  Running(calls[t].n) = {}
<1>1. calls[t].op = "claim" /\ calls[t].n \in Nodes /\ calls[t].pc = "gate"
  BY AtStep, StepAt DEF TypeOK, Shape
<1>2. ASSUME NEW j \in Running(calls[t].n)
      PROVE  FALSE
  <2>1. j \in Jobs
    BY DEF Running, OnNode
  <2>2. PICK u \in Threads : Covers(calls[u], calls[t].n, j)
    BY <1>1, <2>1 DEF ReadyCovered
  <2>3. u # t /\ OfAgent(calls[u]) /\ calls[u].n = calls[t].n
    BY <1>1, <2>2 DEF Covers
  <2>. QED BY <1>1, <2>3, ClaimsAlone
<1>. QED BY <1>2

\* What RunsAlone says of the handler that takes the step, unless it claims.
LEMMA HandlerAlone ==
  ASSUME TypeOK, Shape, MainWaits, Knowledge, Sequenced, ReadyCovered,
         NEW t \in Threads, PlaneStep(t), ~Claims(t),
         NEW m \in Nodes, calls'[t].n = m, RunsAlone(calls[t], Running(calls[t].n))
  PROVE  RunsAlone(calls'[t], Running(m)')
<1>. DEFINE c == calls[t]
            d == calls'[t]
<1>0. /\ c \in Call /\ CallShape(c) /\ calls \in [Threads -> Call]
      /\ Idle.op = "idle" /\ jobs \in [Jobs -> JobRec]
  BY DEF TypeOK, Shape, Idle
<1>. USE <1>0
<1>1. CASE d.op \notin {"claim", "result"}
  BY <1>1 DEF RunsAlone
<1>2. CASE d.op \in {"claim", "result"}
  <2>1. Follows(c, d)
    BY <1>2, CallMoves
  <2>2. c.op = d.op /\ c.n = m /\ RunsAlone(c, Running(m))
    BY <1>2, <2>1 DEF Follows
  <2>3. Running(m)' \subseteq Running(m)
    BY RunningShrinks
  <2>a. /\ \A a : Reply(t, a) => d.pc = "done" /\ d.arg = a /\ d.j = c.j
        /\ \A pc : Goto(t, pc) => d.pc = pc /\ d.j = c.j
    BY <1>2, Endings
  <2>4. CASE Authenticate(t)
    <3>1. c.pc = "auth" /\ (d.pc = AfterAuth[c.op] \/ (d.pc = "done" /\ d.arg # "job")) /\ d.j = c.j
      BY <2>4, <2>a, StepAt DEF Authenticate
    <3>2. AfterAuth["claim"] = "gate" /\ AfterAuth["result"] = "complete"
      BY DEF AfterAuth
    <3>. QED BY <1>2, <2>2, <2>3, <3>1, <3>2 DEF RunsAlone
  <2>5. CASE ClaimGate(t)
    <3>1. c.op = "claim" /\ c.pc = "gate"
      BY <2>5, AtStep, StepAt
    <3>2. CASE nodes[m].status = "READY"
      <4>1. Running(m) = {}
        BY <2>2, <2>5, <3>2, GateFindsIdle
      <4>. QED BY <2>2, <2>3, <4>1 DEF RunsAlone
    <3>3. CASE nodes[m].status # "READY"
      <4>1. d.pc = "done" /\ d.arg # "job"
        BY <2>2, <2>5, <2>a, <3>3 DEF ClaimGate
      <4>. QED BY <2>2, <3>1, <4>1 DEF RunsAlone
    <3>. QED BY <3>2, <3>3
  <2>6. CASE ClaimTake(t)
    <3>1. c.op = "claim" /\ Reply(t, "nojob")
      BY <2>6, AtStep, StepAt DEF ClaimTake, Claims
    <3>2. d.pc = "done" /\ d.arg # "job"
      BY <2>a, <3>1
    <3>. QED BY <2>2, <3>1, <3>2 DEF RunsAlone
  <2>7. CASE ClaimBusy(t)
    <3>1. c.op = "claim" /\ c.pc = "busy" /\ Reply(t, "job")
      BY <2>7, AtStep, StepAt DEF ClaimBusy
    <3>. QED BY <2>2, <2>3, <2>a, <3>1 DEF RunsAlone
  <2>8. CASE ResultComplete(t)
    <3>1. c.op = "result" /\ c.pc = "complete" /\ c.j \in Jobs /\ d.pc = "ready"
      BY <2>8, <2>a, AtStep, StepAt DEF ResultComplete
    <3>2. jobs'[c.j].status # "running"
      BY <2>8, <3>1 DEF ResultComplete, JobComplete, JobRec
    <3>3. c.j \notin Running(m)'
      BY <3>2 DEF Running, OnNode
    <3>4. Running(m) \subseteq {c.j}
      BY <2>2, <3>1 DEF RunsAlone
    <3>. QED BY <2>2, <2>3, <3>1, <3>3, <3>4 DEF RunsAlone
  <2>9. CASE ResultReady(t)
    <3>1. c.op = "result" /\ d.pc = "queued"
      BY <2>9, <2>a, AtStep, StepAt DEF ResultReady
    <3>. QED BY <2>2, <3>1 DEF RunsAlone
  <2>10. CASE SchedQueued(t) \/ SchedSnapshot(t) \/ SchedAssign(t)
    <3>1. d.pc \in {"snapshot", "assign", "done"}
      <4>1. CASE SchedQueued(t)
        BY <2>a, <4>1 DEF SchedQueued, Finish, Call
      <4>2. CASE SchedSnapshot(t)
        BY <4>2 DEF SchedSnapshot, Call
      <4>3. CASE SchedAssign(t)
        <5>1. c.pc = "assign"
          BY <4>3, StepAt
        <5>2. Finish(t) \/ \E q : calls' = [calls EXCEPT ![t].q = q]
          BY <4>3 DEF SchedAssign
        <5>. QED BY <2>a, <5>1, <5>2 DEF Finish, Call
      <4>. QED BY <2>10, <4>1, <4>2, <4>3
    <3>2. d.op = "result"
      BY <1>2, <2>2, <2>10, AtStep, StepAt DEF Scheduling
    <3>. QED BY <3>1, <3>2 DEF RunsAlone
  <2>. QED BY <1>2, <2>2, <2>4, <2>5, <2>6, <2>7, <2>8, <2>9, <2>10, StepOf
<1>. QED BY <1>1, <1>2

\* A row becomes READY by a join, by a heartbeat, or by a result that finds no
\* job running any more.
LEMMA TurnsReady ==
  ASSUME TypeOK, Shape, NEW t \in Threads, PlaneStep(t), NEW n \in Nodes,
         nodes'[n].status = "READY", nodes[n].status # "READY"
  PROVE  /\ calls[t].n = n
         /\ \/ calls[t].op = "join" /\ calls[t].arg = "READY" /\ Goto(t, "failexcept")
            \/ /\ calls[t].op = "heartbeat" /\ calls[t].pc = "beat" /\ calls[t].arg = "READY"
               /\ calls' = [calls EXCEPT ![t].pc = "failexcept", ![t].arg = "READY"]
            \/ calls[t].op = "result" /\ calls[t].pc = "ready"
<1>. DEFINE c == calls[t]
<1>0. /\ c \in Call /\ CallShape(c) /\ nodes \in [Nodes -> NodeRec]
  BY DEF TypeOK, Shape
<1>. USE <1>0
<1>1. nodes' # nodes
  OBVIOUS
<1>2. CASE JoinUpsert(t)
  <2>1. c.op = "join" /\ c.n \in Nodes
    BY <1>2, AtStep, StepAt
  <2>. QED BY <1>2, <2>1, StatusAfter DEF JoinUpsert
<1>3. CASE Beat(t)
  <2>. DEFINE row == NodeHeartbeat(nodes, c.n, c.arg, c.j)
  <2>1. c.op = "heartbeat" /\ c.pc = "beat" /\ c.n \in Nodes
    BY <1>3, AtStep, StepAt
  <2>2. nodes' = row /\ calls' = [calls EXCEPT ![t].pc = "failexcept", ![t].arg = row[c.n].status]
    BY <1>1, <1>3 DEF Beat
  <2>3. c.n = n /\ c.arg = "READY"
    BY <2>1, <2>2, StatusAfter
  <2>4. row[c.n].status = "READY"
    BY <2>2, <2>3
  <2>. HIDE DEF row
  <2>. QED BY <2>1, <2>2, <2>3, <2>4
<1>4. CASE Drain(t)
  <2>1. c.n \in Nodes
    BY <1>4, AtStep, StepAt
  <2>2. nodes' = NodeSetDrain(nodes, c.n)
    BY <1>1, <1>4 DEF Drain
  <2>. QED BY <2>1, <2>2, StatusAfter
<1>5. CASE ClaimBusy(t) \/ LeaveOffline(t) \/ LeaveRemove(t)
  <2>1. c.n \in Nodes
    BY <1>5, AtStep, StepAt
  <2>. QED BY <1>5, <2>1, StatusAfter DEF ClaimBusy, LeaveOffline, LeaveRemove
<1>6. CASE ResultReady(t)
  <2>1. c.op = "result" /\ c.pc = "ready" /\ c.n \in Nodes
    BY <1>6, AtStep, StepAt
  <2>. QED BY <1>6, <2>1, StatusAfter DEF ResultReady
<1>7. CASE SweepStale(t)
  BY <1>7 DEF SweepStale, NodeMarkOffline, NodeRec
<1>. QED
  BY <1>1, <1>2, <1>3, <1>4, <1>5, <1>6, <1>7 DEF PlaneStep, Handle, Authenticate, FailLost,
     LeaveGet, LeaveFail, ClaimGate, ClaimTake, ResultComplete, SubmitCheck, SubmitCreate,
     SweepExpire, SchedQueued, SchedSnapshot, SchedAssign

\* A handler that was to see to a running job of a READY node has done so.
LEMMA CoverDone ==
  ASSUME TypeOK, Shape, NEW t \in Threads, PlaneStep(t), NEW n \in Nodes, NEW j \in Jobs,
         Covers(calls[t], n, j), nodes[n].status = "READY", j \in Running(n)
  PROVE  nodes'[n].status # "READY" \/ j \notin Running(n)'
<1>. DEFINE c == calls[t]
<1>0. /\ c \in Call /\ CallShape(c) /\ nodes \in [Nodes -> NodeRec] /\ jobs \in [Jobs -> JobRec]
      /\ c.n = n /\ c.op \in {"join", "heartbeat", "claim", "result"}
  BY DEF TypeOK, Shape, Covers, OfAgent
<1>. USE <1>0
<1>1. CASE c.pc = "busy"
  <2>1. ClaimBusy(t)
    BY <1>1, AtStep, StepOf, StepAt
  <2>. QED BY <2>1, StatusAfter DEF ClaimBusy, Registered
<1>2. CASE c.pc = "failexcept" /\ c.j # j
  <2>1. FailLost(t)
    BY <1>2, AtStep, StepOf, StepAt
  <2>2. PICK e : jobs' = FailInFlight(jobs, n, c.j, e, FALSE)
    BY <2>1 DEF FailLost, FailRunningExcept
  <2>3. j \in Failing(jobs, n, c.j, FALSE)
    BY <1>2 DEF Failing, Running, OnNode
  <2>. QED BY <2>2, <2>3 DEF FailInFlight, Running, OnNode, JobRec
<1>. QED BY <1>1, <1>2 DEF Covers

\* Handlers that do not claim keep every READY row with a running job seen to.
LEMMA HandlerCovers ==
  ASSUME TypeOK, Shape, Knowledge, ReadyCovered, NEW t \in Threads, PlaneStep(t), ~Claims(t),
         RunsAlone(calls[t], Running(calls[t].n))
  PROVE  ReadyCovered'
<1>. SUFFICES ASSUME NEW n \in Nodes, NEW j \in Jobs,
                     nodes'[n].status = "READY", j \in Running(n)'
              PROVE  \E u \in Threads : Covers(calls'[u], n, j)
  BY DEF ReadyCovered
<1>. DEFINE c == calls[t]
            d == calls'[t]
<1>0. /\ \A u \in Threads \ {t} : calls'[u] = calls[u]
      /\ calls \in [Threads -> Call] /\ c \in Call /\ Knows(c, agents[c.n])
      /\ j \in Running(n) /\ j # NoJob
  BY HandlerKeeps, RunningShrinks, JobsAssumption DEF TypeOK, Knowledge
<1>1. CASE nodes[n].status = "READY"
  <2>1. PICK u \in Threads : Covers(calls[u], n, j)
    BY <1>0, <1>1 DEF ReadyCovered
  <2>2. u # t
    BY <1>0, <1>1, <2>1, CoverDone
  <2>. QED BY <1>0, <2>1, <2>2
<1>2. CASE nodes[n].status # "READY"
  <2>1. CASE c.op = "join" /\ c.arg = "READY" /\ Goto(t, "failexcept") /\ c.n = n
    <3>1. d = [c EXCEPT !.pc = "failexcept"] /\ c.j = NoJob
      BY <1>0, <2>1 DEF Goto, Knows
    <3>2. Covers(d, n, j)
      BY <1>0, <2>1, <3>1 DEF Covers, OfAgent, Call
    <3>. QED BY <3>2
  <2>2. CASE /\ c.op = "heartbeat" /\ c.pc = "beat" /\ c.arg = "READY" /\ c.n = n
             /\ calls' = [calls EXCEPT ![t].pc = "failexcept", ![t].arg = "READY"]
    <3>1. c.j = NoJob
      BY <1>0, <2>2 DEF Knows, Unanswered
    <3>2. d.op = c.op /\ d.n = c.n /\ d.j = c.j /\ d.pc = "failexcept"
      BY <1>0, <2>2 DEF Call
    <3>3. Covers(d, n, j)
      BY <1>0, <2>2, <3>1, <3>2 DEF Covers, OfAgent
    <3>. QED BY <3>3
  <2>3. CASE c.op = "result" /\ c.pc = "ready" /\ c.n = n
    BY <1>0, <2>3 DEF RunsAlone
  <2>. QED BY <1>2, <2>1, <2>2, <2>3, TurnsReady
<1>. QED BY <1>1, <1>2

\* Only the heartbeat of a node fails a job as no longer running there.
LEMMA FailsAsNotRunning ==
  ASSUME TypeOK, Shape, NEW t \in Threads, PlaneStep(t), NEW j \in Jobs,
         jobs'[j].err = "notrunning", jobs[j].err # "notrunning"
  PROVE  /\ calls[t].op = "heartbeat" /\ calls[t].pc = "failexcept"
         /\ jobs[j].node = calls[t].n /\ j # calls[t].j
<1>. DEFINE c == calls[t]
<1>0. /\ c \in Call /\ CallShape(c) /\ jobs \in [Jobs -> JobRec] /\ jobs' # jobs
  BY DEF TypeOK, Shape
<1>. USE <1>0 DEF JobRec
<1>a. ASSUME NEW n, NEW k, NEW e, NEW b, jobs' = FailInFlight(jobs, n, k, e, b)
      PROVE  e = "notrunning" /\ jobs[j].node = n /\ j # k
  BY <1>a DEF FailInFlight, Failing
<1>1. CASE FailLost(t)
  <2>1. c.pc = "failexcept" /\ c.op \in {"join", "heartbeat"}
    BY <1>1, AtStep, StepAt
  <2>. QED BY <1>1, <1>a, <2>1 DEF FailLost, FailRunningExcept
<1>2. CASE LeaveFail(t) \/ SweepExpire(t)
  <2>1. \E n : \E e \in {"left", "timeout"} : jobs' = FailInFlight(jobs, n, NoJob, e, TRUE)
    BY <1>2 DEF LeaveFail, SweepExpire, FailRunningForNode
  <2>. QED BY <1>a, <2>1
<1>3. CASE ClaimTake(t)
  <2>1. PICK k \in Claimable(jobs, c.n) : jobs' = JobClaim(jobs, k)
    BY <1>3 DEF ClaimTake
  <2>. QED BY <2>1 DEF JobClaim
<1>4. CASE ResultComplete(t)
  <2>1. c.arg # "notrunning"
    BY <1>4, AtStep, StepAt DEF WorkerErrors
  <2>. QED BY <1>4, <2>1 DEF ResultComplete, JobComplete
<1>5. CASE SubmitCreate(t)
  BY <1>5 DEF SubmitCreate, JobCreate, NoJobRec
<1>6. CASE SchedAssign(t)
  BY <1>6 DEF SchedAssign, Candidates, JobAssign
<1>. QED
  BY <1>1, <1>2, <1>3, <1>4, <1>5, <1>6 DEF PlaneStep, Handle, Authenticate, JoinUpsert, Beat,
     Drain, LeaveGet, LeaveOffline, LeaveRemove, ClaimGate, ClaimBusy, ResultReady,
     SubmitCheck, SweepStale, SchedQueued, SchedSnapshot

\* A job that waits has no error.
LEMMA WaitsClean ==
  ASSUME TypeOK, Shape, NotLost, NEW t \in Threads, PlaneStep(t), NEW j \in Jobs,
         jobs'[j].status \in {"queued", "pending"}
  PROVE  jobs'[j].err = ""
<1>0. /\ jobs \in [Jobs -> JobRec]
      /\ jobs[j].status \in {"queued", "pending"} => jobs[j].err = ""
  BY DEF TypeOK, NotLost
<1>. USE <1>0 DEF JobRec
<1>1. CASE Rests(t)
  BY <1>1 DEF Rests
<1>2. CASE GivesUp(t)
  BY <1>2 DEF GivesUp, FailInFlight
<1>3. CASE Places(t)
  <2>1. PICK k \in Jobs, n \in Nodes : jobs' = JobAssign(jobs, k, n)
    BY <1>3 DEF Places
  <2>2. CASE jobs[k].status = "queued"
    BY <2>1, <2>2 DEF JobAssign
  <2>3. CASE jobs[k].status # "queued"
    BY <2>1, <2>3 DEF JobAssign
  <2>. QED BY <2>2, <2>3
<1>4. CASE Completes(t)
  BY <1>4 DEF Completes, JobComplete
<1>5. CASE Submits(t)
  BY <1>5 DEF Submits, JobCreate, NoJobRec
<1>6. CASE Claims(t)
  BY <1>6 DEF Claims, Claimable, WithStatus, JobClaim
<1>. QED BY <1>1, <1>2, <1>3, <1>4, <1>5, <1>6, JobMoves

\* No step of a handler fails a job that is on its way to the agent or there
\* as no longer running.
LEMMA HandlerKeepsJobs ==
  ASSUME TypeOK, Shape, MainWaits, Knowledge, Sequenced, HolderIsOwner, NotLost,
         NEW t \in Threads, PlaneStep(t)
  PROVE  NotLost'
<1>0. agents' = agents
  BY DEF PlaneStep
<1>1. ASSUME NEW j \in Jobs, NEW n \in Nodes, AgentHolds(n, j)'
      PROVE  jobs'[j].err # "notrunning"
  <2>. SUFFICES ASSUME jobs'[j].err = "notrunning" PROVE FALSE
    OBVIOUS
  <2>1. AgentHolds(n, j)
    BY <1>0, <1>1 DEF AgentHolds
  <2>2. jobs[j].err # "notrunning" /\ jobs[j].node = n
    BY <2>1 DEF NotLost, NotRunningIsTrue, HolderIsOwner
  <2>3. /\ calls[t].op = "heartbeat" /\ calls[t].pc = "failexcept"
        /\ calls[t].n = n /\ j # calls[t].j
    BY <2>2, FailsAsNotRunning
  <2>4. agents[n].busy \in {NoJob, calls[t].j}
    BY <2>3 DEF Knowledge, Knows
  <2>. QED BY <2>1, <2>3, <2>4, JobsAssumption DEF AgentHolds
<1>2. ASSUME NEW u \in Threads, NEW j \in Jobs, calls'[u].op = "claim", CallHolds(u, j)'
      PROVE  jobs'[j].err # "notrunning"
  <2>. SUFFICES ASSUME jobs'[j].err = "notrunning" PROVE FALSE
    OBVIOUS
  <2>1. CASE Claims(t)
    <3>1. PICK k \in Claimable(jobs, calls[t].n) :
             /\ jobs' = JobClaim(jobs, k)
             /\ calls' = [calls EXCEPT ![t].pc = "busy", ![t].j = k]
      BY <2>1 DEF Claims
    <3>2. jobs[j].err = "notrunning" /\ k \in Jobs /\ jobs[k].status = "pending"
      BY <3>1 DEF JobClaim, Claimable, WithStatus, TypeOK, JobRec
    <3>3. jobs[k].err = ""
      BY <3>2 DEF NotLost
    <3>4. CASE u = t
      <4>1. calls'[t].j = k
        BY <3>1, <3>4 DEF TypeOK, Call
      <4>. QED BY <1>2, <3>2, <3>3, <3>4, <4>1 DEF CallHolds, Carries
    <3>5. CASE u # t
      <4>1. calls'[u] = calls[u]
        BY <3>5, HandlerKeeps
      <4>. QED BY <1>2, <3>2, <4>1 DEF CallHolds, NotLost
    <3>. QED BY <3>4, <3>5
  <2>2. CASE ~Claims(t)
    <3>1. CallHolds(u, j) /\ calls'[u].n = calls[u].n
      BY <1>2, <2>2, HandlerHolds DEF HoldersShrink
    <3>2. calls[u].op = "claim"
      <4>1. Idle.op = "idle" /\ \A v \in Threads \ {t} : calls'[v] = calls[v]
        BY HandlerKeeps DEF Idle
      <4>. QED BY <1>2, <4>1, CallMoves DEF Follows
    <3>3. jobs[j].err # "notrunning" /\ jobs[j].node = calls[u].n
      BY <3>1, <3>2 DEF NotLost, HolderIsOwner
    <3>4. calls[t].op = "heartbeat" /\ calls[t].n = calls[u].n
      BY <3>3, FailsAsNotRunning
    <3>5. t # u /\ OfAgent(calls[t])
      BY <3>2, <3>4 DEF OfAgent
    <3>. QED BY <3>2, <3>4, <3>5, ClaimsAlone
  <2>. QED BY <2>1, <2>2
<1>. QED BY <1>1, <1>2, WaitsClean DEF NotLost, NotRunningIsTrue

-----------------------------------------------------------------------------
(* Sequenced requests: the steps of agents, clients and time.              *)

\* The claim that c answers with a job is what the agent is busy with.
Handed(a, c) == /\ c.op = "claim" /\ c.pc = "done" /\ c.arg = "job"
                /\ a.busy = c.j

\* The agent keeps its job, and starts none.
Stays(a, b) == b.busy = a.busy /\ (b.exec = "run" => a.exec = "run")

\* What becomes of the job of an agent when no handler takes a step: it stays,
\* it is forgotten, or the agent takes up the one its claim was answered with.
LEMMA AgentMoves ==
  ASSUME TypeOK, Shape, NEW n \in Nodes,
         \/ \E m \in Nodes : AgentStep(m) \/ \E t \in Threads : Reported(m, t)
         \/ Environment
  PROVE  \/ Stays(agents[n], agents'[n])
         \/ agents'[n].busy = NoJob
         \/ \E t \in Threads : calls[t].n = n /\ Handed(agents'[n], calls[t])
<1>0. agents \in [Nodes -> Agent] /\ Down.busy = NoJob
  BY DEF TypeOK, Down
<1>. USE <1>0 DEF Agent, Stays
<1>a. ASSUME NEW m, Exit(m)
      PROVE  Stays(agents[n], agents'[n]) \/ agents'[n].busy = NoJob
  BY <1>a DEF Exit
<1>b. ASSUME NEW m, NEW pc, AgentGoto(m, pc)
      PROVE  Stays(agents[n], agents'[n])
  BY <1>b DEF AgentGoto
<1>1. ASSUME NEW m \in Nodes, NEW t \in Threads, Receive(m, t)
      PROVE  \/ Stays(agents[n], agents'[n])
             \/ agents'[n].busy = NoJob
             \/ calls[t].n = n /\ Handed(agents'[n], calls[t])
  <2>1. CASE Exit(m)
    BY <1>a, <2>1
  <2>2. CASE agents' = [agents EXCEPT ![m] = Answered(agents[m], calls[t])]
    <3>1. CASE calls[t].arg # "job" \/ m # n
      BY <2>2, <3>1 DEF Answered
    <3>2. CASE calls[t].arg = "job" /\ m = n
      <4>1. agents'[n].busy = calls[t].j
        BY <2>2, <3>2 DEF Answered
      <4>2. calls[t].op = "claim" /\ calls[t].pc = "done" /\ calls[t].n = n
        BY <1>1, <3>2 DEF Receive, Shape, CallShape
      <4>. QED BY <3>2, <4>1, <4>2 DEF Handed
    <3>. QED BY <3>1, <3>2
  <2>. QED BY <1>1, <2>1, <2>2 DEF Receive
<1>2. ASSUME NEW m \in Nodes, NEW t \in Threads, Report(m, t)
      PROVE  Stays(agents[n], agents'[n])
  BY <1>2 DEF Report
<1>3. ASSUME NEW m \in Nodes, NEW t \in Threads, Reported(m, t)
      PROVE  Stays(agents[n], agents'[n]) \/ agents'[n].busy = NoJob
  BY <1>3 DEF Reported
<1>4. ASSUME NEW m \in Nodes, NEW t \in Threads, Abandon(m, t)
      PROVE  Stays(agents[n], agents'[n]) \/ agents'[n].busy = NoJob
  BY <1>4, <1>a, <1>b DEF Abandon
<1>5. ASSUME NEW m \in Nodes, NEW t \in Threads, Start(m, t)
      PROVE  Stays(agents[n], agents'[n]) \/ agents'[n].busy = NoJob
  BY <1>5 DEF Start, Down
<1>6. ASSUME NEW m \in Nodes, SkipClaim(m) \/ SkipBeat(m) \/ Settle(m) \/ SettleTimeout(m)
      PROVE  Stays(agents[n], agents'[n])
  BY <1>6, <1>b DEF SkipClaim, SkipBeat, Settle, SettleTimeout
<1>7. ASSUME NEW m \in Nodes, Tick(m) \/ Interrupt(m)
      PROVE  Stays(agents[n], agents'[n])
  BY <1>7, <1>b DEF Tick, Interrupt
<1>8. ASSUME NEW m \in Nodes, Crash(m)
      PROVE  Stays(agents[n], agents'[n]) \/ agents'[n].busy = NoJob
  BY <1>8, <1>a DEF Crash
<1>9. CASE UNCHANGED agents
  BY <1>9
<1>10. CASE \E m \in Nodes : AgentStep(m) \/ \E t \in Threads : Reported(m, t)
  BY <1>1, <1>2, <1>3, <1>6, <1>7, <1>9, <1>10 DEF AgentStep, TryClaim, Heartbeat, SendDrain,
     SendLeave
<1>11. CASE Environment
  BY <1>4, <1>5, <1>6, <1>7, <1>8, <1>9, <1>11 DEF Environment, Submit, AdminDrain, AdminLeave,
     AdminSnapshot, SweepTick, Silence, Restart
<1>. QED BY <1>10, <1>11

\* What they leave of the calls and jobs of SeqInv.
LEMMA ClientSeq ==
  ASSUME TypeOK, Shape, Shape', Knowledge', SeqInv, ClientStep(SecondHalves),
         \A n \in Nodes :
            \/ Stays(agents[n], agents'[n])
            \/ agents'[n].busy = NoJob
            \/ \E t \in Threads : calls[t].n = n /\ Handed(agents'[n], calls[t])
  PROVE  SeqInv'
<1>0. /\ jobs' = jobs /\ NoJob \notin Jobs
      /\ \A n \in Nodes : nodes'[n].status = nodes[n].status
      /\ \A t \in Threads : \/ Lets(SecondHalves, calls[t], calls'[t])
                            \/ Opens(calls[t], calls'[t])
      /\ Idle.op = "idle"
  BY JobsAssumption DEF ClientStep, Idle
<1>. USE <1>0
<1>1. \A n : Running(n)' = Running(n)
  BY DEF Running, OnNode
<1>2. ASSUME NEW n \in Nodes, agents'[n].busy # NoJob
      PROVE  Running(n)' \subseteq {agents'[n].busy}
  <2>1. CASE Stays(agents[n], agents'[n])
    BY <1>1, <1>2, <2>1 DEF Stays, SeqInv, BusyRuns
  <2>2. CASE \E t \in Threads : calls[t].n = n /\ Handed(agents'[n], calls[t])
    BY <1>1, <2>2 DEF Handed, SeqInv, RunsAlone
  <2>. QED BY <1>2, <2>1, <2>2
<1>3. BusyRuns'
  BY <1>2 DEF BusyRuns
<1>4. ASSUME NEW t \in Threads
      PROVE  RunsAlone(calls[t], Running(calls[t].n))'
  <2>. DEFINE c == calls[t]
  <2>1. RunsAlone(c, Running(c.n))
    BY DEF SeqInv
  <2>2. CASE calls'[t] = Idle
    BY <2>2 DEF RunsAlone
  <2>3. CASE Lets(SecondHalves, c, calls'[t]) /\ calls'[t] # Idle
    <3>1. Running(calls[t].n)' = Running(c.n)
      BY <2>3 DEF Lets, Running, OnNode
    <3>. QED BY <2>1, <2>3, <3>1 DEF Lets, RunsAlone
  <2>4. CASE Opens(c, calls'[t])
    <3>1. PICK d : d = calls'[t]
      OBVIOUS
    <3>2. d.pc \in {"auth", "upsert", "stale", "check"} /\ (d.op = "result" => d.who = "report")
      BY <2>4, <3>1 DEF Opens, Request, Idle
    <3>3. d.op = "result" => d.n \in Nodes /\ d.j \in Jobs /\ agents'[d.n].busy = d.j
      BY <3>1, <3>2 DEF Shape, CallShape, Knowledge, Knows
    <3>4. d.op = "result" => Running(d.n)' \subseteq {d.j}
      BY <1>2, <3>3
    <3>5. RunsAlone(d, Running(d.n)')
      BY <3>2, <3>4 DEF RunsAlone
    <3>. QED BY <3>1, <3>5 DEF Running, OnNode
  <2>. QED BY <2>2, <2>3, <2>4
<1>5. OneRuns'
  BY <1>1 DEF SeqInv, OneRuns
<1>6. ReadyCovered'
  <2>1. ASSUME NEW t \in Threads, NEW n \in Nodes, NEW j \in Jobs, Covers(calls[t], n, j)
        PROVE  Covers(calls'[t], n, j)
    <3>1. calls[t].pc \in SecondHalves /\ calls[t].pc # "done" /\ calls[t].op # "idle"
      BY <2>1 DEF Covers, OfAgent, SecondHalves
    <3>2. Lets(SecondHalves, calls[t], calls'[t])
      BY <3>1 DEF Opens
    <3>3. /\ calls'[t].op = calls[t].op /\ calls'[t].n = calls[t].n /\ calls'[t].j = calls[t].j
          /\ calls'[t].pc = calls[t].pc /\ calls'[t].arg = calls[t].arg
      BY <3>1, <3>2 DEF Lets
    <3>. QED BY <2>1, <3>3 DEF Covers, OfAgent
  <2>2. \A n \in Nodes, j \in Jobs : nodes'[n].status = "READY" /\ j \in Running(n)' =>
          \E t \in Threads : Covers(calls[t], n, j)
    BY <1>1 DEF SeqInv, ReadyCovered
  <2>. QED BY <2>1, <2>2 DEF ReadyCovered
<1>7. NotLost'
  <2>1. \A j \in Jobs : jobs'[j].status \in {"queued", "pending"} => jobs'[j].err = ""
    BY DEF SeqInv, NotLost
  <2>2. ASSUME NEW t \in Threads, NEW j \in Jobs, calls'[t].op = "claim", Carries(calls'[t], j)
        PROVE  jobs[j].err # "notrunning"
    <3>1. calls[t].op = "claim" /\ Carries(calls[t], j)
      BY <2>2 DEF Lets, Opens, Carries, Request, Idle
    <3>. QED BY <3>1 DEF SeqInv, NotLost, CallHolds
  <2>3. ASSUME NEW n \in Nodes, NEW j \in Jobs, AgentHolds(n, j)'
        PROVE  jobs[j].err # "notrunning"
    <3>1. agents'[n].exec = "run" /\ agents'[n].busy = j
      BY <2>3 DEF AgentHolds
    <3>2. CASE Stays(agents[n], agents'[n])
      BY <3>1, <3>2 DEF Stays, AgentHolds, SeqInv, NotLost, NotRunningIsTrue
    <3>3. CASE \E t \in Threads : calls[t].n = n /\ Handed(agents'[n], calls[t])
      BY <3>1, <3>3 DEF Handed, Carries, CallHolds, SeqInv, NotLost
    <3>. QED BY <3>1, <3>2, <3>3
  <2>. QED BY <2>1, <2>2, <2>3 DEF NotLost, NotRunningIsTrue, CallHolds
<1>. QED BY <1>3, <1>4, <1>5, <1>6, <1>7 DEF SeqInv

\* Every step of a handler keeps SeqInv.
LEMMA HandlerSeq ==
  ASSUME IInv, Sequenced, SeqInv, NEW t \in Threads, PlaneStep(t)
  PROVE  SeqInv'
<1>0. /\ TypeOK /\ Shape /\ MainWaits /\ HolderIsOwner /\ Knowledge /\ ReadyCovered /\ NotLost
      /\ BusyRuns /\ OneRuns /\ \A u \in Threads : RunsAlone(calls[u], Running(calls[u].n))
      /\ agents' = agents
  BY DEF IInv, Custody, SeqInv, PlaneStep
<1>. USE <1>0
<1>1. Knowledge' /\ NotLost'
  BY HandlerKnowledge, HandlerKeepsJobs
<1>2. /\ \A u \in Threads \ {t} : calls'[u] = calls[u]
      /\ calls \in [Threads -> Call] /\ calls[t] \in Call /\ CallShape(calls[t])
  BY HandlerKeeps DEF TypeOK, Shape
<1>3. CASE ~Claims(t)
  <2>1. \A n \in Nodes : Running(n)' \subseteq Running(n)
    BY <1>3, RunningShrinks
  <2>2. ASSUME NEW u \in Threads
        PROVE  RunsAlone(calls[u], Running(calls[u].n))'
    <3>1. PICK d, m : d = calls'[u] /\ m = d.n
      OBVIOUS
    <3>2. CASE m \notin Nodes
      <4>1. d.op \notin {"claim", "result"}
        <5>1. Idle.op = "idle" /\ \A c \in Call : CallShape(c) /\ c.op \in {"claim", "result"} => c.n \in Nodes
          BY DEF Idle, CallShape
        <5>2. calls[u] \in Call /\ CallShape(calls[u])
          BY DEF TypeOK, Shape
        <5>. QED BY <1>2, <3>1, <3>2, <5>1, <5>2, CallMoves DEF Follows
      <4>. QED BY <3>1, <4>1 DEF RunsAlone
    <3>3. CASE m \in Nodes
      <4>1. RunsAlone(d, Running(m)')
        <5>1. CASE u = t
          BY <1>3, <3>1, <3>3, <5>1, HandlerAlone
        <5>2. CASE u # t
          BY <1>2, <2>1, <3>1, <3>3, <5>2 DEF RunsAlone
        <5>. QED BY <5>1, <5>2
      <4>. QED BY <3>1, <4>1 DEF Running, OnNode
    <3>. QED BY <3>2, <3>3
  <2>3. BusyRuns' /\ OneRuns'
    BY <2>1 DEF BusyRuns, OneRuns
  <2>4. ReadyCovered'
    BY <1>3, HandlerCovers
  <2>. QED BY <1>1, <2>2, <2>3, <2>4 DEF SeqInv
<1>4. CASE Claims(t)
  <2>1. PICK k \in Claimable(jobs, calls[t].n) :
           /\ jobs' = JobClaim(jobs, k)
           /\ calls' = [calls EXCEPT ![t].pc = "busy", ![t].j = k]
    BY <1>4 DEF Claims
  <2>2. PICK n \in Nodes : n = calls[t].n
    BY <1>2, <1>4, AtStep DEF Claims
  <2>3. /\ calls[t].pc = "take" /\ calls[t].op = "claim" /\ k \in Jobs /\ jobs[k].node = n
        /\ calls'[t].op = "claim" /\ calls'[t].n = n /\ calls'[t].pc = "busy" /\ calls'[t].j = k
    BY <1>2, <1>4, <2>1, <2>2, AtStep DEF Claims, Claimable, WithStatus, Call
  <2>4. Running(n) = {} /\ agents[n].busy = NoJob
    BY <2>2, <2>3 DEF RunsAlone, Knowledge, Knows
  <2>5. Running(n)' = {k} /\ \A m \in Nodes \ {n} : Running(m)' = Running(m)
    <3>1. jobs' = [jobs EXCEPT ![k].status = "running"] /\ jobs \in [Jobs -> JobRec]
      BY <2>1 DEF JobClaim, TypeOK
    <3>. QED BY <2>3, <2>4, <3>1 DEF Running, OnNode, JobRec
  <2>6. nodes' = nodes
    BY <2>3, StepOf, StepAt DEF ClaimTake
  <2>7. ASSUME NEW u \in Threads
        PROVE  RunsAlone(calls[u], Running(calls[u].n))'
    <3>1. PICK d, m : d = calls'[u] /\ m = d.n
      OBVIOUS
    <3>2. RunsAlone(d, Running(m)')
      <4>1. CASE u = t
        BY <2>3, <2>5, <3>1, <4>1 DEF RunsAlone
      <4>2. CASE u # t
        <5>1. d = calls[u] /\ CallShape(d)
          BY <1>2, <3>1, <4>2 DEF Shape
        <5>2. CASE d.op \in {"claim", "result"}
          <6>1. m \in Nodes \ {n}
            BY <2>2, <2>3, <3>1, <4>2, <5>1, <5>2, ClaimsAlone DEF CallShape, OfAgent
          <6>. QED BY <2>5, <3>1, <5>1, <6>1
        <5>3. CASE d.op \notin {"claim", "result"}
          BY <5>3 DEF RunsAlone
        <5>. QED BY <5>2, <5>3
      <4>. QED BY <4>1, <4>2
    <3>. QED BY <3>1, <3>2 DEF Running, OnNode
  <2>8. BusyRuns' /\ OneRuns'
    BY <2>4, <2>5 DEF BusyRuns, OneRuns
  <2>9. ReadyCovered'
    <3>. SUFFICES ASSUME NEW m \in Nodes, NEW j \in Jobs, nodes'[m].status = "READY", j \in Running(m)'
                  PROVE  \E u \in Threads : Covers(calls'[u], m, j)
      BY DEF ReadyCovered
    <3>1. CASE m = n
      <4>1. Covers(calls'[t], m, j)
        BY <2>3, <2>5, <3>1 DEF Covers, OfAgent
      <4>. QED BY <4>1
    <3>2. CASE m # n
      <4>1. PICK u \in Threads : Covers(calls[u], m, j)
        BY <2>5, <2>6, <3>2 DEF ReadyCovered
      <4>2. u # t
        BY <2>2, <3>2, <4>1 DEF Covers
      <4>. QED BY <1>2, <4>1, <4>2
    <3>. QED BY <3>1, <3>2
  <2>. QED BY <1>1, <2>7, <2>8, <2>9 DEF SeqInv
<1>. QED BY <1>3, <1>4

\* SeqInv and what it rests on are inductive.
LEMMA NextSeq ==
  IInv /\ Sequenced /\ SeqInv /\ [Next /\ Sequenced' /\ Uncut(SecondHalves)]_vars
    => IInv' /\ Sequenced' /\ SeqInv'
<1>. SUFFICES ASSUME IInv, Sequenced, SeqInv,
                     [Next /\ Sequenced' /\ Uncut(SecondHalves)]_vars
              PROVE  IInv' /\ Sequenced' /\ SeqInv'
  OBVIOUS
<1>1. TypeOK /\ Shape /\ MainWaits /\ Knowledge /\ [Next]_vars
  BY DEF IInv, SeqInv
<1>2. IInv' /\ Shape'
  BY <1>1, NextIInv DEF IInv
<1>3. CASE Next /\ Sequenced' /\ Uncut(SecondHalves)
  <2>1. CASE \E t \in Threads : PlaneStep(t)
    BY <1>2, <1>3, <2>1, HandlerSeq
  <2>2. CASE (\E n \in Nodes : AgentStep(n) \/ \E t \in Threads : Reported(n, t)) \/ Environment
    <3>1. ClientStep(SecondHalves)
      BY <1>1, <1>3, <2>2, ClientMoves DEF SecondHalves
    <3>2. Knowledge'
      <4>1. Threads # {}
        BY ThreadsAssumption
      <4>. QED BY <1>1, <2>2, <4>1, AgentKnowledge, EnvironmentKnowledge DEF AgentStep, Environment
    <3>. QED BY <1>1, <1>2, <1>3, <2>2, <3>1, <3>2, AgentMoves, ClientSeq
  <2>. QED BY <1>3, <2>1, <2>2 DEF Next
<1>4. CASE UNCHANGED vars
  <2>1. Sequenced'
    BY <1>4 DEF vars, Sequenced, OfAgent
  <2>2. Knowledge'
    BY <1>4 DEF vars, SeqInv, Knowledge, OneReport
  <2>3. (\A t \in Threads : RunsAlone(calls[t], Running(calls[t].n)))'
    BY <1>4 DEF vars, SeqInv, Running, OnNode
  <2>4. BusyRuns' /\ OneRuns' /\ ReadyCovered'
    BY <1>4 DEF vars, SeqInv, BusyRuns, OneRuns, ReadyCovered, Running, OnNode
  <2>5. NotLost'
    BY <1>4 DEF vars, SeqInv, NotLost, NotRunningIsTrue, AgentHolds, CallHolds
  <2>6. SeqInv'
    BY <2>2, <2>3, <2>4, <2>5 DEF SeqInv
  <2>. QED BY <1>2, <2>1, <2>6
<1>. QED BY <1>3, <1>4

\* No agent is up, no handler has started and no job was submitted yet.
LEMMA InitSeq == Init => Sequenced /\ SeqInv
<1>. SUFFICES ASSUME Init PROVE Sequenced /\ SeqInv
  OBVIOUS
<1>1. /\ \A t \in Threads : calls[t] = Idle
      /\ Idle.op = "idle" /\ Idle.who = "nobody" /\ Idle.pc = "idle"
  BY DEF Init, Idle
<1>2. \A n \in Nodes : agents[n].busy = NoJob /\ agents[n].exec = "none"
  BY DEF Init, Down
<1>3. \A j \in Jobs : jobs[j].status = "none" /\ jobs[j].err = ""
  BY DEF Init, EmptyJobs, NoJobRec
<1>4. \A n : Running(n) = {}
  BY <1>3 DEF Running, OnNode
<1>5. Sequenced
  BY <1>1 DEF Sequenced, OfAgent
<1>6. Knowledge
  BY <1>1, <1>2 DEF Knowledge, Knows, OneReport, BusyIsAtWork
<1>7. (\A t \in Threads : RunsAlone(calls[t], Running(calls[t].n))) /\ BusyRuns /\ OneRuns
  BY <1>1, <1>4 DEF RunsAlone, BusyRuns, OneRuns
<1>8. ReadyCovered
  BY <1>4 DEF ReadyCovered
<1>9. NotLost
  BY <1>1, <1>3 DEF NotLost, NotRunningIsTrue
<1>. QED BY <1>5, <1>6, <1>7, <1>8, <1>9 DEF SeqInv

\* As long as the requests of an agent do not overtake each other, and the plane
\* does not crash between the two halves of a change, what agents, calls, jobs
\* and rows say of each other stays consistent (handleClaimJob, handleHeartbeat,
\* handleJoin, handleJobResult).
THEOREM SequencedInductive == SequencedSpec => []SeqInv
<1>1. SequencedSpec => [](IInv /\ Sequenced /\ SeqInv)
  BY InitIInv, InitSeq, NextSeq, PTL DEF SequencedSpec
<1>. QED BY <1>1, PTL

\* Under the same assumption a node that is READY runs no job, once the handlers
\* in progress have ended.
THEOREM ReadyMeansIdle == SequencedSpec => []ReadyIsIdle
<1>1. SeqInv => ReadyIsIdle
  <2>. SUFFICES ASSUME SeqInv, Quiet, NEW n \in Nodes, nodes[n].status = "READY", NEW j \in Jobs,
                       j \in Running(n)
                PROVE  FALSE
    BY DEF ReadyIsIdle, ReadyNodes, Running, OnNode
  <2>1. PICK t \in Threads : Covers(calls[t], n, j)
    BY DEF SeqInv, ReadyCovered
  <2>. QED BY <2>1 DEF Covers, Quiet
<1>. QED BY <1>1, SequencedInductive, PTL

\* Under the same assumption at most one job of a node is running at a time.
THEOREM OneAtATime == SequencedSpec => []OneJobPerNode
<1>1. SeqInv => OneJobPerNode
  <2>. SUFFICES ASSUME SeqInv, NEW n \in Nodes
                PROVE  Cardinality(Running(n)) <= 1
    BY DEF OneJobPerNode, Running
  <2>1. CASE Running(n) = {}
    BY <2>1, FS_EmptySet
  <2>2. CASE Running(n) # {}
    <3>1. PICK j : j \in Running(n)
      BY <2>2
    <3>2. Running(n) = {j}
      BY <3>1 DEF SeqInv, OneRuns
    <3>3. Cardinality(Running(n)) = 1
      BY <3>2, FS_Singleton
    <3>. QED BY <3>3
  <2>. QED BY <2>1, <2>2
<1>. QED BY <1>1, SequencedInductive, PTL

\* Under the same assumption no job is failed as no longer running by the worker
\* that executes it.
THEOREM LostOnlyIfLost == SequencedSpec => []NotRunningIsTrue
<1>1. SeqInv => NotRunningIsTrue
  BY DEF SeqInv, NotLost
<1>. QED BY <1>1, SequencedInductive, PTL
=============================================================================
