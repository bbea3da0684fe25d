----------------------------- MODULE CustodyProofs -----------------------------
(***************************************************************************)
(* Custody of claimed jobs, and the life cycle every job goes through: for *)
(* every set of nodes, jobs and call slots, every set of faults and any    *)
(* number of them.                                                         *)
(***************************************************************************)
EXTENDS FabricProofs

-----------------------------------------------------------------------------
(* What the step of a handler may do to the job store.                     *)

Rests(t) == UNCHANGED jobs /\ (calls[t].pc = "take" => Reply(t, "nojob"))

GivesUp(t) ==
  /\ calls[t].pc # "take"
  /\ \E n \in Nodes, k \in JobOrNone, e \in PlaneErrors, b \in BOOLEAN :
       jobs' = FailInFlight(jobs, n, k, e, b)

Places(t) ==
  /\ calls[t].pc = "assign" /\ UNCHANGED nodes
  /\ \E j \in Jobs, n \in Nodes : /\ n \in calls[t].up
                                  /\ n \in CanRun[j] /\ jobs[j].pref \in {NoNode, n}
                                  /\ jobs' = JobAssign(jobs, j, n)

Claims(t) ==
  /\ calls[t].pc = "take"
  /\ \E j \in Claimable(jobs, calls[t].n) :
       /\ jobs' = JobClaim(jobs, j)
       /\ calls' = [calls EXCEPT ![t].pc = "busy", ![t].j = j]

Completes(t) ==
  /\ calls[t].pc = "complete"
  /\ jobs' = JobComplete(jobs, calls[t].j, calls[t].arg)
  /\ Goto(t, "ready")

Submits(t) ==
  /\ calls[t].pc = "create"
  /\ jobs' = JobCreate(jobs, calls[t].j, calls[t].n)
  /\ Goto(t, "queued")

\* These six are all.
LEMMA JobMoves ==
  ASSUME TypeOK, Shape, NEW t \in Threads, PlaneStep(t)
  PROVE  \/ Rests(t) \/ GivesUp(t) \/ Places(t)
         \/ Claims(t) \/ Completes(t) \/ Submits(t)
<1>. DEFINE c == calls[t]
<1>0. c \in Call /\ CallShape(c) /\ calls \in [Threads -> Call]
  BY DEF TypeOK, Shape
<1>. USE <1>0 DEF At
<1>1. CASE Authenticate(t)
  BY <1>1 DEF Authenticate, Rests
<1>2. CASE JoinUpsert(t) \/ Beat(t) \/ Drain(t) \/ LeaveGet(t) \/ LeaveOffline(t) \/ LeaveRemove(t)
  BY <1>2 DEF JoinUpsert, Beat, Drain, LeaveGet, LeaveOffline, LeaveRemove, Rests
<1>3. CASE ClaimGate(t) \/ ClaimBusy(t) \/ ResultReady(t) \/ SubmitCheck(t) \/ SweepStale(t)
  BY <1>3 DEF ClaimGate, ClaimBusy, ResultReady, SubmitCheck, SweepStale, Rests
<1>4. CASE SchedQueued(t) \/ SchedSnapshot(t)
  BY <1>4 DEF SchedQueued, SchedSnapshot, Rests
<1>5. CASE FailLost(t)
  <2>1. c.pc = "failexcept" /\ c.n \in Nodes /\ c.j \in JobOrNone
    BY <1>5, AtStep DEF FailLost, Call
  <2>2. PICK e \in PlaneErrors : jobs' = FailInFlight(jobs, c.n, c.j, e, FALSE)
    BY <1>5 DEF FailLost, FailRunningExcept, PlaneErrors
  <2>. QED BY <2>1, <2>2 DEF GivesUp
<1>6. CASE LeaveFail(t)
  <2>1. c.pc = "leavefail" /\ c.n \in Nodes
    BY <1>6, AtStep DEF LeaveFail
  <2>2. jobs' = FailInFlight(jobs, c.n, NoJob, "left", TRUE)
    BY <1>6 DEF LeaveFail, FailRunningForNode
  <2>. QED BY <2>1, <2>2 DEF GivesUp, PlaneErrors, JobOrNone
<1>7. CASE SweepExpire(t)
  <2>1. c.pc = "expire" /\ c.up \in SUBSET Nodes
    BY <1>7 DEF SweepExpire, Call
  <2>2. PICK n \in c.up : jobs' = FailInFlight(jobs, n, NoJob, "timeout", TRUE)
    BY <1>7 DEF SweepExpire, FailRunningForNode
  <2>. QED BY <2>1, <2>2 DEF GivesUp, PlaneErrors, JobOrNone
<1>8. CASE ClaimTake(t)
  BY <1>8 DEF ClaimTake, Rests, Claims
<1>9. CASE ResultComplete(t)
  BY <1>9 DEF ResultComplete, Completes
<1>10. CASE SubmitCreate(t)
  BY <1>10 DEF SubmitCreate, Submits
<1>11. CASE SchedAssign(t)
  <2>1. c.pc = "assign" /\ c.q \in SUBSET Jobs /\ c.up \in SUBSET Nodes
    BY <1>11 DEF SchedAssign, Call
  <2>2. PICK j \in c.q : \/ UNCHANGED jobs
                         \/ \E n \in Candidates(c.up, j) : jobs' = JobAssign(jobs, j, n)
    BY <1>11 DEF SchedAssign
  <2>3. CASE UNCHANGED jobs
    BY <2>1, <2>3 DEF Rests
  <2>4. CASE \E n \in Candidates(c.up, j) : jobs' = JobAssign(jobs, j, n)
    BY <1>11, <2>1, <2>2, <2>4 DEF SchedAssign, Places, Candidates
  <2>. QED BY <2>2, <2>3, <2>4
<1>. QED
  BY <1>1, <1>2, <1>3, <1>4, <1>5, <1>6, <1>7, <1>8, <1>9, <1>10, <1>11 DEF PlaneStep, Handle

-----------------------------------------------------------------------------
(* Custody under steps after which nobody holds more than before.          *)

Unheld(j) == /\ \A t \in Threads : ~CallHolds(t, j)
             /\ \A n \in Nodes : ~AgentHolds(n, j)

HoldersShrink ==
  /\ \A u \in Threads, j \in Jobs :
       CallHolds(u, j)' => CallHolds(u, j) /\ calls'[u].n = calls[u].n
  /\ \A n \in Nodes, j \in Jobs : AgentHolds(n, j)' => AgentHolds(n, j)

\* A job that may still be reported stays with its node, unless nobody holds it.
HeldStay ==
  \A j \in Jobs : Reportable(j) =>
     \/ Reportable(j)' /\ jobs'[j].node = jobs[j].node
     \/ Unheld(j)'

\* Custody is kept by a step after which nobody holds a job he did not hold
\* before, and no held job changes hands.
LEMMA CustodyShrinks ==
  ASSUME OneHolder, HolderIsOwner, HoldersShrink, HeldStay
  PROVE  OneHolder' /\ HolderIsOwner'
<1>1. OneHolder'
  BY DEF OneHolder, HoldersShrink
<1>2. HolderIsOwner'
  BY DEF HolderIsOwner, HoldersShrink, HeldStay, Unheld
<1>. QED BY <1>1, <1>2

\* What the store's methods do to jobs that may still be reported, and to ids
\* that are not in the store.
Gentle(js, k) ==
  \A j \in Jobs :
    /\ Undecided(jobs[j]) /\ j # k => Undecided(js[j]) /\ js[j].node = jobs[j].node
    /\ js[j].status = "none" => js[j] = jobs[j]
    /\ jobs[j].status = "none" /\ j # k => js[j].status = "none"

\* Every method of JobStore but Create is gentle, Complete except for the job
\* it completes, and Claim when the job it marks is pending.
LEMMA StoreIsGentle ==
  ASSUME jobs \in [Jobs -> JobRec]
  PROVE  /\ \A n \in Nodes, k \in JobOrNone, e \in PlaneErrors, b \in BOOLEAN :
              Gentle(FailInFlight(jobs, n, k, e, b), NoJob)
         /\ \A j \in Jobs, n \in Nodes : Gentle(JobAssign(jobs, j, n), NoJob)
         /\ \A j \in WithStatus(jobs, "pending") : Gentle(JobClaim(jobs, j), NoJob)
         /\ \A j \in Jobs : \A o : Gentle(JobComplete(jobs, j, o), j)
         /\ \A j \in Jobs : \A p : Gentle(JobCreate(jobs, j, p), j)
<1>. USE JobsAssumption DEF Undecided
<1>1. ASSUME NEW n \in Nodes, NEW k \in JobOrNone, NEW e \in PlaneErrors, NEW b \in BOOLEAN
      PROVE  Gentle(FailInFlight(jobs, n, k, e, b), NoJob)
  BY DEF Gentle, FailInFlight, Failing, JobRec
<1>2. ASSUME NEW j \in Jobs, NEW n \in Nodes
      PROVE  Gentle(JobAssign(jobs, j, n), NoJob)
  BY DEF Gentle, JobAssign, JobRec
<1>3. ASSUME NEW j \in WithStatus(jobs, "pending")
      PROVE  Gentle(JobClaim(jobs, j), NoJob)
  BY DEF Gentle, JobClaim, WithStatus, JobRec
<1>4. ASSUME NEW j \in Jobs, NEW o
      PROVE  Gentle(JobComplete(jobs, j, o), j)
  BY DEF Gentle, JobComplete, JobRec
<1>5. ASSUME NEW j \in Jobs, NEW p
      PROVE  Gentle(JobCreate(jobs, j, p), j)
  BY DEF Gentle, JobCreate, NoJobRec, JobRec
<1>. QED BY <1>1, <1>2, <1>3, <1>4, <1>5

-----------------------------------------------------------------------------
(* Custody under the steps of handlers.                                    *)

\* Nobody but a claim comes to hold a job, and no id is drawn by a handler.
LEMMA HandlerHolds ==
  ASSUME TypeOK, Shape, NEW t \in Threads, PlaneStep(t), ~Claims(t)
  PROVE  /\ HoldersShrink
         /\ \A u \in Threads, j \in Jobs : Creating(u, j)' => Creating(u, j)
<1>. DEFINE c == calls[t]
            d == calls'[t]
<1>0. calls \in [Threads -> Call] /\ agents' = agents
  BY DEF TypeOK, PlaneStep
<1>1. StepKeeps(c, d) /\ \A u \in Threads \ {t} : calls'[u] = calls[u]
  BY HandlerKeeps
<1>2. \A j \in Jobs : Carries(d, j) => Carries(c, j) /\ d.n = c.n
  <2>1. CASE c.pc # "take"
    BY <1>1, <2>1 DEF StepKeeps
  <2>2. CASE c.pc = "take"
    <3>1. Reply(t, "nojob")
      BY <2>2, JobMoves DEF Rests, GivesUp, Places, Completes, Submits
    <3>2. d \in {Idle, [c EXCEPT !.pc = "done", !.arg = "nojob", !.q = {}, !.up = {}]}
      BY <1>0, <3>1 DEF Reply
    <3>3. c \in Call /\ c.op = "claim"
      BY <1>0, <2>2, AtStep DEF Shape
    <3>4. \A j \in Jobs : ~Carries(Idle, j)
      BY DEF Carries, Idle
    <3>5. \A j \in Jobs : ~Carries([c EXCEPT !.pc = "done", !.arg = "nojob", !.q = {}, !.up = {}], j)
      BY <3>3 DEF Carries, Call
    <3>. QED BY <3>2, <3>4, <3>5
  <2>. QED BY <2>1, <2>2
<1>3. HoldersShrink
  BY <1>0, <1>1, <1>2 DEF HoldersShrink, CallHolds, AgentHolds
<1>4. \A u \in Threads, j \in Jobs : Creating(u, j)' => Creating(u, j)
  BY <1>1 DEF StepKeeps, Creating
<1>. QED BY <1>3, <1>4

\* A step that is gentle to all jobs but k, where k is held and drawn by nobody
\* afterwards, keeps custody.
LEMMA GentleStep ==
  ASSUME Custody, HoldersShrink, NEW k, Gentle(jobs', k),
         \A u \in Threads, j \in Jobs : Creating(u, j)' => Creating(u, j),
         k \in Jobs => Unheld(k)' /\ \A u \in Threads : ~Creating(u, k)'
  PROVE  Custody'
<1>1. HeldStay
  BY DEF HeldStay, Gentle, Reportable
<1>2. OneHolder' /\ HolderIsOwner'
  BY <1>1, CustodyShrinks DEF Custody
<1>3. Blank'
  BY DEF Custody, Blank, Gentle
<1>4. FreshIds'
  BY DEF Custody, FreshIds, Gentle
<1>. QED BY <1>2, <1>3, <1>4 DEF Custody

\* Every step of every handler of the control plane keeps custody.
LEMMA HandlerCustody ==
  ASSUME TypeOK, Shape, Custody, NEW t \in Threads, PlaneStep(t)
  PROVE  Custody'
<1>. DEFINE c == calls[t]
            d == calls'[t]
<1>0. /\ c \in Call /\ CallShape(c) /\ calls \in [Threads -> Call]
      /\ jobs \in [Jobs -> JobRec] /\ NoJob \notin Jobs /\ agents' = agents
  BY JobsAssumption DEF TypeOK, Shape, PlaneStep
<1>. USE <1>0
<1>1. CASE Rests(t) \/ GivesUp(t) \/ Places(t)
  <2>1. ~Claims(t)
    <3>1. \A j \in Claimable(jobs, c.n) : JobClaim(jobs, j) # jobs
      BY DEF Claimable, WithStatus, JobClaim, JobRec
    <3>. QED BY <1>1, <3>1 DEF Rests, GivesUp, Places, Claims
  <2>2. Gentle(jobs', NoJob)
    BY <1>1, StoreIsGentle DEF Rests, GivesUp, Places, Gentle
  <2>. QED BY <2>1, <2>2, HandlerHolds, GentleStep
<1>2. CASE Completes(t)
  <2>1. PICK k \in Jobs : k = c.j /\ c.pc = "complete" /\ c.op = "result"
    BY <1>2, AtStep DEF Completes
  <2>a. /\ ~Claims(t) /\ HoldersShrink
        /\ \A u \in Threads, j \in Jobs : Creating(u, j)' => Creating(u, j)
    BY <2>1, HandlerHolds DEF Claims
  <2>2. Gentle(jobs', k)
    BY <1>2, <2>1, StoreIsGentle DEF Completes
  <2>3. CallHolds(t, k)
    BY <2>1 DEF CallHolds, Carries
  <2>4. d = [c EXCEPT !.pc = "ready"]
    BY <1>2 DEF Completes, Goto
  <2>5. ~CallHolds(t, k)'
    BY <2>1, <2>4 DEF CallHolds, Carries, Call
  <2>6. Unheld(k)'
    BY <2>1, <2>3, <2>5, <2>a DEF HoldersShrink, Unheld, Custody, OneHolder
  <2>7. \A u \in Threads : ~Creating(u, k)
    BY <2>1, <2>3 DEF Custody, FreshIds, HolderIsOwner, Reportable, Undecided
  <2>. QED BY <2>1, <2>2, <2>6, <2>7, <2>a, GentleStep
<1>3. CASE Submits(t)
  <2>1. PICK k \in Jobs : k = c.j /\ c.pc = "create" /\ c.op = "submit"
    BY <1>3, AtStep DEF Submits
  <2>a. /\ ~Claims(t) /\ HoldersShrink
        /\ \A u \in Threads, j \in Jobs : Creating(u, j)' => Creating(u, j)
    BY <2>1, HandlerHolds DEF Claims
  <2>2. Gentle(jobs', k)
    BY <1>3, <2>1, StoreIsGentle DEF Submits
  <2>3. Creating(t, k) /\ jobs[k].status = "none"
    BY <2>1 DEF Creating, Creates, Custody, FreshIds
  <2>4. Unheld(k)
    BY <2>1, <2>3 DEF Unheld, Custody, HolderIsOwner, Reportable, Undecided
  <2>5. Unheld(k)'
    BY <2>1, <2>4, <2>a DEF Unheld, HoldersShrink
  <2>6. d = [c EXCEPT !.pc = "queued"]
    BY <1>3 DEF Submits, Goto
  <2>7. ~Creating(t, k)'
    BY <2>6 DEF Creating, Creates, Call
  <2>8. \A u \in Threads : ~Creating(u, k)'
    BY <2>1, <2>3, <2>7, <2>a DEF Custody, FreshIds
  <2>. QED BY <2>1, <2>2, <2>5, <2>8, <2>a, GentleStep
<1>4. CASE Claims(t)
  <2>1. PICK k \in Claimable(jobs, c.n) : /\ jobs' = JobClaim(jobs, k)
                                          /\ calls' = [calls EXCEPT ![t].pc = "busy", ![t].j = k]
    BY <1>4 DEF Claims
  <2>2. c.pc = "take" /\ c.op = "claim" /\ c.n \in Nodes
    BY <1>4, AtStep DEF Claims
  <2>3. k \in Jobs /\ jobs[k].status = "pending" /\ jobs[k].node = c.n
    BY DEF Claimable, WithStatus
  <2>4. Unheld(k)
    BY <2>3 DEF Unheld, Custody, HolderIsOwner, Reportable, Undecided
  <2>5. d = [c EXCEPT !.pc = "busy", !.j = k] /\ \A u \in Threads \ {t} : calls'[u] = calls[u]
    BY <2>1
  <2>6. /\ \A j \in Jobs : ~CallHolds(t, j)
        /\ \A j \in Jobs : CallHolds(t, j)' <=> j = k
    BY <2>2, <2>3, <2>5 DEF CallHolds, Carries, Call
  <2>7. \A u \in Threads \ {t}, j \in Jobs : CallHolds(u, j)' <=> CallHolds(u, j)
    BY <2>5 DEF CallHolds
  <2>8. \A n \in Nodes, j \in Jobs : AgentHolds(n, j)' <=> AgentHolds(n, j)
    BY DEF AgentHolds
  <2>9. OneHolder'
    <3>. SUFFICES ASSUME NEW j \in Jobs
                  PROVE  /\ \A v, u \in Threads : CallHolds(v, j)' /\ CallHolds(u, j)' => v = u
                         /\ \A n, m \in Nodes : AgentHolds(n, j)' /\ AgentHolds(m, j)' => n = m
                         /\ \A v \in Threads, n \in Nodes : ~(CallHolds(v, j)' /\ AgentHolds(n, j)')
      BY DEF OneHolder
    <3>1. CASE j = k
      BY <2>4, <2>6, <2>7, <2>8, <3>1 DEF Unheld
    <3>2. CASE j # k
      BY <2>6, <2>7, <2>8, <3>2 DEF Custody, OneHolder
    <3>. QED BY <3>1, <3>2
  <2>10. Gentle(jobs', NoJob)
    BY <2>1, <2>3, StoreIsGentle DEF WithStatus
  <2>11. Reportable(k)' /\ jobs'[k].node = c.n
    BY <2>1, <2>3 DEF JobClaim, Reportable, Undecided, JobRec
  <2>12. HolderIsOwner'
    <3>1. \A j \in Jobs : CallHolds(t, j)' => Reportable(j)' /\ jobs'[j].node = d.n
      BY <2>5, <2>6, <2>11 DEF Call
    <3>2. \A u \in Threads \ {t}, j \in Jobs :
             CallHolds(u, j)' => Reportable(j)' /\ jobs'[j].node = calls'[u].n
      BY <2>5, <2>7, <2>10 DEF Custody, HolderIsOwner, Gentle, Reportable
    <3>3. \A n \in Nodes, j \in Jobs : AgentHolds(n, j)' => Reportable(j)' /\ jobs'[j].node = n
      BY <2>8, <2>10 DEF Custody, HolderIsOwner, Gentle, Reportable
    <3>. QED BY <3>1, <3>2, <3>3 DEF HolderIsOwner
  <2>13. \A u \in Threads, j \in Jobs : Creating(u, j)' => Creating(u, j)
    BY <2>2, <2>5 DEF Creating, Creates, Call
  <2>14. Blank' /\ FreshIds'
    BY <2>10, <2>13 DEF Custody, Blank, FreshIds, Gentle
  <2>. QED BY <2>9, <2>12, <2>14 DEF Custody
<1>. QED BY <1>1, <1>2, <1>3, <1>4, JobMoves

-----------------------------------------------------------------------------
(* Custody under the steps of agents, clients, the operator and time.      *)

NoDraw == \A u \in Threads, j \in Jobs : Creating(u, j)' => Creating(u, j)

\* So does a step that leaves the job store alone and creates no holder.
LEMMA StoreRests ==
  ASSUME Custody, UNCHANGED jobs, HoldersShrink, NoDraw
  PROVE  Custody'
<1>1. Gentle(jobs', NoJob)
  BY DEF Gentle
<1>. QED BY <1>1, JobsAssumption, GentleStep DEF NoDraw

\* A client that goes away leaves less of its call than there was.
LEMMA OrphansHold ==
  ASSUME NEW c \in Call, NEW d \in Broken(c) \cup {Orphan(c)}
  PROVE  /\ \A j \in Jobs : Carries(d, j) => Carries(c, j) /\ d.n = c.n
         /\ \A j \in Jobs : Creates(d, j) => Creates(c, j)
<1>1. CASE d = Idle
  BY <1>1 DEF Carries, Creates, Idle
<1>2. CASE d = [c EXCEPT !.who = "nobody"]
  BY <1>2 DEF Carries, Creates, Call
<1>. QED BY <1>1, <1>2 DEF Broken, Orphan

\* One slot goes on to a call that holds no more, and no agent holds more.
LEMMA OneSlot ==
  ASSUME calls \in [Threads -> Call], NEW t \in Threads, NEW d,
         calls' = [calls EXCEPT ![t] = d],
         \A j \in Jobs : Carries(d, j) => Carries(calls[t], j) /\ d.n = calls[t].n,
         \A j \in Jobs : Creates(d, j) => Creates(calls[t], j),
         \A m \in Nodes, j \in Jobs : AgentHolds(m, j)' => AgentHolds(m, j)
  PROVE  HoldersShrink /\ NoDraw
BY DEF HoldersShrink, NoDraw, CallHolds, Creating

\* A new request, other than a report, holds no job.
LEMMA SentHoldsNothing ==
  ASSUME NEW op, NEW pc \in {"auth", "upsert", "stale"}, NEW n, NEW j0, NEW a, NEW w, op # "result"
  PROVE  /\ \A j \in Jobs : ~Carries(Request(op, pc, n, j0, a, w), j)
         /\ \A j \in Jobs : ~Creates(Request(op, pc, n, j0, a, w), j)
BY DEF Request, Idle, Carries, Creates

\* Sending such a request keeps custody.
LEMMA SendCustody ==
  ASSUME TypeOK, Custody, UNCHANGED jobs, NEW t \in Threads,
         NEW op, NEW pc \in {"auth", "upsert", "stale"}, NEW n, NEW j0, NEW a, NEW w, op # "result",
         Send(t, op, pc, n, j0, a, w),
         \A m \in Nodes, j \in Jobs : AgentHolds(m, j)' => AgentHolds(m, j)
  PROVE  Custody'
<1>. DEFINE r == Request(op, pc, n, j0, a, w)
<1>1. calls' = [calls EXCEPT ![t] = r] /\ calls \in [Threads -> Call]
  BY DEF Send, TypeOK
<1>2. \A j \in Jobs : ~Carries(r, j) /\ ~Creates(r, j)
  BY SentHoldsNothing
<1>. HIDE DEF r
<1>3. HoldersShrink /\ NoDraw
  BY <1>1, <1>2, OneSlot
<1>. QED BY <1>3, StoreRests

\* The job goes from the call t of node n to the agent of n, or back.
LEMMA HandOver ==
  ASSUME Custody, UNCHANGED jobs, NEW n \in Nodes, NEW t \in Threads, NEW k \in Jobs,
         \/ /\ CallHolds(t, k) /\ calls[t].n = n
            /\ \A j \in Jobs : ~CallHolds(t, j)'
            /\ \A j \in Jobs : AgentHolds(n, j)' => j = k
         \/ /\ AgentHolds(n, k) /\ calls'[t].n = n
            /\ \A j \in Jobs : CallHolds(t, j)' => j = k
            /\ \A j \in Jobs : ~AgentHolds(n, j)',
         \A u \in Threads \ {t} : calls'[u] = calls[u],
         \A m \in Nodes \ {n} : agents'[m] = agents[m],
         NoDraw
  PROVE  Custody'
<1>1. /\ \A u \in Threads \ {t}, j \in Jobs : CallHolds(u, j)' => CallHolds(u, j) /\ calls'[u].n = calls[u].n
      /\ \A m \in Nodes \ {n}, j \in Jobs : AgentHolds(m, j)' => AgentHolds(m, j)
  BY DEF CallHolds, AgentHolds
<1>2. /\ \A u \in Threads \ {t} : ~CallHolds(u, k) \/ AgentHolds(n, k)
      /\ \A u \in Threads : ~CallHolds(u, k) \/ ~AgentHolds(n, k)
      /\ \A m \in Nodes \ {n} : ~AgentHolds(m, k)
  BY DEF Custody, OneHolder
<1>3. Reportable(k)' /\ jobs'[k].node = n /\ \A j \in Jobs : Reportable(j)' <=> Reportable(j)
  BY DEF Custody, HolderIsOwner, Reportable
<1>4. OneHolder'
  <2>. SUFFICES ASSUME NEW j \in Jobs
                PROVE  /\ \A v, u \in Threads : CallHolds(v, j)' /\ CallHolds(u, j)' => v = u
                       /\ \A l, m \in Nodes : AgentHolds(l, j)' /\ AgentHolds(m, j)' => l = m
                       /\ \A v \in Threads, m \in Nodes : ~(CallHolds(v, j)' /\ AgentHolds(m, j)')
    BY DEF OneHolder
  <2>1. CASE j = k
    BY <1>1, <1>2, <2>1
  <2>2. CASE j # k
    BY <1>1, <2>2 DEF Custody, OneHolder
  <2>. QED BY <2>1, <2>2
<1>5. HolderIsOwner'
  <2>1. \A u \in Threads, j \in Jobs : CallHolds(u, j)' => Reportable(j)' /\ jobs'[j].node = calls'[u].n
    BY <1>1, <1>3 DEF Custody, HolderIsOwner
  <2>2. \A m \in Nodes, j \in Jobs : AgentHolds(m, j)' => Reportable(j)' /\ jobs'[j].node = m
    BY <1>1, <1>3 DEF Custody, HolderIsOwner
  <2>. QED BY <2>1, <2>2 DEF HolderIsOwner
<1>6. Blank' /\ FreshIds'
  BY DEF Custody, Blank, FreshIds, NoDraw
<1>. QED BY <1>4, <1>5, <1>6 DEF Custody

\* Every step of an agent keeps custody, and so do its crash, its timeouts
\* and its signals: this is where a claimed job passes from an answer to the
\* goroutine that executes it, and from there to its report.
LEMMA AgentCustody ==
  ASSUME TypeOK, Shape, MainWaits, Custody, NEW n \in Nodes, NEW t \in Threads,
         \/ Start(n, t) \/ TryClaim(n, t) \/ Heartbeat(n, t) \/ SendDrain(n, t)
         \/ SendLeave(n, t) \/ Receive(n, t) \/ Abandon(n, t) \/ Report(n, t)
         \/ Reported(n, t) \/ SkipClaim(n) \/ SkipBeat(n) \/ Tick(n) \/ Settle(n)
         \/ SettleTimeout(n) \/ Interrupt(n) \/ Crash(n)
  PROVE  Custody'
<1>. DEFINE a == agents[n]
            c == calls[t]
<1>0. /\ calls \in [Threads -> Call] /\ c \in Call /\ CallShape(c)
      /\ agents \in [Nodes -> Agent] /\ a \in Agent
  BY DEF TypeOK, Shape
<1>. USE <1>0
<1>a. UNCHANGED jobs
  BY DEF Start, TryClaim, Heartbeat, SendDrain, SendLeave, Receive, Abandon, Report, Reported,
     SkipClaim, SkipBeat, Tick, Settle, SettleTimeout, Interrupt, Crash
<1>1. CASE Start(n, t)
  <2>1. agents' = [agents EXCEPT ![n] = [Down EXCEPT !.pc = "join"]]
    BY <1>1 DEF Start
  <2>2. \A m \in Nodes, j \in Jobs : AgentHolds(m, j)' => AgentHolds(m, j)
    BY <2>1 DEF AgentHolds, Down
  <2>. QED BY <1>1, <1>a, <2>2, SendCustody DEF Start
<1>2. CASE TryClaim(n, t) \/ Heartbeat(n, t) \/ SendDrain(n, t) \/ SendLeave(n, t)
  <2>1. agents' = agents
    BY <1>2 DEF TryClaim, Heartbeat, SendDrain, SendLeave
  <2>2. \A m \in Nodes, j \in Jobs : AgentHolds(m, j)' => AgentHolds(m, j)
    BY <2>1 DEF AgentHolds
  <2>3. \E op \in {"claim", "heartbeat", "drain", "leave"} : \E j, arg :
          Send(t, op, "auth", n, j, arg, "main")
    BY <1>2 DEF TryClaim, Heartbeat, SendDrain, SendLeave
  <2>. QED BY <1>a, <2>2, <2>3, SendCustody
<1>b. ASSUME Exit(n)
      PROVE  Custody'
  <2>1. \A u \in Threads : calls'[u] = calls[u] \/ calls'[u] = Orphan(calls[u])
    BY <1>b DEF Exit, OrphanAll
  <2>2. \A u \in Threads, j \in Jobs :
          /\ Carries(calls'[u], j) => Carries(calls[u], j) /\ calls'[u].n = calls[u].n
          /\ Creates(calls'[u], j) => Creates(calls[u], j)
    BY <2>1, OrphansHold
  <2>3. agents' = [agents EXCEPT ![n] = Down]
    BY <1>b DEF Exit
  <2>4. \A m \in Nodes, j \in Jobs : AgentHolds(m, j)' => AgentHolds(m, j)
    BY <2>3 DEF AgentHolds, Down
  <2>5. HoldersShrink /\ NoDraw
    BY <2>2, <2>4 DEF HoldersShrink, NoDraw, CallHolds, Creating
  <2>. QED BY <1>a, <2>5, StoreRests
<1>3. CASE Receive(n, t)
  <2>1. CASE Exits(a, c.arg)
    BY <1>b, <1>3, <2>1 DEF Receive
  <2>2. CASE ~Exits(a, c.arg)
    <3>1. /\ agents' = [agents EXCEPT ![n] = Answered(a, c)]
          /\ calls' = [calls EXCEPT ![t] = Idle]
          /\ c.n = n /\ c.pc = "done"
      BY <1>3, <2>2 DEF Receive
    <3>2. \A j \in Jobs : ~Carries(Idle, j) /\ ~Creates(Idle, j)
      BY DEF Carries, Creates, Idle
    <3>3. CASE c.arg = "job"
      <4>1. PICK k \in Jobs : k = c.j /\ c.op = "claim"
        BY <3>3 DEF CallShape
      <4>2. CallHolds(t, k)
        BY <3>1, <3>3, <4>1 DEF CallHolds, Carries
      <4>3. \A j \in Jobs : ~CallHolds(t, j)'
        BY <3>1, <3>2 DEF CallHolds
      <4>4. Answered(a, c).busy = k
        BY <3>3, <4>1 DEF Answered, Agent
      <4>5. \A j \in Jobs : AgentHolds(n, j)' => j = k
        BY <3>1, <4>4 DEF AgentHolds
      <4>6. NoDraw
        BY <3>1, <3>2 DEF NoDraw, Creating
      <4>. QED BY <1>a, <3>1, <4>2, <4>3, <4>5, <4>6, HandOver
    <3>4. CASE c.arg # "job"
      <4>1. Answered(a, c).busy = a.busy /\ Answered(a, c).exec = a.exec
        BY <3>4 DEF Answered, Agent
      <4>2. \A m \in Nodes, j \in Jobs : AgentHolds(m, j)' => AgentHolds(m, j)
        BY <3>1, <4>1 DEF AgentHolds
      <4>. QED BY <1>a, <3>1, <3>2, <4>2, OneSlot, StoreRests
    <3>. QED BY <3>3, <3>4
  <2>. QED BY <2>1, <2>2
<1>4. CASE Abandon(n, t)
  <2>1. CASE Exits(a, "lost")
    BY <1>b, <1>4, <2>1 DEF Abandon
  <2>2. CASE ~Exits(a, "lost")
    <3>1. PICK left \in Broken(c) : calls' = [calls EXCEPT ![t] = left]
      BY <1>4, <2>2 DEF Abandon
    <3>2. agents' = [agents EXCEPT ![n].pc = AfterAnswer[a.pc]]
      BY <1>4, <2>2 DEF Abandon, AgentGoto
    <3>3. \A m \in Nodes, j \in Jobs : AgentHolds(m, j)' => AgentHolds(m, j)
      BY <3>2 DEF AgentHolds, Agent
    <3>. QED BY <1>a, <3>1, <3>3, OrphansHold, OneSlot, StoreRests
  <2>. QED BY <2>1, <2>2
<1>5. CASE Report(n, t)
  <2>1. PICK k \in Jobs : k = a.busy /\ a.exec = "run"
    BY <1>5 DEF Report, MainWaits
  <2>2. PICK o \in Outcomes(a) : Send(t, "result", "auth", n, a.busy, o, "report")
    BY <1>5 DEF Report
  <2>3. calls' = [calls EXCEPT ![t] = Request("result", "auth", n, k, o, "report")]
    BY <2>1, <2>2 DEF Send
  <2>4. calls'[t].n = n /\ calls'[t].j = k /\ calls'[t].op = "result"
    BY <2>3 DEF Request, Idle
  <2>5. AgentHolds(n, k)
    BY <2>1 DEF AgentHolds
  <2>6. \A j \in Jobs : CallHolds(t, j)' => j = k
    BY <2>4 DEF CallHolds, Carries
  <2>7. agents' = [agents EXCEPT ![n].exec = "report"]
    BY <1>5 DEF Report
  <2>8. \A j \in Jobs : ~AgentHolds(n, j)'
    BY <2>7 DEF AgentHolds, Agent
  <2>9. \A u \in Threads \ {t} : calls'[u] = calls[u]
    BY <2>3
  <2>10. NoDraw
    BY <2>4, <2>9 DEF NoDraw, Creating, Creates
  <2>. QED BY <1>a, <2>4, <2>5, <2>6, <2>7, <2>8, <2>9, <2>10, HandOver
<1>6. CASE Reported(n, t)
  <2>1. PICK left \in Broken(c) : calls' = [calls EXCEPT ![t] = left]
    BY <1>6 DEF Reported
  <2>2. agents' = [agents EXCEPT ![n].busy = NoJob, ![n].exec = "none"]
    BY <1>6 DEF Reported
  <2>3. \A m \in Nodes, j \in Jobs : AgentHolds(m, j)' => AgentHolds(m, j)
    BY <2>2 DEF AgentHolds, Agent
  <2>. QED BY <1>a, <2>1, <2>3, OrphansHold, OneSlot, StoreRests
<1>7. CASE SkipClaim(n) \/ SkipBeat(n) \/ Tick(n) \/ Settle(n) \/ SettleTimeout(n) \/ Interrupt(n)
  <2>1. calls' = calls
    BY <1>7 DEF SkipClaim, SkipBeat, Tick, Settle, SettleTimeout, Interrupt
  <2>2. \A m \in Nodes : agents'[m].exec = agents[m].exec /\ agents'[m].busy = agents[m].busy
    BY <1>7 DEF SkipClaim, SkipBeat, Tick, Settle, SettleTimeout, Interrupt, AgentGoto, Agent
  <2>3. HoldersShrink /\ NoDraw
    BY <2>1, <2>2 DEF HoldersShrink, NoDraw, CallHolds, AgentHolds, Creating
  <2>. QED BY <1>a, <2>3, StoreRests
<1>8. CASE Crash(n)
  BY <1>b, <1>8 DEF Crash
<1>. QED BY <1>1, <1>2, <1>3, <1>4, <1>5, <1>6, <1>7, <1>8

\* A new submission draws an id that nobody has drawn.
LEMMA SubmitCustody ==
  ASSUME TypeOK, Custody, NEW t \in Threads, NEW k \in Jobs, NEW pref, Submit(k, pref, t)
  PROVE  Custody'
<1>. DEFINE r == Request("submit", "check", pref, k, "", "nobody")
<1>0. calls \in [Threads -> Call]
  BY DEF TypeOK
<1>1. /\ calls' = [calls EXCEPT ![t] = r] /\ calls[t].op = "idle"
      /\ jobs' = jobs /\ agents' = agents
  BY DEF Submit, Send, Free
<1>2. jobs[k].status = "none" /\ \A u \in Threads : ~Creating(u, k)
  BY DEF Submit, Submitted, Creating, Creates
<1>3. /\ \A j \in Jobs : ~Carries(r, j)
      /\ \A j \in Jobs : Creates(r, j) => j = k
  BY DEF Request, Idle, Carries, Creates
<1>. HIDE DEF r
<1>4. HoldersShrink
  BY <1>0, <1>1, <1>3 DEF HoldersShrink, CallHolds, AgentHolds
<1>5. OneHolder' /\ HolderIsOwner'
  BY <1>1, <1>4, CustodyShrinks DEF Custody, HeldStay, Reportable
<1>6. \A u \in Threads, j \in Jobs : Creating(u, j)' => Creating(u, j) \/ (u = t /\ j = k)
  BY <1>0, <1>1, <1>3 DEF Creating
<1>7. FreshIds'
  BY <1>1, <1>2, <1>6 DEF Custody, FreshIds
<1>8. Blank'
  BY <1>1 DEF Custody, Blank
<1>. QED BY <1>5, <1>7, <1>8 DEF Custody

\* Clients, the operator, time and a restart of the plane keep custody.
LEMMA EnvironmentCustody ==
  ASSUME TypeOK, Custody, NEW t \in Threads,
         \/ \E j \in Jobs, pref \in NodeOrNone : Submit(j, pref, t)
         \/ \E n \in Nodes : AdminDrain(n, t) \/ AdminLeave(n, t) \/ AdminSnapshot(n, t)
         \/ SweepTick(t) \/ (\E n \in Nodes : Silence(n)) \/ Restart
  PROVE  Custody'
<1>1. CASE \E j \in Jobs, pref \in NodeOrNone : Submit(j, pref, t)
  BY <1>1, SubmitCustody
<1>2. CASE (\E n \in Nodes : AdminDrain(n, t) \/ AdminLeave(n, t) \/ AdminSnapshot(n, t)) \/ SweepTick(t)
  <2>1. UNCHANGED <<jobs, agents>>
    BY <1>2 DEF AdminDrain, AdminLeave, AdminSnapshot, SweepTick
  <2>2. \A m \in Nodes, j \in Jobs : AgentHolds(m, j)' => AgentHolds(m, j)
    BY <2>1 DEF AgentHolds
  <2>3. \E op \in {"drain", "join", "sweep"}, pc \in {"auth", "upsert", "stale"} : \E n, arg :
          Send(t, op, pc, n, NoJob, arg, "nobody")
    BY <1>2 DEF AdminDrain, AdminLeave, AdminSnapshot, SweepTick
  <2>. QED BY <2>1, <2>2, <2>3, SendCustody
<1>3. CASE \E n \in Nodes : Silence(n)
  <2>1. UNCHANGED <<jobs, calls, agents>>
    BY <1>3 DEF Silence
  <2>2. HoldersShrink /\ NoDraw
    BY <2>1 DEF HoldersShrink, NoDraw, CallHolds, AgentHolds, Creating
  <2>. QED BY <2>1, <2>2, StoreRests
<1>4. CASE Restart
  <2>. DEFINE Broke(c) == [c EXCEPT !.pc = "done", !.arg = "lost", !.q = {}, !.up = {}]
  <2>1. UNCHANGED <<jobs, agents>>
    BY <1>4 DEF Restart
  <2>2. \A u \in Threads : calls'[u] \in {Idle, calls[u], Broke(calls[u])}
    BY <1>4 DEF Restart
  <2>3. ASSUME NEW c \in Call, NEW j \in Jobs
        PROVE  /\ ~Carries(Idle, j) /\ ~Carries(Broke(c), j)
               /\ ~Creates(Idle, j) /\ ~Creates(Broke(c), j)
    BY DEF Carries, Creates, Idle, Call
  <2>4. \A u \in Threads : calls[u] \in Call
    BY DEF TypeOK
  <2>. HIDE DEF Broke
  <2>5. HoldersShrink /\ NoDraw
    BY <2>1, <2>2, <2>3, <2>4 DEF HoldersShrink, NoDraw, CallHolds, AgentHolds, Creating
  <2>. QED BY <2>1, <2>5, StoreRests
<1>. QED BY <1>1, <1>2, <1>3, <1>4

-----------------------------------------------------------------------------
(* The theorems.                                                           *)

\* The inductive invariant holds at the start.
LEMMA InitIInv == Init => IInv
<1>1. Init => Types
  BY InitTypes
<1>2. Init => Custody
  <2>. SUFFICES ASSUME Init PROVE Custody
    OBVIOUS
  <2>1. \A t \in Threads, j \in Jobs : ~CallHolds(t, j) /\ ~Creating(t, j)
    BY DEF Init, CallHolds, Carries, Creating, Creates, Idle
  <2>2. \A n \in Nodes, j \in Jobs : ~AgentHolds(n, j)
    BY DEF Init, AgentHolds, Down
  <2>3. Blank
    BY DEF Init, Blank, EmptyJobs
  <2>. QED BY <2>1, <2>2, <2>3 DEF Custody, FreshIds, OneHolder, HolderIsOwner
<1>. QED BY <1>1, <1>2 DEF IInv, Types

\* The inductive invariant is inductive.
LEMMA NextIInv == IInv /\ [Next]_vars => IInv'
<1>. SUFFICES ASSUME IInv, [Next]_vars PROVE IInv'
  OBVIOUS
<1>1. TypeOK /\ Shape /\ MainWaits /\ Custody /\ Types
  BY DEF IInv, Types
<1>2. Types'
  BY <1>1, NextTypes, StutterTypes
<1>. SUFFICES Custody'
  BY <1>2 DEF IInv, Types
<1>3. CASE \E t \in Threads : PlaneStep(t)
  BY <1>1, <1>3, HandlerCustody
<1>a. PICK u \in Threads : TRUE
  BY ThreadsAssumption
<1>4. ASSUME NEW n \in Nodes, AgentStep(n) \/ \E t \in Threads : Reported(n, t)
      PROVE  Custody'
  <2>1. PICK t \in Threads :
          \/ TryClaim(n, t) \/ Heartbeat(n, t) \/ SendDrain(n, t) \/ SendLeave(n, t)
          \/ Receive(n, t) \/ Report(n, t) \/ Reported(n, t)
          \/ SkipClaim(n) \/ SkipBeat(n) \/ Tick(n) \/ Settle(n)
    BY <1>a, <1>4 DEF AgentStep
  <2>. QED BY <1>1, <2>1, AgentCustody
<1>5. CASE Environment
  <2>1. ASSUME NEW t \in Threads, NEW n \in Nodes,
               \/ Start(n, t) \/ Abandon(n, t)
               \/ SettleTimeout(n) \/ Interrupt(n) \/ Crash(n)
        PROVE  Custody'
    BY <1>1, <2>1, AgentCustody
  <2>2. ASSUME NEW t \in Threads,
               \/ \E j \in Jobs, pref \in NodeOrNone : Submit(j, pref, t)
               \/ \E n \in Nodes : AdminDrain(n, t) \/ AdminLeave(n, t) \/ AdminSnapshot(n, t)
               \/ SweepTick(t) \/ (\E n \in Nodes : Silence(n)) \/ Restart
        PROVE  Custody'
    BY <1>1, <2>2, EnvironmentCustody
  <2>. QED BY <1>a, <1>5, <2>1, <2>2 DEF Environment
<1>6. CASE UNCHANGED vars
  <2>1. UNCHANGED <<jobs, calls, agents>>
    BY <1>6 DEF vars
  <2>2. HoldersShrink /\ NoDraw
    BY <2>1 DEF HoldersShrink, NoDraw, CallHolds, AgentHolds, Creating
  <2>. QED BY <1>1, <2>1, <2>2, StoreRests
<1>. QED BY <1>3, <1>4, <1>5, <1>6 DEF Next

\* The inductive invariant holds in every reachable state.
THEOREM Inductive == Spec => []IInv
BY InitIInv, NextIInv, PTL DEF Spec

\* No two claim handlers, executions or reports ever hold the same job, so no
\* job is executed or reported twice (handleClaimJob, Run, handleJobResult).
THEOREM HeldOnce == Spec => []OneHolder
<1>1. IInv => OneHolder
  BY DEF IInv, Custody
<1>. QED BY <1>1, Inductive, PTL

\* Complete is only reached for a job that the reporting node was given and
\* that has no report yet, though Complete itself checks nothing.
THEOREM OwnerReports == Spec => []HolderIsOwner
<1>1. IInv => HolderIsOwner
  BY DEF IInv, Custody
<1>. QED BY <1>1, Inductive, PTL

-----------------------------------------------------------------------------
(* The fabric implements the life cycle of a job.                          *)

\* The empty job store is the start of the life cycle of every job.
LEMMA InitLifecycle == Init => JL!Init
BY DEF Init, JL!Init, EmptyJobs, NoJobRec, JL!Unknown

\* The abstract module's names for the sets of FabricTypes.
LEMMA SameNames ==
  /\ JL!NodeOrNone = NodeOrNone /\ JL!InFlight = InFlight
  /\ JL!WorkerErrors = WorkerErrors /\ JL!PlaneErrors = PlaneErrors
BY DEF JL!NodeOrNone, NodeOrNone, JL!InFlight, InFlight, JL!WorkerErrors, WorkerErrors,
   JL!PlaneErrors, PlaneErrors

\* A step of a handler is one step of the life cycle, or none.
LEMMA HandlerLifecycle ==
  ASSUME IInv, NEW t \in Threads, PlaneStep(t)
  PROVE  JL!Next \/ UNCHANGED jobs
<1>. DEFINE c == calls[t]
<1>0. /\ TypeOK /\ Shape /\ Custody
      /\ c \in Call /\ CallShape(c) /\ jobs \in [Jobs -> JobRec] /\ calls \in [Threads -> Call]
  BY DEF IInv, TypeOK, Shape
<1>. USE <1>0
<1>1. CASE Rests(t)
  BY <1>1 DEF Rests
<1>2. CASE GivesUp(t)
  <2>1. PICK n \in Nodes, k \in JobOrNone, e \in PlaneErrors, b \in BOOLEAN :
          jobs' = FailInFlight(jobs, n, k, e, b)
    BY <1>2 DEF GivesUp
  <2>. DEFINE S == Failing(jobs, n, k, b)
  <2>2. S \in SUBSET Jobs /\ \A j \in S : jobs[j].status \in InFlight /\ jobs[j].node = n
    BY DEF Failing, InFlight
  <2>3. jobs' = [j \in Jobs |-> IF j \in S THEN [jobs[j] EXCEPT !.status = "failed", !.err = e]
                                ELSE jobs[j]]
    BY <2>1 DEF FailInFlight
  <2>. HIDE DEF S
  <2>4. JL!GiveUp(n, S, e)
    BY <2>2, <2>3, SameNames DEF JL!GiveUp
  <2>. QED BY <2>2, <2>4, SameNames DEF JL!Next
<1>3. CASE Places(t)
  <2>1. PICK j \in Jobs, n \in Nodes : /\ n \in CanRun[j] /\ jobs[j].pref \in {NoNode, n}
                                       /\ jobs' = JobAssign(jobs, j, n)
    BY <1>3 DEF Places
  <2>2. JL!Place(j, n) \/ UNCHANGED jobs
    BY <2>1 DEF JL!Place, JobAssign
  <2>. QED BY <2>2 DEF JL!Next
<1>4. CASE Claims(t)
  <2>1. PICK j \in Claimable(jobs, c.n) : jobs' = JobClaim(jobs, j)
    BY <1>4 DEF Claims
  <2>2. j \in Jobs /\ jobs[j].status = "pending"
    BY DEF Claimable, WithStatus
  <2>3. JL!HandOut(j)
    BY <2>1, <2>2 DEF JobClaim, JL!HandOut
  <2>. QED BY <2>2, <2>3 DEF JL!Next
<1>5. CASE Completes(t)
  <2>1. PICK j \in Jobs : j = c.j /\ c.pc = "complete" /\ c.op = "result"
                          /\ c.arg \in {"ok"} \cup WorkerErrors
    BY <1>5, AtStep DEF Completes
  <2>2. Undecided(jobs[j])
    BY <2>1 DEF Custody, HolderIsOwner, Reportable, CallHolds, Carries
  <2>3. jobs' = JobComplete(jobs, j, c.arg)
    BY <1>5, <2>1 DEF Completes
  <2>4. CASE c.arg = "ok"
    <3>1. JL!Succeed(j)
      BY <2>2, <2>3, <2>4, SameNames DEF JobComplete, JL!Succeed, JL!GaveUp, Undecided
    <3>. QED BY <3>1 DEF JL!Next
  <2>5. CASE c.arg # "ok"
    <3>1. JL!Fail(j, c.arg)
      BY <2>2, <2>3, <2>5, SameNames DEF JobComplete, JL!Fail, JL!GaveUp, Undecided
    <3>. QED BY <2>1, <2>5, <3>1, SameNames DEF JL!Next
  <2>. QED BY <2>4, <2>5
<1>6. CASE Submits(t)
  <2>1. PICK j \in Jobs : j = c.j /\ c.pc = "create" /\ c.op = "submit" /\ c.n \in NodeOrNone
    BY <1>6, AtStep DEF Submits, Call
  <2>2. jobs[j].status = "none" /\ jobs[j] = NoJobRec
    BY <2>1 DEF Custody, FreshIds, Blank, Creating, Creates
  <2>3. jobs' = JobCreate(jobs, j, c.n)
    BY <1>6, <2>1 DEF Submits
  <2>4. jobs' = [jobs EXCEPT ![j] = [jobs[j] EXCEPT !.status = "queued", !.pref = c.n]]
    <3>1. jobs' = [jobs EXCEPT ![j] = [NoJobRec EXCEPT !.status = "queued", !.pref = c.n]]
      BY <2>3 DEF JobCreate
    <3>2. [NoJobRec EXCEPT !.status = "queued", !.pref = c.n]
             = [jobs[j] EXCEPT !.status = "queued", !.pref = c.n]
      BY <2>2
    <3>. QED BY <3>1, <3>2
  <2>5. JL!Submit(j, c.n)
    BY <2>2, <2>4 DEF JL!Submit
  <2>. QED BY <2>1, <2>5, SameNames DEF JL!Next
<1>. QED BY <1>1, <1>2, <1>3, <1>4, <1>5, <1>6, JobMoves

\* A step of the fabric is one step of the life cycle, or none.
LEMMA NextLifecycle == IInv /\ [Next]_vars => [JL!Next]_jobs
<1>. SUFFICES ASSUME IInv, [Next]_vars PROVE JL!Next \/ UNCHANGED jobs
  OBVIOUS
<1>1. CASE \E t \in Threads : PlaneStep(t)
  BY <1>1, HandlerLifecycle
<1>2. CASE \E n \in Nodes : AgentStep(n) \/ \E t \in Threads : Reported(n, t)
  BY <1>2 DEF AgentStep, TryClaim, Heartbeat, SendDrain, SendLeave, Receive, Report, Reported,
     SkipClaim, SkipBeat, Tick, Settle
<1>3. CASE Environment
  BY <1>3 DEF Environment, Start, Abandon, SettleTimeout, Interrupt, Crash, Submit, AdminDrain,
     AdminLeave, AdminSnapshot, SweepTick, Silence, Restart
<1>4. CASE UNCHANGED vars
  BY <1>4 DEF vars
<1>. QED BY <1>1, <1>2, <1>3, <1>4 DEF Next

\* Whatever interleaves and whatever fails, every job is placed once on a node
\* that fits it, handed out once, and reported at most once (JobLifecycle, the
\* promise behind jobs.go and its callers in server.go, scheduler.go, agent.go).
THEOREM Refinement == Spec => LifecycleSpec
<1>1. Spec => JL!Init
  BY InitLifecycle DEF Spec
<1>2. IInv /\ [Next]_vars => [JL!Next]_jobs
  BY NextLifecycle
<1>3. Spec => JL!Init /\ [][JL!Next]_jobs
  BY <1>1, <1>2, Inductive, PTL DEF Spec
<1>. QED BY <1>3 DEF LifecycleSpec, JL!Spec
=============================================================================
