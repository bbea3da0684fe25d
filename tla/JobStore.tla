------------------------------ MODULE JobStore ------------------------------
(***************************************************************************)
(* The job store of the control plane (internal/server/jobs.go).  Every    *)
(* method of JobStore runs under js.mu and saves the whole map before it   *)
(* unlocks, so each is one operator from the old map to the new one.       *)
(***************************************************************************)
EXTENDS FabricTypes

JobRec == [status : JobStatuses, node : NodeOrNone,
           pref : NodeOrNone, err : JobErrors]

NoJobRec == [status |-> "none", node |-> NoNode, pref |-> NoNode, err |-> ""]

\* NewJobStore on an empty data directory.
EmptyJobs == [j \in Jobs |-> NoJobRec]

WithStatus(js, s) == {j \in Jobs : js[j].status = s}

\* The smallest CreatedAt among a set of jobs.
Earliest(j, S) == j \in S /\ \A k \in S : j <= k

JobCreate(js, j, pref) ==
  [js EXCEPT ![j] = [NoJobRec EXCEPT !.status = "queued", !.pref = pref]]

\* Mutant of JobAssign: the status is not checked.
AssignUnchecked(js, j, n) == [js EXCEPT ![j].status = "pending", ![j].node = n]

\* Assign is the only method that checks the status it moves a job from.
JobAssign(js, j, n) ==
  IF js[j].status = "queued"
  THEN [js EXCEPT ![j].status = "pending", ![j].node = n]
  ELSE js

\* Mutants of Claimable: a claim may take a running job; any node's job.
ClaimableAgain(js, n) == {j \in Jobs : js[j].status \in InFlight /\ js[j].node = n}

ClaimableByAny(js, n) == WithStatus(js, "pending")

\* What Claim chooses from.
Claimable(js, n) == {j \in WithStatus(js, "pending") : js[j].node = n}

\* Mutant of JobClaim: the job is handed out but not marked.
ClaimUnmarked(js, j) == js

JobClaim(js, j) == [js EXCEPT ![j].status = "running"]

\* Complete looks at neither the status nor the owner of the job.
JobComplete(js, j, outcome) ==
  IF outcome = "ok"
  THEN [js EXCEPT ![j].status = "succeeded", ![j].err = ""]
  ELSE [js EXCEPT ![j].status = "failed", ![j].err = outcome]

\* The jobs of node n that failInFlight fails.
Failing(js, n, keep, includePending) ==
  {j \in Jobs : /\ js[j].node = n
                /\ \/ js[j].status = "running"
                   \/ includePending /\ js[j].status = "pending"
                /\ j # keep}

FailInFlight(js, n, keep, err, includePending) ==
  [j \in Jobs |-> IF j \in Failing(js, n, keep, includePending)
                  THEN [js[j] EXCEPT !.status = "failed", !.err = err]
                  ELSE js[j]]

\* Mutants: a node that goes away keeps its pending jobs; a heartbeat fails the
\* job it names too.
FailOnlyRunning(js, n, err) == FailInFlight(js, n, NoJob, err, FALSE)

FailEvenKept(js, n, keep, err) == FailInFlight(js, n, NoJob, err, FALSE)

FailRunningForNode(js, n, err) == FailInFlight(js, n, NoJob, err, TRUE)

FailRunningExcept(js, n, keep, err) == FailInFlight(js, n, keep, err, FALSE)
=============================================================================
