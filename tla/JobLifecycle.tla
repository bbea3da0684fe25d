------------------------------ MODULE JobLifecycle ------------------------------
(***************************************************************************)
(* What the fabric promises the submitter of a job, without handlers,      *)
(* agents or messages.  A job is placed once, on a node that fits it and   *)
(* is the preferred one, and runs there or nowhere; it is handed out at    *)
(* most once; the plane may give up on jobs in flight, all of one node for *)
(* one reason; and the worker's report, which may still come after the     *)
(* plane gave up, is the last word.                                        *)
(***************************************************************************)
EXTENDS FabricTypes

VARIABLE job

Unknown == [status |-> "none", node |-> NoNode, pref |-> NoNode, err |-> ""]

Init == job = [j \in Jobs |-> Unknown]

Submit(j, pref) ==
  /\ job[j].status = "none"
  /\ job' = [job EXCEPT ![j].status = "queued", ![j].pref = pref]

Place(j, n) ==
  /\ job[j].status = "queued"
  /\ n \in CanRun[j] /\ job[j].pref \in {NoNode, n}
  /\ job' = [job EXCEPT ![j].status = "pending", ![j].node = n]

HandOut(j) ==
  /\ job[j].status = "pending"
  /\ job' = [job EXCEPT ![j].status = "running"]

GaveUp(j) == job[j].status = "failed" /\ job[j].err \in PlaneErrors

Succeed(j) ==
  /\ job[j].status = "running" \/ GaveUp(j)
  /\ job' = [job EXCEPT ![j].status = "succeeded", ![j].err = ""]

Fail(j, err) ==
  /\ job[j].status = "running" \/ GaveUp(j)
  /\ job' = [job EXCEPT ![j].status = "failed", ![j].err = err]

GiveUp(n, S, err) ==
  /\ \A j \in S : job[j].status \in InFlight /\ job[j].node = n
  /\ job' = [j \in Jobs |-> IF j \in S
                            THEN [job[j] EXCEPT !.status = "failed", !.err = err]
                            ELSE job[j]]

Next ==
  \/ \E j \in Jobs : \/ \E pref \in NodeOrNone : Submit(j, pref)
                     \/ \E n \in Nodes : Place(j, n)
                     \/ HandOut(j)
                     \/ Succeed(j)
                     \/ \E err \in WorkerErrors : Fail(j, err)
  \/ \E n \in Nodes, S \in SUBSET Jobs, err \in PlaneErrors : GiveUp(n, S, err)

Spec == Init /\ [][Next]_job
=============================================================================
