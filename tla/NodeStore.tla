------------------------------ MODULE NodeStore ------------------------------
(***************************************************************************)
(* The node registry of the control plane (internal/server/store.go).      *)
(* Every method of Store runs under s.mu and saves before it unlocks.  A   *)
(* row keeps the fields the scheduler and the job protocol read: Status,   *)
(* CurrentJobID, whether AgentVersion is set, and whether LastSeen lies    *)
(* within the offline window.                                              *)
(***************************************************************************)
EXTENDS FabricTypes

NodeRec == [status : NodeStatuses, job : JobOrNone,
            agent : BOOLEAN, seen : BOOLEAN]

Absent == [status |-> "absent", job |-> NoJob, agent |-> FALSE, seen |-> FALSE]

EmptyRegistry == [n \in Nodes |-> Absent]

Registered(ns, n) == ns[n].status # "absent"

\* Upsert as handleJoin calls it: the request's row has no CurrentJobID and,
\* for an inventory snapshot, no AgentVersion; both fall back to the old row.
NodeUpsert(ns, n, status) ==
  [ns EXCEPT ![n] =
     [status |-> status,
      job    |-> IF status = "READY" THEN NoJob ELSE ns[n].job,
      agent  |-> status = "READY" \/ ns[n].agent,
      seen   |-> TRUE]]

\* Heartbeat of a running agent: incoming is READY, BUSY or DRAINING.
NodeHeartbeat(ns, n, incoming, job) ==
  LET old == ns[n]
      newStatus == IF old.status = "DRAINING" THEN "DRAINING" ELSE incoming
      newJob == IF old.status = "DRAINING" THEN job
                ELSE IF incoming = "READY" THEN NoJob
                ELSE IF job # NoJob THEN job ELSE old.job
  IN [ns EXCEPT ![n] = [status |-> newStatus, job |-> newJob,
                        agent |-> TRUE, seen |-> TRUE]]

\* Finishing a job while draining returns to DRAINING, not READY; every
\* other status is written over whatever was there.
NodeSetStatus(ns, n, status, job) ==
  LET row == ns[n]
  IN IF ~Registered(ns, n) THEN ns
     ELSE [ns EXCEPT ![n] =
             [row EXCEPT !.status = IF status = "READY" /\ row.status = "DRAINING"
                                    THEN "DRAINING" ELSE status,
                         !.job = job,
                         !.seen = TRUE]]

NodeSetDrain(ns, n) ==
  LET row == ns[n]
  IN [ns EXCEPT ![n] =
        [row EXCEPT !.status = "DRAINING",
                    !.job = IF row.status = "BUSY" THEN row.job ELSE NoJob,
                    !.seen = TRUE]]

NodeRemove(ns, n) == [ns EXCEPT ![n] = Absent]

\* The rows MarkStaleOffline turns OFFLINE; inventory snapshots never expire.
Stale(ns) == {n \in Nodes : /\ Registered(ns, n)
                            /\ ns[n].agent
                            /\ ns[n].status # "OFFLINE"
                            /\ ~ns[n].seen}

NodeMarkOffline(ns, S) ==
  [n \in Nodes |-> IF n \in S
                   THEN [ns[n] EXCEPT !.status = "OFFLINE", !.job = NoJob]
                   ELSE ns[n]]

ReadyNodes(ns) == {n \in Nodes : ns[n].status = "READY"}
=============================================================================
