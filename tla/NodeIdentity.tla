------------------------------ MODULE NodeIdentity ------------------------------
(***************************************************************************)
(* The handlers of the control plane that read or write a node's identity  *)
(* (internal/server/enroll.go, checkNodeCert of mtls.go, and join,         *)
(* heartbeat and leave of server.go), step by step: other handlers run     *)
(* between any two steps.  What the same handlers do to jobs and to the    *)
(* operational status is in ControlPlane.                                  *)
(***************************************************************************)
EXTENDS IdentityRegistry

CONSTANTS
  Calls,     \* requests in progress
  NoToken

ASSUME NoTokenAssumption == NoToken \notin Tokens

VARIABLES
  calls,
  sent       \* how many requests there have been

Ops == {"none", "enroll", "join", "beat", "renew", "leave", "admin"}
CallPcs == {"idle", "check", "spend", "sign", "read", "upsert", "beat",
            "promote", "remove", "revoke", "set", "done"}
Replies == {"", "ok", "enrolled", "spent", "refused", "unregistered"}

\* to is the identity an admin asks for, cert the serial of the client's
\* certificate, copy the row as it was read, new the serial just signed,
\* live whether the client still waits.  fresh is history: nobody has written
\* an identity from elsewhere over this node's since the request was let in.
Call == [op : Ops, pc : CallPcs, node : Ids, cert : Nat,
         token : Tokens \cup {NoToken}, to : Identities, copy : Row, new : Nat,
         reply : Replies, live : BOOLEAN, fresh : BOOLEAN]

NoCall == [op |-> "none", pc |-> "idle", node |-> NoNode, cert |-> 0,
           token |-> NoToken, to |-> "", copy |-> Absent, new |-> 0,
           reply |-> "", live |-> FALSE, fresh |-> TRUE]

Free(c) == calls[c].pc = "idle"

Request(c, request) ==
  /\ Free(c)
  /\ calls' = [calls EXCEPT ![c] = request]
  /\ sent' = sent + 1

-----------------------------------------------------------------------------
Is(c, op, pc) == calls[c].op = op /\ calls[c].pc = pc

Node(c) == calls[c].node

MyRow(c) == rows[Node(c)]

Step(c, pc) == calls' = [calls EXCEPT ![c].pc = pc]

\* The call after its answer: nobody reads it when the client has gone.
Answered(c, reply) ==
  IF calls[c].live THEN [calls[c] EXCEPT !.pc = "done", !.reply = reply]
  ELSE NoCall

Answer(c, reply) == calls' = [calls EXCEPT ![c] = Answered(c, reply)]

\* An answer of a handler that has set this node's identity to something that
\* the others in progress have not seen.
Overtake(c, reply) ==
  calls' = [d \in Calls |->
    IF d = c THEN Answered(c, reply)
    ELSE IF Node(d) = Node(c) /\ calls[d].pc # "check"
    THEN [calls[d] EXCEPT !.fresh = FALSE]
    ELSE calls[d]]

-----------------------------------------------------------------------------
(* POST /v1/nodes/enroll.                                                  *)

\* Before the token is looked at: the rate limit, the form of the request,
\* and a node that has a certificate already.
EnrollCheck(c) ==
  /\ Is(c, "enroll", "check")
  /\ \/ Answer(c, "refused")
     \/ IF MyRow(c).serial # 0 /\ MyRow(c).identity # "REVOKED"
        THEN Answer(c, "enrolled") ELSE Step(c, "spend")
  /\ UNCHANGED <<registry, sent>>

\* Consume: the token may also have expired, or the file not be written.
EnrollSpend(c) ==
  /\ Is(c, "enroll", "spend")
  /\ \/ /\ Spendable(calls[c].token)
        /\ Spend(calls[c].token)
        /\ Step(c, "sign")
     \/ Answer(c, "spent") /\ UNCHANGED <<uses, paid>>
  /\ UNCHANGED <<rows, saved, denied, issued, sent>>

\* SignCSR: it refuses an Ed25519 key.
Sign(c, next) ==
  \/ /\ Issue(Node(c))
     /\ calls' = [calls EXCEPT ![c].pc = next, ![c].new = NextSerial]
  \/ Answer(c, "refused") /\ UNCHANGED issued

EnrollSign(c) ==
  /\ Is(c, "enroll", "sign")
  /\ Sign(c, "upsert")
  /\ UNCHANGED <<rows, saved, uses, denied, paid, sent>>

\* Mutant of Own: whichever certificate was signed last.
LastSigned(c) == Len(issued)

\* The certificate this request had signed.
Own(c) == calls[c].new

EnrollUpsert(c) ==
  /\ Is(c, "enroll", "upsert")
  /\ Save(RowUpsert(Node(c), "CERTIFIED", Own(c)))
  /\ Answer(c, "ok")
  /\ UNCHANGED <<uses, denied, issued, paid, sent>>

-----------------------------------------------------------------------------
(* Requests with a client certificate.                                     *)

\* Mutant of Dead: only the list is asked.
OnList(c) == IsRevoked(calls[c].cert)

\* The node or its certificate is revoked.
Dead(c) == MyRow(c).identity = "REVOKED" \/ IsRevoked(calls[c].cert)

\* verifyPeer and checkNodeCert: a join may come from a node without a row
\* and not from a suspended one.
LetIn(c) ==
  /\ MyRow(c).here => ~Dead(c)
  /\ ~MyRow(c).here => calls[c].op = "join" /\ ~IsRevoked(calls[c].cert)
  /\ calls[c].op = "join" => MyRow(c).identity # "SUSPENDED"

FirstStep(op) ==
  CASE op = "join"  -> "upsert"
    [] op = "beat"  -> "beat"
    [] op = "renew" -> "sign"
    [] op = "leave" -> "read"

CheckNodeCert(c) ==
  /\ calls[c].op \in {"join", "beat", "renew", "leave"} /\ calls[c].pc = "check"
  /\ IF LetIn(c) THEN Step(c, FirstStep(calls[c].op)) ELSE Answer(c, "refused")
  /\ UNCHANGED <<registry, sent>>

\* handleJoin: the identity is ACTIVE and no certificate is given.
JoinUpsert(c) ==
  /\ Is(c, "join", "upsert")
  /\ Save(RowUpsert(Node(c), "ACTIVE", 0))
  /\ Answer(c, "ok")
  /\ UNCHANGED <<uses, denied, issued, paid, sent>>

\* handleHeartbeat: Store.Heartbeat, which leaves the identity alone.
Beat(c) ==
  /\ Is(c, "beat", "beat")
  /\ IF ~MyRow(c).here THEN Answer(c, "unregistered")
     ELSE IF MyRow(c).identity = "CERTIFIED" THEN Step(c, "promote")
     ELSE Answer(c, "ok")
  /\ UNCHANGED <<registry, sent>>

\* The first heartbeat makes a CERTIFIED node ACTIVE.
Promote(c) ==
  /\ Is(c, "beat", "promote")
  /\ Save(WithIdentity(rows, Node(c), "ACTIVE"))
  /\ Answer(c, "ok")
  /\ UNCHANGED <<uses, denied, issued, paid, sent>>

RenewSign(c) ==
  /\ Is(c, "renew", "sign")
  /\ Sign(c, "read")
  /\ UNCHANGED <<rows, saved, uses, denied, paid, sent>>

\* handleRenew reads the row, whether or not it is there.
RenewRead(c) ==
  /\ Is(c, "renew", "read")
  /\ calls' = [calls EXCEPT ![c].pc = "upsert", ![c].copy = MyRow(c)]
  /\ UNCHANGED <<registry, sent>>

\* It writes the copy back; a row that was not there has no node ID.
RenewUpsert(c) ==
  /\ Is(c, "renew", "upsert")
  /\ LET copy == calls[c].copy
     IN Save(RowUpsert(IF copy.here THEN Node(c) ELSE NoNode,
                       IF copy.identity = "CERTIFIED" THEN "ACTIVE" ELSE copy.identity,
                       Own(c)))
  /\ Overtake(c, "ok")
  /\ UNCHANGED <<uses, denied, issued, paid, sent>>

\* handleLeave: a node that is still at work is refused.
LeaveRead(c) ==
  /\ Is(c, "leave", "read")
  /\ IF MyRow(c).here THEN Answer(c, "refused") \/ Step(c, "remove")
     ELSE Answer(c, "unregistered")
  /\ UNCHANGED <<registry, sent>>

LeaveRemove(c) ==
  /\ Is(c, "leave", "remove")
  /\ Save(RowRemove(Node(c)))
  /\ Answer(c, "ok")
  /\ UNCHANGED <<uses, denied, issued, paid, sent>>

-----------------------------------------------------------------------------
(* POST /v1/nodes/suspend, resume and revoke.                              *)

AdminRead(c) ==
  /\ Is(c, "admin", "read")
  /\ IF ~MyRow(c).here THEN Answer(c, "unregistered")
     ELSE calls' = [calls EXCEPT ![c].copy = MyRow(c), ![c].pc =
            IF calls[c].to = "REVOKED" /\ MyRow(c).serial # 0 THEN "revoke" ELSE "set"]
  /\ UNCHANGED <<registry, sent>>

\* The serial goes on the list; that the file cannot be written is ignored.
AdminRevoke(c) ==
  /\ Is(c, "admin", "revoke")
  /\ \/ denied' = WithRevoked(calls[c].copy.serial)
     \/ UNCHANGED denied
  /\ Step(c, "set")
  /\ UNCHANGED <<rows, saved, uses, issued, paid, sent>>

AdminSet(c) ==
  /\ Is(c, "admin", "set")
  /\ Save(WithIdentity(rows, Node(c), calls[c].to))
  /\ Overtake(c, "ok")
  /\ UNCHANGED <<uses, denied, issued, paid, sent>>

-----------------------------------------------------------------------------
Handler(c) ==
  \/ EnrollCheck(c) \/ EnrollSpend(c) \/ EnrollSign(c) \/ EnrollUpsert(c)
  \/ CheckNodeCert(c) \/ JoinUpsert(c) \/ Beat(c) \/ Promote(c)
  \/ RenewSign(c) \/ RenewRead(c) \/ RenewUpsert(c)
  \/ LeaveRead(c) \/ LeaveRemove(c)
  \/ AdminRead(c) \/ AdminRevoke(c) \/ AdminSet(c)
=============================================================================
