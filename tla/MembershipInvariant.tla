-------------------------- MODULE MembershipInvariant --------------------------
(***************************************************************************)
(* The inductive invariant behind the properties of Membership.            *)
(***************************************************************************)
EXTENDS MembershipProperties

\* A request in progress is of a node, one to enroll has a token, and a
\* machine waits only for its own.
Linked ==
  /\ \A c \in Calls : calls[c].pc # "idle" => Node(c) \in Nodes
  /\ \A c \in Calls : calls[c].op = "enroll" => calls[c].token # NoToken
  /\ \A n \in Nodes : Waits(n) =>
       /\ calls[host[n].call].pc # "idle"
       /\ Node(host[n].call) = n
       /\ calls[host[n].call].live

\* A certificate on its way to its node is that node's own.
NewIsOwn == \A c \in Calls : calls[c].pc # "idle" => Owns(Node(c), calls[c].new)

\* What a token has left and what it was spent for make up its one use.
Accounted ==
  \A t \in Tokens : paid[t] = IF uses[t] = 0 THEN 1 ELSE 0

\* Handlers end with the process.
Quiet == ~Up => \A c \in Calls : calls[c].pc \in {"idle", "done"}

\* A row that is not there is not revoked.
NoGhosts ==
  \A n \in Nodes :
    /\ ~rows[n].here => rows[n].identity # "REVOKED"
    /\ ~saved[n].here => saved[n].identity # "REVOKED"

\* A certificate holder's request in progress whose view nobody has overtaken
\* is of a node that is not revoked.
FreshIsTrusted ==
  \A c \in Calls :
    /\ calls[c].op \in {"join", "beat", "renew", "leave"}
    /\ calls[c].pc \notin {"idle", "check", "done"}
    /\ calls[c].fresh
    => rows[Node(c)].identity # "REVOKED"

\* The CA's key is written after its certificate and never replaced; a
\* server certificate with a P-256 key was signed by it.
CAOnDisk ==
  /\ made >= Legacy
  /\ P256(files.caKey) => files.caCert = files.caKey
  /\ P256(files.serverCert.key) =>
       P256(files.caKey) /\ files.serverCert.by = files.caKey
  /\ history # NoKey => P256(history) /\ files.caKey = history

CAInHand ==
  /\ plane.pc = "caKey" =>
       P256(plane.ca) /\ files.caCert = plane.ca /\ ~P256(files.caKey)
  /\ plane.pc \in {"server", "serverKey", "tls", "up", "panicked"} =>
       P256(plane.ca) /\ files.caCert = plane.ca /\ files.caKey = plane.ca
  /\ plane.pc \in {"serverKey", "tls", "up"} => plane.cert.by = plane.ca
  /\ Up => history = plane.ca

IInv ==
  /\ TypeOK /\ Linked /\ NewIsOwn /\ CertIsOwn /\ Accounted
  /\ Quiet /\ NoGhosts /\ FreshIsTrusted /\ CAOnDisk /\ CAInHand
=============================================================================
