-------------------------- MODULE MembershipProperties --------------------------
(***************************************************************************)
(* What members and admins may rely on.                                    *)
(***************************************************************************)
EXTENDS Membership

\* The variables hold values of their types; a token is unissued, spent or
\* has its one use left.
TypeOK ==
  /\ rows \in [Ids -> Row] /\ saved \in [Ids -> Row]
  /\ uses \in [Tokens -> {Unissued, 0, 1}]
  /\ denied \subseteq Nat
  /\ issued \in Seq(Nodes)
  /\ paid \in [Tokens -> Nat]
  /\ calls \in [Calls -> Call] /\ sent \in Nat
  /\ host \in [Nodes -> Host]
  /\ files \in Files /\ plane \in Plane
  /\ net \in Nat /\ made \in Nat /\ history \in Nat
  /\ edits \in Nat

\* A token is spent once, whatever handlers overlap and wherever the plane
\* stops ("one-time control-plane join tokens", enrollment/store.go:1).
TokenOnce == \A t \in Tokens : paid[t] <= 1

\* A serial is known to be of its own node, in the registry, in its file and
\* on the machine, however enrollments and renewals overlap.
Owns(n, s) == s = 0 \/ (s \in DOMAIN issued /\ issued[s] = n)

CertIsOwn ==
  \A n \in Nodes :
    /\ Owns(n, rows[n].serial) /\ Owns(n, saved[n].serial)
    /\ Owns(n, host[n].cert) /\ Owns(n, host[n].client)

\* No serial is ever taken off the list again, by either of the two processes
\* that write it (pki/revoke.go:50-56).
DeniedGrows == [][denied \subseteq denied']_vars

\* A node that the running plane has as revoked stays so until it enrolls
\* again or an admin says otherwise; only requests that had been let in before
\* the revocation was written may undo it (handleAdminIdentity, checkNodeCert).
Undoes(c) ==
  /\ calls'[c] # calls[c]
  /\ calls[c].op \in {"enroll", "admin"} \/ ~calls[c].fresh

RevokedIsFinal ==
  [][\A n \in Nodes :
       Up /\ rows[n].identity = "REVOKED" /\ rows'[n].identity # "REVOKED" =>
         \/ \E c \in Calls : Node(c) = n /\ Undoes(c)
         \/ plane'.pc # "up"]_vars

\* Once a listener has been up, its CA is the one of every later listener,
\* wherever the start of serve is cut short: certificates stay good ("Files
\* are reused across restarts", docs/security/PKI.md:20).
CAStable == Up => plane.ca = history

\* A listener presents a certificate signed by the CA it hands out
\* (pki.go:141-187).
ServesTrusted == Up => plane.cert.by = plane.ca /\ files.caCert = plane.ca

-----------------------------------------------------------------------------
(* What the documents say, and the code does not keep.                     *)

\* "X509KeyPair only fails on malformed PEM; we just wrote valid material"
\* (pki.go:270).
NoPanic == plane.pc # "panicked"

\* A machine that holds a valid certificate registers with it: enrolling is for
\* "an empty ~/.houdry/node/ directory" (docs/security/Enrollment.md:12), and
\* after Ctrl+C "the cert is still valid and join must be able to complete"
\* (mtls.go:134-136). The token that the first registration saved is sent again.
ValidCertRegisters ==
  \A n \in Nodes :
    At(n, "enroll") /\ Got(n, "spent") /\ Presentable(n) => IsRevoked(host[n].cert)

\* A registered node whose node.crt is good gets through the handshake: its
\* certificate is renewed "7 days before expiry", and only "on renew failure"
\* does the expiry end its heartbeats (docs/security/Certificate-Rotation.md:3,
\* 7). The process goes on with the certificate it was started with.
RenewedConnects ==
  \A n \in Nodes : At(n, "on") /\ host[n].lapsed => host[n].age = "expired"
=============================================================================
