-------------------------------- MODULE NodeHost --------------------------------
(***************************************************************************)
(* The machine of a GPU node as far as its identity goes: houdry gpu       *)
(* register (loadJoinConfig of internal/cli/cli.go, DialNode of            *)
(* internal/server/mtls.go), the renewal of its certificate                *)
(* (internal/agent/identity.go), Ctrl+C, and the files it keeps.           *)
(***************************************************************************)
EXTENDS NodeIdentity

CONSTANT NoCallId

ASSUME NoCallIdAssumption == NoCallId \notin Calls

VARIABLE host

HostPcs == {"off", "dial", "enroll", "join", "joining", "on", "beat",
            "renew", "leave"}

\* token is the one config.json keeps, cert the serial of node.crt (0 when
\* there is none), age how old that is, client the serial of the certificate
\* that the process's HTTP client was made with, lapsed whether that has
\* expired, call the request waited for.
Host == [pc : HostPcs, token : Tokens \cup {NoToken}, cert : Nat,
         age : {"new", "due", "expired"}, client : Nat, lapsed : BOOLEAN,
         call : Calls \cup {NoCallId}]

NewHost == [pc |-> "off", token |-> NoToken, cert |-> 0, age |-> "new",
            client |-> 0, lapsed |-> FALSE, call |-> NoCallId]

At(n, pc) == host[n].pc = pc

Waits(n) == host[n].call # NoCallId

Got(n, reply) == Waits(n) /\ calls[host[n].call].pc = "done" /\ calls[host[n].call].reply = reply

\* The client reads the answer, or gives up; a handler that is still running
\* goes on without it.
CloseCall(n) ==
  LET c == host[n].call
  IN calls' = [calls EXCEPT ![c] = IF calls[c].pc = "done" THEN NoCall
                                   ELSE [calls[c] EXCEPT !.live = FALSE]]

\* What the machine does after its request.
Then(n, pc) ==
  /\ CloseCall(n)
  /\ host' = [host EXCEPT ![n] = [@ EXCEPT !.pc = pc, !.call = NoCallId]]

\* The client of a request: one without a certificate to enroll, a new one of
\* node.crt to join, and the same ever after.
ClientFor(n, op) ==
  CASE op = "enroll" -> 0
    [] op = "join"   -> host[n].cert
    [] OTHER         -> host[n].client

Send(n, op, pc) ==
  \E c \in Calls :
    /\ Request(c, [NoCall EXCEPT !.op = op, !.pc = "check", !.node = n,
                                 !.cert = ClientFor(n, op),
                                 !.token = IF op = "enroll" THEN host[n].token ELSE NoToken,
                                 !.live = TRUE])
    /\ host' = [host EXCEPT ![n] =
         [@ EXCEPT !.pc = pc, !.call = c, !.client = ClientFor(n, op), !.lapsed = FALSE]]

\* The handshake of a client certificate.
Presentable(n) == host[n].cert # 0 /\ host[n].age # "expired"

-----------------------------------------------------------------------------
(* houdry gpu register.                                                    *)

\* loadJoinConfig: a token on the command line is kept in config.json.
Register(n) ==
  /\ At(n, "off")
  /\ \E t \in {host[n].token} \cup {u \in Tokens : uses[u] # Unissued} :
       host' = [host EXCEPT ![n] = [@ EXCEPT !.pc = "dial", !.token = t]]
  /\ UNCHANGED <<registry, calls, sent>>

Off(n) == host' = [host EXCEPT ![n].pc = "off"]

\* DialNode: with a token enroll, whatever there is; without one there has to
\* be a certificate.
DialToken(n) ==
  /\ At(n, "dial") /\ host[n].token # NoToken
  /\ Send(n, "enroll", "enroll")
  /\ UNCHANGED registry

DialCert(n) ==
  /\ At(n, "dial") /\ host[n].token = NoToken
  /\ IF host[n].cert = 0 THEN Off(n)
     ELSE host' = [host EXCEPT ![n].pc = "join"]
  /\ UNCHANGED <<registry, calls, sent>>

\* SaveEnrollment.
Certify(n, pc) ==
  /\ CloseCall(n)
  /\ host' = [host EXCEPT ![n] =
       [@ EXCEPT !.pc = pc, !.call = NoCallId, !.age = "new",
                 !.cert = calls[host[n].call].new]]

\* "already enrolled" is no error for a machine that has its certificate.
Enrolled(n) ==
  /\ At(n, "enroll")
  /\ \/ Got(n, "ok") /\ Certify(n, "join")
     \/ Got(n, "enrolled") /\ host[n].cert # 0 /\ Then(n, "join")
  /\ UNCHANGED <<registry, sent>>

NotEnrolled(n) ==
  /\ At(n, "enroll")
  /\ \/ \E why \in {"refused", "spent"} : Got(n, why)
     \/ Got(n, "enrolled") /\ host[n].cert = 0
  /\ Then(n, "off")
  /\ UNCHANGED <<registry, sent>>

Join(n) ==
  /\ At(n, "join") /\ Presentable(n)
  /\ Send(n, "join", "joining")
  /\ UNCHANGED registry

\* The handshake fails.
NotPresentable(n) ==
  /\ At(n, "join") /\ ~Presentable(n)
  /\ Off(n)
  /\ UNCHANGED <<registry, calls, sent>>

Joined(n) ==
  /\ At(n, "joining")
  /\ \/ Got(n, "ok") /\ Then(n, "on")
     \/ Got(n, "refused") /\ Then(n, "off")
  /\ UNCHANGED <<registry, sent>>

-----------------------------------------------------------------------------
(* A registered node.                                                      *)

\* Requests of an expired certificate fail, and the agent goes on.
Heartbeat(n) ==
  /\ At(n, "on") /\ ~host[n].lapsed
  /\ Send(n, "beat", "beat")
  /\ UNCHANGED registry

\* A heartbeat that was answered looks at the age of the certificate.
Beaten(n) ==
  /\ At(n, "beat")
  /\ \/ Got(n, "ok") /\ host[n].age = "new" /\ Then(n, "on")
     \/ Got(n, "refused") /\ Then(n, "on")
     \/ Got(n, "unregistered") /\ Then(n, "off")
  /\ UNCHANGED <<registry, sent>>

\* maybeRenew, on the connection of the heartbeat.
Renew(n) ==
  /\ At(n, "beat") /\ Got(n, "ok") /\ host[n].age # "new"
  /\ calls' = [calls EXCEPT ![host[n].call] =
       [NoCall EXCEPT !.op = "renew", !.pc = "check", !.node = n,
                      !.cert = host[n].client, !.live = TRUE]]
  /\ sent' = sent + 1
  /\ host' = [host EXCEPT ![n].pc = "renew"]
  /\ UNCHANGED registry

Renewed(n) ==
  /\ At(n, "renew")
  /\ \/ Got(n, "ok") /\ Certify(n, "on")
     \/ Got(n, "refused") /\ Then(n, "on")
  /\ UNCHANGED <<registry, sent>>

\* Ctrl+C.
Stop(n) ==
  /\ At(n, "on") /\ ~host[n].lapsed
  /\ Send(n, "leave", "leave")
  /\ UNCHANGED registry

Left(n) ==
  /\ At(n, "leave")
  /\ \E reply \in {"ok", "refused", "unregistered"} : Got(n, reply)
  /\ Then(n, "off")
  /\ UNCHANGED <<registry, sent>>

-----------------------------------------------------------------------------
\* No answer in twenty seconds, or no connection.
GiveUp(n) ==
  /\ Waits(n)
  /\ Then(n, IF At(n, "beat") \/ At(n, "renew") THEN "on" ELSE "off")
  /\ UNCHANGED <<registry, sent>>

\* The process is killed while it waits for nothing.
Kill(n) ==
  /\ host[n].pc \in {"dial", "join", "on"}
  /\ Off(n)
  /\ UNCHANGED <<registry, calls, sent>>

Older(age) == IF age = "new" THEN "due" ELSE "expired"

\* node.crt comes within a week of its end, and past it; what the client was
\* made with is that certificate or an earlier one.
Ages(n) ==
  /\ host[n].cert # 0 /\ host[n].age # "expired"
  /\ LET age == Older(host[n].age)
     IN host' = [host EXCEPT ![n] =
          [@ EXCEPT !.age = age, !.lapsed = host[n].lapsed \/ age = "expired"]]
  /\ UNCHANGED <<registry, calls, sent>>

\* The end of an earlier certificate comes first.
Lapses(n) ==
  /\ host[n].client \notin {0, host[n].cert} /\ ~host[n].lapsed
  /\ host' = [host EXCEPT ![n].lapsed = TRUE]
  /\ UNCHANGED <<registry, calls, sent>>

HostStep(n) ==
  \/ DialToken(n) \/ DialCert(n) \/ Enrolled(n) \/ NotEnrolled(n)
  \/ Join(n) \/ NotPresentable(n) \/ Joined(n)
  \/ Heartbeat(n) \/ Beaten(n) \/ Renew(n) \/ Renewed(n)
  \/ Stop(n) \/ Left(n) \/ GiveUp(n) \/ Kill(n) \/ Ages(n) \/ Lapses(n)
=============================================================================
