------------------------------- MODULE Membership -------------------------------
(***************************************************************************)
(* How a machine becomes, stays and stops being a member: the control      *)
(* plane with its keys and its memory of identities, the machines, the     *)
(* admin with the commands of the API and of the plane's own host, and     *)
(* restarts of everything.                                                 *)
(***************************************************************************)
EXTENDS NodeHost, PlaneKeys, FiniteSets

CONSTANTS
  MaxCalls,   \* requests ever sent
  MaxMoves,   \* changes of the plane's network
  MaxEdits    \* identity commands on the plane's host

ASSUME MembershipBounds == MaxCalls \in Nat /\ MaxMoves \in Nat /\ MaxEdits \in Nat

VARIABLE edits

keys == <<files, plane, net, made, history>>
vars == <<registry, calls, sent, host, keys, edits>>

Up == plane.pc = "up"

Init ==
  /\ rows = [i \in Ids |-> Absent]
  /\ saved = [i \in Ids |-> Absent]
  /\ uses = [t \in Tokens |-> Unissued]
  /\ denied = {}
  /\ issued = <<>>
  /\ paid = [t \in Tokens |-> 0]
  /\ calls = [c \in Calls |-> NoCall]
  /\ sent = 0
  /\ host = [n \in Nodes |-> NewHost]
  /\ KeysInit
  /\ edits = 0

-----------------------------------------------------------------------------
(* The plane.                                                              *)

HandlerNext == Up /\ \E c \in Calls : Handler(c) /\ UNCHANGED <<host, keys, edits>>

\* NewStore comes first when serve starts.
PlaneStarts ==
  /\ StartPlane
  /\ rows' = saved
  /\ UNCHANGED <<saved, uses, denied, issued, paid, calls, sent, host, edits>>

PlaneComesUp ==
  /\ WriteCAKey \/ EnsureServer \/ WriteServerKey \/ Listen
  /\ UNCHANGED <<registry, calls, sent, host, edits>>

\* The handlers end with the process.  Its clients give up.
PlaneGoes ==
  /\ PlaneEnds
  /\ calls' = [c \in Calls |-> IF calls[c].pc = "done" THEN calls[c] ELSE NoCall]
  /\ host' = [n \in Nodes |->
       IF Waits(n) /\ calls[host[n].call].pc # "done"
       THEN [host[n] EXCEPT !.call = NoCallId,
               !.pc = IF @ \in {"beat", "renew"} THEN "on" ELSE "off"]
       ELSE host[n]]
  /\ UNCHANGED <<registry, sent, edits>>

PlaneMoves ==
  /\ net < MaxMoves
  /\ Moves
  /\ UNCHANGED <<registry, calls, sent, host, edits>>

-----------------------------------------------------------------------------
(* The admin.                                                              *)

AdminIdentities == {"ACTIVE", "SUSPENDED", "REVOKED"}

\* Over the API; whether the answer arrives does not matter.
AdminAsks ==
  /\ Up /\ sent < MaxCalls
  /\ \E c \in Calls, n \in Nodes, to \in AdminIdentities :
       Request(c, [NoCall EXCEPT !.op = "admin", !.pc = "read", !.node = n, !.to = to])
  /\ UNCHANGED <<registry, host, keys, edits>>

CreatesToken ==
  /\ \E t \in Tokens : CreateToken(t)
  /\ UNCHANGED <<calls, sent, host, keys, edits>>

\* houdry node suspend, resume or revoke without --server: another process
\* changes nodes.json behind the back of a running plane, and the list.
EditsFiles ==
  /\ edits < MaxEdits
  /\ \E n \in Nodes, to \in AdminIdentities :
       /\ saved[n].here
       /\ saved' = WithIdentity(saved, n, to)
       /\ denied' = IF to = "REVOKED" /\ saved[n].serial # 0
                    THEN WithRevoked(saved[n].serial) ELSE denied
  /\ edits' = edits + 1
  /\ UNCHANGED <<rows, uses, issued, paid, calls, sent, host, keys>>

-----------------------------------------------------------------------------
\* A machine can send while the plane is up.
HostNext ==
  /\ \E n \in Nodes : Register(n) \/ HostStep(n)
  /\ sent' # sent => Up /\ sent < MaxCalls
  /\ UNCHANGED <<keys, edits>>

Next ==
  \/ HandlerNext \/ PlaneStarts \/ PlaneComesUp \/ PlaneGoes \/ PlaneMoves
  \/ AdminAsks \/ CreatesToken \/ EditsFiles
  \/ HostNext

Spec == Init /\ [][Next]_vars
=============================================================================
