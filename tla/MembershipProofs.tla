---------------------------- MODULE MembershipProofs ----------------------------
(***************************************************************************)
(* Proofs about membership, for every set of nodes, tokens and requests in *)
(* progress, and every bound.                                              *)
(***************************************************************************)
EXTENDS MembershipInvariant, TLAPS

-----------------------------------------------------------------------------
(* The keys of the plane.                                                  *)

\* What each step of serve's start does to the key material (Ensure).
LEMMA KeysPreserved ==
  ASSUME TypeOK, CAOnDisk, CAInHand,
         KeysStep \/ PlaneEnds \/ Moves \/ UNCHANGED keys
  PROVE  CAOnDisk' /\ CAInHand'
<1> USE DEF CAOnDisk, CAInHand, Up, P256, Legacy, NoKey, NoCert, Files, Plane, Cert
<1>0. /\ files \in Files /\ plane \in Plane /\ made \in Nat /\ history \in Nat
      /\ files.caCert \in Nat /\ files.caKey \in Nat /\ plane.ca \in Nat
  BY DEF TypeOK
<1>1. CASE StartPlane
  <2>1. CASE LoadCA
    BY <1>0, <1>1, <2>1 DEF StartPlane, LoadCA, CAUsable
  <2>2. CASE MakeCA
    <3>1. ~P256(files.caKey)
      BY <1>0, <2>2 DEF MakeCA, CAUsable
    <3> QED BY <1>0, <1>1, <2>2, <3>1 DEF StartPlane, MakeCA
  <2> QED BY <1>1, <2>1, <2>2 DEF StartPlane
<1>2. CASE WriteCAKey
  BY <1>0, <1>2 DEF WriteCAKey
<1>3. CASE EnsureServer
  <2>1. CASE LoadServer
    BY <1>0, <1>3, <2>1 DEF EnsureServer, LoadServer, ServerUsable
  <2>2. CASE MakeServer
    BY <1>0, <1>3, <2>2 DEF EnsureServer, MakeServer
  <2> QED BY <1>3, <2>1, <2>2 DEF EnsureServer
<1>4. CASE WriteServerKey
  BY <1>0, <1>4 DEF WriteServerKey
<1>5. CASE Listen
  BY <1>0, <1>5 DEF Listen
<1>6. CASE PlaneEnds
  BY <1>0, <1>6 DEF PlaneEnds
<1>7. CASE Moves \/ UNCHANGED keys
  BY <1>0, <1>7 DEF Moves, keys
<1> QED BY <1>1, <1>2, <1>3, <1>4, <1>5, <1>6, <1>7 DEF KeysStep

\* The types of the key material.
KeysTyped ==
  files \in Files /\ plane \in Plane /\ net \in Nat /\ made \in Nat /\ history \in Nat

LEMMA KeysTypes ==
  ASSUME KeysTyped, KeysStep \/ PlaneEnds \/ Moves \/ UNCHANGED keys
  PROVE  KeysTyped'
<1> USE StartsAssumption
    DEF KeysTyped, NoKey, NoCert, Files, Plane, PlanePcs, Cert
<1>1. CASE StartPlane
  <2>1. CASE LoadCA
    <3>1. plane' = [pc |-> "server", ca |-> files.caCert, cert |-> plane.cert,
                    key |-> plane.key, starts |-> plane.starts + 1]
      BY <2>1 DEF LoadCA
    <3> QED BY <1>1, <2>1, <3>1 DEF StartPlane, LoadCA
  <2>2. CASE MakeCA
    <3>1. plane' = [pc |-> "caKey", ca |-> made + 1, cert |-> plane.cert,
                    key |-> plane.key, starts |-> plane.starts + 1]
      BY <2>2 DEF MakeCA
    <3> QED BY <1>1, <2>2, <3>1 DEF StartPlane, MakeCA
  <2> QED BY <1>1, <2>1, <2>2 DEF StartPlane
<1>2. CASE WriteCAKey
  BY <1>2 DEF WriteCAKey
<1>3. CASE EnsureServer
  <2>1. CASE LoadServer
    <3>1. plane' = [pc |-> "tls", ca |-> plane.ca, cert |-> files.serverCert,
                    key |-> files.serverKey, starts |-> plane.starts]
      BY <2>1 DEF LoadServer
    <3>2. files.serverCert \in Cert /\ files.serverKey \in Nat /\ plane.ca \in Nat
      OBVIOUS
    <3>3. plane' \in Plane
      BY <3>1, <3>2
    <3>4. UNCHANGED <<files, made, net, history>>
      BY <1>3, <2>1 DEF EnsureServer, LoadServer
    <3> QED BY <3>3, <3>4
  <2>2. CASE MakeServer
    <3> DEFINE cert == [key |-> made + 1, by |-> plane.ca, names |-> net]
    <3>1. cert \in Cert
      OBVIOUS
    <3>2. UNCHANGED <<net, history>>
      BY <1>3 DEF EnsureServer
    <3>3. /\ files' = [files EXCEPT !.serverCert = cert] /\ made' = made + 1
          /\ plane' = [pc |-> "serverKey", ca |-> plane.ca, cert |-> cert,
                      key |-> made + 1, starts |-> plane.starts]
      BY <2>2 DEF MakeServer
    <3> HIDE DEF cert
    <3> QED BY <3>1, <3>2, <3>3
  <2> QED BY <1>3, <2>1, <2>2 DEF EnsureServer
<1>4. CASE WriteServerKey
  BY <1>4 DEF WriteServerKey
<1>5. CASE Listen
  BY <1>5 DEF Listen
<1>6. CASE PlaneEnds
  BY <1>6 DEF PlaneEnds
<1>7. CASE Moves \/ UNCHANGED keys
  BY <1>7 DEF Moves, keys
<1> QED BY <1>1, <1>2, <1>3, <1>4, <1>5, <1>6, <1>7 DEF KeysStep

-----------------------------------------------------------------------------
(* Requests in progress.                                                   *)

\* What a request is stays as it is while it is handled.
SameCall(a, b) ==
  a.op = b.op /\ a.node = b.node /\ a.live = b.live /\ a.token = b.token /\ a.cert = b.cert

\* Request c is at pc, with or without its handler's intermediate results, or
\* nobody was waiting for its answer.
Moved(c, pc) ==
  /\ calls' \in [Calls -> Call]
  /\ SameCall(calls'[c], calls[c]) /\ calls'[c].pc = pc
  /\ calls'[c].fresh = calls[c].fresh

OthersKept(c) == \A d \in Calls : d # c => calls'[d] = calls[d]

\* Step changes the place in the handler and nothing else.
LEMMA StepMoves ==
  ASSUME calls \in [Calls -> Call], NEW c \in Calls, NEW pc \in CallPcs, Step(c, pc)
  PROVE  Moved(c, pc) /\ OthersKept(c) /\ calls'[c].new = calls[c].new
         /\ calls'[c].copy = calls[c].copy
<1>1. calls[c] \in Call
  OBVIOUS
<1>2. [calls[c] EXCEPT !.pc = pc] \in Call
  BY <1>1 DEF Call
<1>3. calls' = [calls EXCEPT ![c] = [calls[c] EXCEPT !.pc = pc]]
  BY DEF Step
<1>4. calls'[c] = [calls[c] EXCEPT !.pc = pc]
  BY <1>3
<1> QED BY <1>1, <1>2, <1>3, <1>4 DEF Moved, OthersKept, SameCall, Call

\* What the answer makes of the call.
Closed(c, reply) ==
  \/ /\ calls[c].live /\ SameCall(calls'[c], calls[c])
     /\ calls'[c].pc = "done" /\ calls'[c].new = calls[c].new
  \/ ~calls[c].live /\ calls'[c] = NoCall

LEMMA AnsweredTyped ==
  ASSUME calls \in [Calls -> Call], NEW c \in Calls, NEW reply \in Replies
  PROVE  /\ Answered(c, reply) \in Call
         /\ calls'[c] = Answered(c, reply) => Closed(c, reply)
<1>1. calls[c] \in Call
  OBVIOUS
<1>2. NoCall \in Call
  BY DEF NoCall, Call, Ops, CallPcs, Ids, Identities, Row, Absent, Replies
<1> DEFINE answered == [calls[c] EXCEPT !.pc = "done", !.reply = reply]
<1>3. /\ answered \in Call /\ SameCall(answered, calls[c])
      /\ answered.pc = "done" /\ answered.new = calls[c].new
  BY <1>1 DEF Call, CallPcs, SameCall
<1> HIDE DEF answered
<1>4. Answered(c, reply) = IF calls[c].live THEN answered ELSE NoCall
  BY DEF Answered, answered
<1> QED BY <1>2, <1>3, <1>4 DEF Closed

LEMMA AnswerCloses ==
  ASSUME calls \in [Calls -> Call], NEW c \in Calls, NEW reply \in Replies,
         Answer(c, reply)
  PROVE  calls' \in [Calls -> Call] /\ Closed(c, reply) /\ OthersKept(c)
<1>1. calls' = [calls EXCEPT ![c] = Answered(c, reply)]
  BY DEF Answer
<1> QED BY <1>1, AnsweredTyped DEF OthersKept

\* The other calls keep all but their history.
OthersGoOn(c) ==
  \A d \in Calls \ {c} :
    /\ SameCall(calls'[d], calls[d]) /\ calls'[d].pc = calls[d].pc
    /\ calls'[d].new = calls[d].new /\ calls'[d].copy = calls[d].copy
    /\ calls'[d].fresh => calls[d].fresh

Overtaken(c) ==
  \A d \in Calls \ {c} :
    calls'[d].fresh => Node(d) # Node(c) \/ calls[d].pc = "check"

LEMMA OvertakeCloses ==
  ASSUME calls \in [Calls -> Call], NEW c \in Calls, NEW reply \in Replies,
         Overtake(c, reply)
  PROVE  /\ calls' \in [Calls -> Call] /\ Closed(c, reply)
         /\ OthersGoOn(c) /\ Overtaken(c)
<1>1. calls'[c] = Answered(c, reply) /\ calls'[c] \in Call
  BY AnsweredTyped DEF Overtake
<1>2. ASSUME NEW d \in Calls \ {c}
      PROVE  /\ calls'[d] \in Call
             /\ SameCall(calls'[d], calls[d]) /\ calls'[d].pc = calls[d].pc
             /\ calls'[d].new = calls[d].new /\ calls'[d].copy = calls[d].copy
             /\ calls'[d].fresh =>
                  calls[d].fresh /\ (Node(d) # Node(c) \/ calls[d].pc = "check")
  <2>1. calls[d] \in Call
    OBVIOUS
  <2>2. calls'[d] = IF Node(d) = Node(c) /\ calls[d].pc # "check"
                    THEN [calls[d] EXCEPT !.fresh = FALSE] ELSE calls[d]
    BY DEF Overtake
  <2>3. [calls[d] EXCEPT !.fresh = FALSE] \in Call
    BY <2>1 DEF Call
  <2> QED BY <2>1, <2>2, <2>3 DEF Call, SameCall
<1>3. calls' \in [Calls -> Call]
  BY <1>1, <1>2 DEF Overtake
<1> QED BY <1>1, <1>2, <1>3, AnsweredTyped DEF Overtaken, OthersGoOn

\* Sign gives the call the serial it has just used up, or answers.
LEMMA SignMoves ==
  ASSUME calls \in [Calls -> Call], issued \in Seq(Nodes), NEW c \in Calls,
         NEW pc \in CallPcs, Sign(c, pc)
  PROVE  /\ OthersKept(c)
         /\ \/ /\ Moved(c, pc) /\ calls'[c].new = Len(issued) + 1
               /\ issued' = Append(issued, Node(c))
            \/ /\ Closed(c, "refused") /\ calls' \in [Calls -> Call]
               /\ UNCHANGED issued
<1>1. CASE Answer(c, "refused") /\ UNCHANGED issued
  BY <1>1, AnswerCloses DEF Replies
<1>2. CASE Issue(Node(c)) /\ calls' = [calls EXCEPT ![c].pc = pc, ![c].new = NextSerial]
  <2> DEFINE signed == [calls[c] EXCEPT !.pc = pc, !.new = Len(issued) + 1]
  <2>1. calls[c] \in Call
    OBVIOUS
  <2>2. Len(issued) + 1 \in Nat
    OBVIOUS
  <2>3. /\ signed \in Call /\ SameCall(signed, calls[c]) /\ signed.pc = pc
        /\ signed.new = Len(issued) + 1 /\ signed.fresh = calls[c].fresh
    BY <2>1, <2>2 DEF Call, SameCall
  <2>4. calls' = [calls EXCEPT ![c] = signed]
    BY <1>2 DEF NextSerial
  <2> HIDE DEF signed
  <2>5. issued' = Append(issued, Node(c))
    BY <1>2 DEF Issue
  <2>6. calls'[c] = signed /\ calls' \in [Calls -> Call] /\ OthersKept(c)
    BY <2>3, <2>4 DEF OthersKept
  <2> QED BY <2>3, <2>5, <2>6 DEF Moved
<1> QED BY <1>1, <1>2 DEF Sign

\* What every step of a handler does to the calls.
Handled(c) ==
  /\ calls' \in [Calls -> Call]
  /\ OthersGoOn(c)
  /\ calls[c].pc \notin {"idle", "done"}
  /\ \/ SameCall(calls'[c], calls[c]) /\ calls'[c].pc # "idle"
     \/ ~calls[c].live /\ calls'[c] = NoCall

LEMMA HandledByMove ==
  ASSUME NEW c \in Calls, NEW pc, Moved(c, pc), OthersKept(c), pc # "idle",
         calls[c].pc \notin {"idle", "done"}
  PROVE  Handled(c)
BY DEF Handled, Moved, OthersKept, OthersGoOn, SameCall

LEMMA HandledByAnswer ==
  ASSUME NEW c \in Calls, NEW reply, calls' \in [Calls -> Call], Closed(c, reply),
         OthersKept(c) \/ OthersGoOn(c), calls[c].pc \notin {"idle", "done"}
  PROVE  Handled(c)
BY DEF Handled, Closed, OthersKept, OthersGoOn, SameCall

\* Every step of every handler is of that kind.
LEMMA HandlerHandles ==
  ASSUME TypeOK, NEW c \in Calls, Handler(c)
  PROVE  Handled(c)
<1> USE DEF Is, Replies, CallPcs
<1>0. calls \in [Calls -> Call] /\ issued \in Seq(Nodes)
  BY DEF TypeOK
<1>1. CASE EnrollCheck(c)
  BY <1>0, <1>1, StepMoves, AnswerCloses, HandledByMove, HandledByAnswer DEF EnrollCheck
<1>2. CASE EnrollSpend(c)
  BY <1>0, <1>2, StepMoves, AnswerCloses, HandledByMove, HandledByAnswer DEF EnrollSpend
<1>3. CASE EnrollSign(c)
  BY <1>0, <1>3, SignMoves, HandledByMove, HandledByAnswer DEF EnrollSign
<1>4. CASE EnrollUpsert(c)
  BY <1>0, <1>4, AnswerCloses, HandledByAnswer DEF EnrollUpsert
<1>5. CASE CheckNodeCert(c)
  <2>1. FirstStep(calls[c].op) \in CallPcs \ {"idle"}
    BY <1>5 DEF CheckNodeCert, FirstStep
  <2> QED BY <1>0, <1>5, <2>1, StepMoves, AnswerCloses, HandledByMove, HandledByAnswer
          DEF CheckNodeCert
<1>6. CASE JoinUpsert(c)
  BY <1>0, <1>6, AnswerCloses, HandledByAnswer DEF JoinUpsert
<1>7. CASE Beat(c)
  BY <1>0, <1>7, StepMoves, AnswerCloses, HandledByMove, HandledByAnswer DEF Beat
<1>8. CASE Promote(c)
  BY <1>0, <1>8, AnswerCloses, HandledByAnswer DEF Promote
<1>9. CASE RenewSign(c)
  BY <1>0, <1>9, SignMoves, HandledByMove, HandledByAnswer DEF RenewSign
<1>10. CASE RenewRead(c)
  <2> DEFINE read == [calls[c] EXCEPT !.pc = "upsert", !.copy = MyRow(c)]
  <2>1. calls[c] \in Call /\ MyRow(c) \in Row
    BY <1>0 DEF TypeOK, MyRow, Node, Call
  <2>2. read \in Call /\ SameCall(read, calls[c]) /\ read.pc = "upsert"
    BY <2>1 DEF Call, SameCall
  <2>3. calls' = [calls EXCEPT ![c] = read]
    BY <1>10 DEF RenewRead
  <2> HIDE DEF read
  <2>4. calls'[c] = read /\ OthersKept(c) /\ calls' \in [Calls -> Call]
    BY <1>0, <2>2, <2>3 DEF OthersKept
  <2> QED BY <1>10, <2>2, <2>4 DEF RenewRead, Handled, OthersKept, OthersGoOn, SameCall
<1>11. CASE RenewUpsert(c)
  BY <1>0, <1>11, OvertakeCloses, HandledByAnswer DEF RenewUpsert
<1>12. CASE LeaveRead(c)
  BY <1>0, <1>12, StepMoves, AnswerCloses, HandledByMove, HandledByAnswer DEF LeaveRead
<1>13. CASE LeaveRemove(c)
  BY <1>0, <1>13, AnswerCloses, HandledByAnswer DEF LeaveRemove
<1>14. CASE AdminRead(c)
  <2>1. CASE ~MyRow(c).here
    BY <1>0, <1>14, <2>1, AnswerCloses, HandledByAnswer DEF AdminRead
  <2>2. CASE MyRow(c).here
    <3> DEFINE pc == IF calls[c].to = "REVOKED" /\ MyRow(c).serial # 0
                     THEN "revoke" ELSE "set"
               read == [calls[c] EXCEPT !.copy = MyRow(c), !.pc = pc]
    <3>1. calls[c] \in Call /\ MyRow(c) \in Row
      BY <1>0 DEF TypeOK, MyRow, Node, Call
    <3>2. read \in Call /\ SameCall(read, calls[c]) /\ read.pc # "idle"
      BY <3>1 DEF Call, SameCall
    <3>3. calls' = [calls EXCEPT ![c] = read]
      BY <1>14, <2>2 DEF AdminRead
    <3> HIDE DEF read
    <3>4. calls'[c] = read /\ OthersKept(c) /\ calls' \in [Calls -> Call]
      BY <1>0, <3>2, <3>3 DEF OthersKept
    <3> QED BY <1>14, <3>2, <3>4 DEF AdminRead, Handled, OthersKept, OthersGoOn, SameCall
  <2> QED BY <2>1, <2>2
<1>15. CASE AdminRevoke(c)
  BY <1>0, <1>15, StepMoves, HandledByMove DEF AdminRevoke
<1>16. CASE AdminSet(c)
  BY <1>0, <1>16, OvertakeCloses, HandledByAnswer DEF AdminSet
<1> QED BY <1>1, <1>2, <1>3, <1>4, <1>5, <1>6, <1>7, <1>8, <1>9, <1>10, <1>11, <1>12,
           <1>13, <1>14, <1>15, <1>16 DEF Handler

-----------------------------------------------------------------------------
(* The registry and the files beside it.                                   *)

RegistryTyped ==
  /\ rows \in [Ids -> Row] /\ saved \in [Ids -> Row]
  /\ uses \in [Tokens -> {Unissued, 0, 1}]
  /\ denied \subseteq Nat
  /\ issued \in Seq(Nodes)
  /\ paid \in [Tokens -> Nat]

\* What a handler does to the rows: nothing, or it saves them with its own
\* node's changed; the serial it leaves there is the row's, its own, or none.
RowsEffect(c) ==
  \/ UNCHANGED <<rows, saved>>
  \/ /\ rows' \in [Ids -> Row] /\ saved' = rows'
     /\ \A n \in Nodes \ {Node(c)} : rows'[n] = rows[n]
     /\ rows'[Node(c)].serial \in {rows[Node(c)].serial, calls[c].new, 0}

\* Upsert on one's own node, or on the empty one.
LEMMA UpsertEffect ==
  ASSUME rows \in [Ids -> Row], calls \in [Calls -> Call], NEW c \in Calls,
         Node(c) \in Nodes, NEW i \in {Node(c), NoNode}, NEW identity \in Identities,
         NEW serial \in {0, calls[c].new}, Save(RowUpsert(i, identity, serial))
  PROVE  /\ RowsEffect(c)
         /\ i = Node(c) => /\ rows'[i].here
                           /\ rows'[i].identity =
                                IF identity = "" THEN rows[i].identity ELSE identity
         /\ i = NoNode => \A n \in Nodes : rows'[n] = rows[n]
<1>1. i \in Ids /\ serial \in Nat /\ calls[c].new \in Nat /\ Node(c) \in Ids
  BY DEF Ids, Call, Node
<1> DEFINE new == [here |-> TRUE,
                   identity |-> IF identity = "" THEN rows[i].identity ELSE identity,
                   serial |-> IF serial = 0 THEN rows[i].serial ELSE serial]
<1>2. rows[i] \in Row
  BY <1>1
<1>3. new \in Row
  BY <1>1, <1>2 DEF Row
<1>4. rows' = [rows EXCEPT ![i] = new] /\ saved' = rows'
  BY DEF Save, RowUpsert
<1>5. /\ new.here /\ new.serial \in {rows[i].serial, calls[c].new, 0}
      /\ new.identity = IF identity = "" THEN rows[i].identity ELSE identity
  BY <1>1
<1> HIDE DEF new
<1>6. rows' \in [Ids -> Row] /\ rows'[i] = new /\ \A j \in Ids \ {i} : rows'[j] = rows[j]
  BY <1>1, <1>3, <1>4
<1> QED BY <1>1, <1>4, <1>5, <1>6, NamesAssumption DEF RowsEffect, Ids

\* SetIdentity on one's own node.
LEMMA SetIdentityEffect ==
  ASSUME rows \in [Ids -> Row], NEW c \in Calls, Node(c) \in Nodes,
         NEW identity \in Identities, Save(WithIdentity(rows, Node(c), identity))
  PROVE  /\ RowsEffect(c)
         /\ rows'[Node(c)].here = rows[Node(c)].here
         /\ rows'[Node(c)].identity =
              IF rows[Node(c)].here THEN identity ELSE rows[Node(c)].identity
<1> DEFINE n == Node(c)
           new == [rows[n] EXCEPT !.identity = identity]
<1>1. n \in Ids /\ rows[n] \in Row
  BY DEF Ids
<1>2. /\ new \in Row /\ new.here = rows[n].here /\ new.serial = rows[n].serial
      /\ new.identity = identity
  BY <1>1 DEF Row
<1>3. rows' = (IF rows[n].here THEN [rows EXCEPT ![n] = new] ELSE rows) /\ saved' = rows'
  BY DEF Save, WithIdentity
<1> HIDE DEF new
<1> QED BY <1>1, <1>2, <1>3 DEF RowsEffect, Ids

\* Every handler changes the rows like that.
LEMMA HandlerRows ==
  ASSUME TypeOK, Linked, NEW c \in Calls, Handler(c)
  PROVE  RowsEffect(c)
<1>0. /\ rows \in [Ids -> Row] /\ calls \in [Calls -> Call] /\ calls[c] \in Call
      /\ Node(c) \in Nodes /\ Node(c) \in Ids
  BY HandlerHandles DEF Handled, TypeOK, Linked, Ids
<1>1. CASE EnrollCheck(c) \/ EnrollSpend(c) \/ EnrollSign(c) \/ CheckNodeCert(c) \/ Beat(c)
           \/ RenewSign(c) \/ RenewRead(c) \/ LeaveRead(c) \/ AdminRead(c)
           \/ AdminRevoke(c)
  BY <1>1 DEF EnrollCheck, EnrollSpend, EnrollSign, CheckNodeCert, Beat, RenewSign,
              RenewRead, LeaveRead, AdminRead, AdminRevoke, registry, RowsEffect
<1>2. CASE EnrollUpsert(c)
  BY <1>0, <1>2, UpsertEffect DEF EnrollUpsert, Own, Identities
<1>3. CASE JoinUpsert(c)
  BY <1>0, <1>3, UpsertEffect DEF JoinUpsert, Identities
<1>4. CASE Promote(c)
  BY <1>0, <1>4, SetIdentityEffect DEF Promote, Identities
<1>5. CASE RenewUpsert(c)
  <2> DEFINE i == IF calls[c].copy.here THEN Node(c) ELSE NoNode
             identity == IF calls[c].copy.identity = "CERTIFIED" THEN "ACTIVE"
                         ELSE calls[c].copy.identity
  <2>1. i \in {Node(c), NoNode} /\ identity \in Identities
    BY <1>0 DEF Call, Row, Identities
  <2>2. Save(RowUpsert(i, identity, calls[c].new))
    BY <1>5 DEF RenewUpsert, Own
  <2> HIDE DEF i, identity
  <2> QED BY <1>0, <2>1, <2>2, UpsertEffect
<1>6. CASE LeaveRemove(c)
  <2>1. rows' = [rows EXCEPT ![Node(c)] = Absent] /\ saved' = rows'
    BY <1>6 DEF LeaveRemove, Save, RowRemove
  <2>2. Absent \in Row /\ Absent.serial = 0
    BY DEF Absent, Row, Identities
  <2> QED BY <1>0, <2>1, <2>2 DEF RowsEffect, Ids
<1>7. CASE AdminSet(c)
  <2>1. calls[c].to \in Identities
    BY <1>0 DEF Call
  <2> QED BY <1>0, <1>7, <2>1, SetIdentityEffect DEF AdminSet
<1> QED BY <1>1, <1>2, <1>3, <1>4, <1>5, <1>6, <1>7 DEF Handler

\* Serials are handed out in order, and only to the node that asked; the list
\* of revoked serials grows; tokens are spent one use at a time.
FilesEffect(c) ==
  /\ issued' = issued \/ issued' = Append(issued, Node(c))
  /\ denied' = denied \/ denied' = denied \cup {calls[c].copy.serial}
  /\ \/ UNCHANGED <<uses, paid>>
     \/ \E t \in Tokens : uses[t] = 1 /\ uses' = [uses EXCEPT ![t] = 0]
                         /\ paid' = [paid EXCEPT ![t] = @ + 1]

LEMMA HandlerFiles ==
  ASSUME TypeOK, Linked, NEW c \in Calls, Handler(c)
  PROVE  FilesEffect(c)
<1>1. CASE EnrollSpend(c)
  <2>1. CASE UNCHANGED <<uses, paid>>
    BY <1>1, <2>1 DEF EnrollSpend, FilesEffect
  <2>2. CASE Spendable(calls[c].token) /\ Spend(calls[c].token)
    <3> DEFINE t == calls[c].token
    <3>1. t \in Tokens
      BY <1>1 DEF TypeOK, Linked, EnrollSpend, Is, Call
    <3>2. uses[t] = 1
      BY <2>2, <3>1, TokensAssumption DEF TypeOK, Spendable
    <3>3. uses' = [uses EXCEPT ![t] = 0] /\ paid' = [paid EXCEPT ![t] = @ + 1]
      BY <2>2, <3>2 DEF Spend, UsesAfter
    <3> QED BY <1>1, <3>1, <3>2, <3>3 DEF EnrollSpend, FilesEffect
  <2> QED BY <1>1, <2>1, <2>2 DEF EnrollSpend
<1>2. CASE EnrollSign(c) \/ RenewSign(c)
  BY <1>2 DEF EnrollSign, RenewSign, Sign, Issue, FilesEffect
<1>3. CASE AdminRevoke(c)
  BY <1>3 DEF AdminRevoke, WithRevoked, FilesEffect
<1> QED BY <1>1, <1>2, <1>3
        DEF Handler, EnrollCheck, EnrollUpsert, CheckNodeCert, JoinUpsert, Beat, Promote,
            RenewRead, RenewUpsert, LeaveRead, LeaveRemove, AdminRead, AdminSet,
            registry, FilesEffect

\* The registry keeps its types under every handler.
LEMMA HandlerRegistryTyped ==
  ASSUME TypeOK, Linked, NEW c \in Calls, Handler(c)
  PROVE  RegistryTyped'
<1>1. RowsEffect(c) /\ FilesEffect(c) /\ calls[c] \in Call /\ Node(c) \in Nodes
  BY HandlerRows, HandlerFiles, HandlerHandles DEF Handled, TypeOK, Linked
<1>2. rows' \in [Ids -> Row] /\ saved' \in [Ids -> Row]
  BY <1>1 DEF RowsEffect, TypeOK
<1>3. calls[c].copy.serial \in Nat
  BY <1>1 DEF Call, Row
<1>4. denied' \subseteq Nat
  BY <1>1, <1>3 DEF FilesEffect, TypeOK
<1>5. issued' \in Seq(Nodes)
  <2>1. issued \in Seq(Nodes) /\ Append(issued, Node(c)) \in Seq(Nodes)
    BY <1>1 DEF TypeOK
  <2> QED BY <1>1, <2>1 DEF FilesEffect
<1>6. uses' \in [Tokens -> {Unissued, 0, 1}] /\ paid' \in [Tokens -> Nat]
  <2>0. uses \in [Tokens -> {Unissued, 0, 1}] /\ paid \in [Tokens -> Nat]
    BY DEF TypeOK
  <2>1. CASE UNCHANGED <<uses, paid>>
    BY <2>0, <2>1
  <2>2. ASSUME NEW t \in Tokens, uses' = [uses EXCEPT ![t] = 0],
               paid' = [paid EXCEPT ![t] = @ + 1]
        PROVE  uses' \in [Tokens -> {Unissued, 0, 1}] /\ paid' \in [Tokens -> Nat]
    <3>1. paid[t] + 1 \in Nat
      BY <2>0
    <3> QED BY <2>0, <2>2, <3>1
  <2> QED BY <1>1, <2>1, <2>2 DEF FilesEffect
<1> QED BY <1>2, <1>4, <1>5, <1>6 DEF RegistryTyped

\* What is owned stays owned as serials are handed out.
LEMMA OwnsKept ==
  ASSUME issued \in Seq(Nodes), NEW m \in Nodes,
         issued' = issued \/ issued' = Append(issued, m)
  PROVE  /\ \A n \in Nodes, s \in Nat : Owns(n, s) => Owns(n, s)'
         /\ issued' = Append(issued, m) =>
              Len(issued) + 1 \in DOMAIN issued' /\ issued'[Len(issued) + 1] = m
<1>1. CASE issued' = issued
  <2>1. Append(issued, m) # issued
    OBVIOUS
  <2> QED BY <1>1, <2>1 DEF Owns
<1>2. CASE issued' = Append(issued, m)
  <2>1. /\ DOMAIN issued = 1 .. Len(issued) /\ DOMAIN issued' = 1 .. Len(issued) + 1
        /\ Len(issued) \in Nat
        /\ issued'[Len(issued) + 1] = m
        /\ \A s \in DOMAIN issued : issued'[s] = issued[s]
    BY <1>2
  <2> QED BY <2>1 DEF Owns
<1> QED BY <1>1, <1>2

-----------------------------------------------------------------------------
(* The machines.                                                           *)

\* A machine has the certificate it had, and a client of a known one or none.
Keeps(new, old) == new.cert = old.cert /\ new.client \in {0, old.client, old.cert}

\* A machine n does something on its own.
Alone(n) ==
  UNCHANGED calls /\ host'[n].call = host[n].call /\ Keeps(host'[n], host[n])

\* It has sent request c, on a free connection or on that of its last answer.
Asks(n, c) ==
  /\ sent' = sent + 1 /\ host'[n].call = c /\ Keeps(host'[n], host[n])
  /\ Free(c) \/ (Waits(n) /\ c = host[n].call)
  /\ calls' = [calls EXCEPT ![c] = calls'[c]] /\ calls'[c] \in Call
  /\ calls'[c].pc = "check" /\ calls'[c].node = n /\ calls'[c].new = 0 /\ calls'[c].live
  /\ calls'[c].op = "enroll" => calls'[c].token # NoToken

\* It is done with its request, and may have a certificate from it.
Closes(n) ==
  LET c == host[n].call
  IN /\ Waits(n) /\ c \in Calls /\ host'[n].call = NoCallId
     /\ host'[n].cert \in {host[n].cert, calls[c].new} /\ host'[n].client = host[n].client
     /\ calls' = [calls EXCEPT ![c] = calls'[c]] /\ calls'[c] \in Call
     /\ \/ calls'[c] = NoCall
        \/ calls'[c] = [calls[c] EXCEPT !.live = FALSE] /\ calls[c].pc # "done"

HostEffect(n) ==
  /\ host' \in [Nodes -> Host] /\ \A m \in Nodes \ {n} : host'[m] = host[m]
  /\ \/ Alone(n) /\ sent' = sent
     \/ \E c \in Calls : Asks(n, c)
     \/ Closes(n) /\ sent' = sent

LEMMA CloseCallCloses ==
  ASSUME calls \in [Calls -> Call], host \in [Nodes -> Host], NEW n \in Nodes, Waits(n),
         CloseCall(n)
  PROVE  LET c == host[n].call
         IN /\ c \in Calls /\ calls' \in [Calls -> Call]
            /\ calls' = [calls EXCEPT ![c] = calls'[c]] /\ calls'[c] \in Call
            /\ \/ calls'[c] = NoCall
               \/ calls'[c] = [calls[c] EXCEPT !.live = FALSE] /\ calls[c].pc # "done"
<1> DEFINE c == host[n].call
           gone == [calls[c] EXCEPT !.live = FALSE]
<1>1. c \in Calls
  BY DEF Waits, Host
<1>2. gone \in Call
  BY <1>1 DEF Call
<1>3. NoCall \in Call
  BY DEF NoCall, Call, Ops, CallPcs, Ids, Identities, Row, Absent, Replies
<1>4. calls' = [calls EXCEPT ![c] = IF calls[c].pc = "done" THEN NoCall ELSE gone]
  BY DEF CloseCall
<1> HIDE DEF gone
<1>5. calls'[c] = IF calls[c].pc = "done" THEN NoCall ELSE gone
  BY <1>1, <1>4
<1> QED BY <1>1, <1>2, <1>3, <1>4, <1>5 DEF gone

LEMMA ThenCloses ==
  ASSUME calls \in [Calls -> Call], host \in [Nodes -> Host], NEW n \in Nodes, Waits(n),
         NEW pc \in HostPcs, Then(n, pc), sent' = sent
  PROVE  HostEffect(n)
<1> DEFINE new == [host[n] EXCEPT !.pc = pc, !.call = NoCallId]
<1>1. /\ new \in Host /\ new.call = NoCallId /\ new.cert = host[n].cert
      /\ new.client = host[n].client
  BY DEF Host
<1>2. host' = [host EXCEPT ![n] = new] /\ CloseCall(n)
  BY DEF Then
<1> HIDE DEF new
<1> QED BY <1>1, <1>2, CloseCallCloses DEF HostEffect, Closes

LEMMA CertifyCloses ==
  ASSUME calls \in [Calls -> Call], host \in [Nodes -> Host], NEW n \in Nodes, Waits(n),
         NEW pc \in HostPcs, Certify(n, pc), sent' = sent
  PROVE  HostEffect(n)
<1> DEFINE new == [host[n] EXCEPT !.pc = pc, !.call = NoCallId, !.age = "new",
                                  !.cert = calls[host[n].call].new]
<1>0. host[n].call \in Calls /\ calls[host[n].call].new \in Nat
  BY DEF Waits, Host, Call
<1>1. /\ new \in Host /\ new.call = NoCallId /\ new.cert = calls[host[n].call].new
      /\ new.client = host[n].client
  BY <1>0 DEF Host
<1>2. host' = [host EXCEPT ![n] = new] /\ CloseCall(n)
  BY DEF Certify
<1> HIDE DEF new
<1> QED BY <1>1, <1>2, CloseCallCloses DEF HostEffect, Closes

LEMMA SendAsks ==
  ASSUME calls \in [Calls -> Call], host \in [Nodes -> Host], NEW n \in Nodes,
         NEW op \in Ops, NEW pc \in HostPcs, Send(n, op, pc),
         op = "enroll" => host[n].token # NoToken
  PROVE  HostEffect(n)
<1> DEFINE request == [NoCall EXCEPT !.op = op, !.pc = "check", !.node = n,
                                     !.cert = ClientFor(n, op),
                                     !.token = IF op = "enroll" THEN host[n].token ELSE NoToken,
                                     !.live = TRUE]
<1>0. host[n] \in Host /\ ClientFor(n, op) \in {0, host[n].client, host[n].cert}
      /\ ClientFor(n, op) \in Nat
  BY DEF ClientFor, Host
<1>1. /\ request \in Call /\ request.pc = "check" /\ request.node = n /\ request.new = 0
      /\ request.live /\ (request.op = "enroll" => request.token # NoToken)
  BY <1>0 DEF NoCall, Call, CallPcs, Ids, Identities, Row, Absent, Replies, Host
<1>2. PICK c \in Calls :
        /\ Request(c, request)
        /\ host' = [host EXCEPT ![n] = [host[n] EXCEPT
             !.pc = pc, !.call = c, !.client = ClientFor(n, op), !.lapsed = FALSE]]
  BY DEF Send
<1> DEFINE new == [host[n] EXCEPT !.pc = pc, !.call = c, !.client = ClientFor(n, op),
                                  !.lapsed = FALSE]
<1>3. /\ new \in Host /\ new.call = c /\ new.cert = host[n].cert
      /\ new.client = ClientFor(n, op)
  BY <1>0 DEF Host
<1> HIDE DEF request, new
<1>4. /\ Free(c) /\ sent' = sent + 1 /\ calls' = [calls EXCEPT ![c] = request]
      /\ calls'[c] = request
  BY <1>2 DEF Request
<1>5. host' = [host EXCEPT ![n] = new]
  BY <1>2 DEF new
<1>6. Asks(n, c)
  BY <1>0, <1>1, <1>3, <1>4, <1>5 DEF Asks, Keeps
<1> QED BY <1>3, <1>5, <1>6 DEF HostEffect

LEMMA AloneEffect ==
  ASSUME host \in [Nodes -> Host], NEW n \in Nodes, UNCHANGED <<calls, sent>>,
         NEW new \in Host, host' = [host EXCEPT ![n] = new],
         new.call = host[n].call, Keeps(new, host[n])
  PROVE  HostEffect(n)
BY DEF HostEffect, Alone

LEMMA OffEffect ==
  ASSUME host \in [Nodes -> Host], NEW n \in Nodes, UNCHANGED <<calls, sent>>, Off(n)
  PROVE  HostEffect(n)
<1> DEFINE new == [host[n] EXCEPT !.pc = "off"]
<1>1. new \in Host /\ new.call = host[n].call /\ Keeps(new, host[n])
  BY DEF Host, HostPcs, Keeps
<1>2. host' = [host EXCEPT ![n] = new]
  BY DEF Off
<1> HIDE DEF new
<1> QED BY <1>1, <1>2, AloneEffect

\* Every step of a machine is of those kinds.
LEMMA HostActs ==
  ASSUME TypeOK, Linked, NEW n \in Nodes, Register(n) \/ HostStep(n)
  PROVE  HostEffect(n) /\ UNCHANGED registry
<1> USE DEF HostPcs, Got
<1>0. /\ calls \in [Calls -> Call] /\ host \in [Nodes -> Host] /\ host[n] \in Host
  BY DEF TypeOK
<1>1. CASE Register(n)
  <2>1. PICK t \in {host[n].token} \cup {u \in Tokens : uses[u] # Unissued} :
          host' = [host EXCEPT ![n] = [host[n] EXCEPT !.pc = "dial", !.token = t]]
    BY <1>1 DEF Register
  <2> DEFINE new == [host[n] EXCEPT !.pc = "dial", !.token = t]
  <2>2. new \in Host /\ new.call = host[n].call /\ Keeps(new, host[n])
    BY <1>0 DEF Host, Keeps
  <2>3. host' = [host EXCEPT ![n] = new]
    BY <2>1
  <2> HIDE DEF new
  <2> QED BY <1>0, <1>1, <2>2, <2>3, AloneEffect DEF Register
<1>2. CASE DialToken(n)
  BY <1>0, <1>2, SendAsks DEF DialToken, Ops
<1>3. CASE DialCert(n)
  <2>1. CASE Off(n)
    BY <1>0, <1>3, <2>1, OffEffect DEF DialCert
  <2>2. CASE host' = [host EXCEPT ![n].pc = "join"]
    <3> DEFINE new == [host[n] EXCEPT !.pc = "join"]
    <3>1. new \in Host /\ new.call = host[n].call /\ Keeps(new, host[n])
      BY <1>0 DEF Host, Keeps
    <3>2. host' = [host EXCEPT ![n] = new]
      BY <2>2
    <3> HIDE DEF new
    <3> QED BY <1>0, <1>3, <3>1, <3>2, AloneEffect DEF DialCert
  <2> QED BY <1>3, <2>1, <2>2 DEF DialCert
<1>4. CASE Enrolled(n)
  BY <1>0, <1>4, CertifyCloses, ThenCloses DEF Enrolled
<1>5. CASE NotEnrolled(n)
  BY <1>0, <1>5, ThenCloses DEF NotEnrolled
<1>6. CASE Join(n)
  BY <1>0, <1>6, SendAsks DEF Join, Ops
<1>7. CASE NotPresentable(n)
  BY <1>0, <1>7, OffEffect DEF NotPresentable
<1>8. CASE Joined(n)
  BY <1>0, <1>8, ThenCloses DEF Joined
<1>9. CASE Heartbeat(n)
  BY <1>0, <1>9, SendAsks DEF Heartbeat, Ops
<1>10. CASE Beaten(n)
  BY <1>0, <1>10, ThenCloses DEF Beaten
<1>11. CASE Renew(n)
  <2> DEFINE c == host[n].call
             request == [NoCall EXCEPT !.op = "renew", !.pc = "check", !.node = n,
                                       !.cert = host[n].client, !.live = TRUE]
             new == [host[n] EXCEPT !.pc = "renew"]
  <2>1. c \in Calls /\ Waits(n)
    BY <1>0, <1>11 DEF Renew, Waits, Host
  <2>2. /\ request \in Call /\ request.pc = "check" /\ request.node = n /\ request.new = 0
        /\ request.live /\ request.op = "renew"
    BY <1>0 DEF NoCall, Call, CallPcs, Ops, Ids, Identities, Row, Absent, Replies, Host
  <2>3. new \in Host /\ new.call = c /\ Keeps(new, host[n])
    BY <1>0 DEF Host, Keeps
  <2>4. /\ calls' = [calls EXCEPT ![c] = request] /\ host' = [host EXCEPT ![n] = new]
        /\ sent' = sent + 1
    BY <1>11 DEF Renew
  <2> HIDE DEF request, new
  <2>5. Asks(n, c)
    BY <1>0, <2>1, <2>2, <2>3, <2>4 DEF Asks
  <2>6. HostEffect(n)
    BY <1>0, <2>1, <2>3, <2>4, <2>5 DEF HostEffect
  <2> QED BY <1>11, <2>6 DEF Renew
<1>12. CASE Renewed(n)
  BY <1>0, <1>12, CertifyCloses, ThenCloses DEF Renewed
<1>13. CASE Stop(n)
  BY <1>0, <1>13, SendAsks DEF Stop, Ops
<1>14. CASE Left(n)
  BY <1>0, <1>14, ThenCloses DEF Left
<1>15. CASE GiveUp(n)
  BY <1>0, <1>15, ThenCloses DEF GiveUp
<1>16. CASE Kill(n)
  BY <1>0, <1>16, OffEffect DEF Kill
<1>17. CASE Ages(n)
  <2> DEFINE age == Older(host[n].age)
             lapsed == host[n].lapsed \/ age = "expired"
             new == [host[n] EXCEPT !.age = age, !.lapsed = lapsed]
  <2>1. age \in {"new", "due", "expired"} /\ lapsed \in BOOLEAN
    BY DEF Older
  <2>2. host' = [host EXCEPT ![n] = new]
    BY <1>17 DEF Ages
  <2> HIDE DEF age, lapsed
  <2>3. /\ new \in Host /\ new.call = host[n].call /\ new.cert = host[n].cert
        /\ new.client = host[n].client
    BY <1>0, <2>1 DEF Host
  <2> HIDE DEF new
  <2> QED BY <1>0, <1>17, <2>2, <2>3, AloneEffect DEF Ages, Keeps
<1>18. CASE Lapses(n)
  <2> DEFINE new == [host[n] EXCEPT !.lapsed = TRUE]
  <2>1. new \in Host /\ new.call = host[n].call /\ Keeps(new, host[n])
    BY <1>0 DEF Host, Keeps
  <2>2. host' = [host EXCEPT ![n] = new]
    BY <1>18 DEF Lapses
  <2> HIDE DEF new
  <2> QED BY <1>0, <1>18, <2>1, <2>2, AloneEffect DEF Lapses
<1> QED BY <1>1, <1>2, <1>3, <1>4, <1>5, <1>6, <1>7, <1>8, <1>9, <1>10, <1>11, <1>12,
           <1>13, <1>14, <1>15, <1>16, <1>17, <1>18 DEF HostStep

-----------------------------------------------------------------------------
(* What the handlers leave of a revocation.                                *)

\* A handler that goes on has changed no row; at its first step it was let in.
GoesOn(c) ==
  /\ sent' = sent
  /\ calls'[c].pc # "idle" =>
       \/ calls'[c].new = calls[c].new
       \/ issued' = Append(issued, Node(c)) /\ calls'[c].new = Len(issued) + 1
  /\ calls'[c].pc \notin {"idle", "done"} =>
       /\ calls'[c].fresh = calls[c].fresh
       /\ UNCHANGED <<rows, saved>>
       /\ calls[c].pc # "check" \/ calls[c].op = "enroll" \/ LetIn(c)

\* An answered or overtaking call has ended.
LEMMA ClosedGoesOn ==
  ASSUME NEW c \in Calls, NEW reply, Closed(c, reply), sent' = sent
  PROVE  GoesOn(c) /\ calls'[c].pc \in {"idle", "done"}
<1>1. NoCall.pc = "idle"
  BY DEF NoCall
<1> QED BY <1>1 DEF Closed, GoesOn

LEMMA HandlerGoesOn ==
  ASSUME TypeOK, NEW c \in Calls, Handler(c)
  PROVE  GoesOn(c)
<1> USE DEF Is, Replies, CallPcs
<1>0. calls \in [Calls -> Call] /\ issued \in Seq(Nodes)
  BY DEF TypeOK
<1>1. CASE EnrollCheck(c)
  BY <1>0, <1>1, StepMoves, AnswerCloses, ClosedGoesOn
     DEF EnrollCheck, registry, GoesOn, Moved
<1>2. CASE EnrollSpend(c)
  BY <1>0, <1>2, StepMoves, AnswerCloses, ClosedGoesOn DEF EnrollSpend, GoesOn, Moved
<1>3. CASE EnrollSign(c)
  BY <1>0, <1>3, SignMoves, ClosedGoesOn DEF EnrollSign, GoesOn, Moved
<1>4. CASE EnrollUpsert(c)
  BY <1>0, <1>4, AnswerCloses, ClosedGoesOn DEF EnrollUpsert
<1>5. CASE CheckNodeCert(c)
  <2>1. FirstStep(calls[c].op) \in CallPcs \ {"idle"}
    BY <1>5 DEF CheckNodeCert, FirstStep
  <2> QED BY <1>0, <1>5, <2>1, StepMoves, AnswerCloses, ClosedGoesOn
          DEF CheckNodeCert, registry, GoesOn, Moved
<1>6. CASE JoinUpsert(c)
  BY <1>0, <1>6, AnswerCloses, ClosedGoesOn DEF JoinUpsert
<1>7. CASE Beat(c)
  BY <1>0, <1>7, StepMoves, AnswerCloses, ClosedGoesOn DEF Beat, registry, GoesOn, Moved
<1>8. CASE Promote(c)
  BY <1>0, <1>8, AnswerCloses, ClosedGoesOn DEF Promote
<1>9. CASE RenewSign(c)
  BY <1>0, <1>9, SignMoves, ClosedGoesOn DEF RenewSign, GoesOn, Moved
<1>10. CASE RenewRead(c)
  <2> DEFINE read == [calls[c] EXCEPT !.pc = "upsert", !.copy = MyRow(c)]
  <2>1. calls[c] \in Call
    BY <1>0
  <2>2. read.new = calls[c].new /\ read.fresh = calls[c].fresh
    BY <2>1 DEF Call
  <2>3. calls'[c] = read
    BY <1>0, <1>10 DEF RenewRead
  <2> HIDE DEF read
  <2> QED BY <1>10, <2>2, <2>3 DEF RenewRead, registry, GoesOn
<1>11. CASE RenewUpsert(c)
  BY <1>0, <1>11, OvertakeCloses, ClosedGoesOn DEF RenewUpsert
<1>12. CASE LeaveRead(c)
  BY <1>0, <1>12, StepMoves, AnswerCloses, ClosedGoesOn
     DEF LeaveRead, registry, GoesOn, Moved
<1>13. CASE LeaveRemove(c)
  BY <1>0, <1>13, AnswerCloses, ClosedGoesOn DEF LeaveRemove
<1>14. CASE AdminRead(c)
  <2>1. CASE ~MyRow(c).here
    BY <1>0, <1>14, <2>1, AnswerCloses, ClosedGoesOn DEF AdminRead
  <2>2. CASE MyRow(c).here
    <3> DEFINE pc == IF calls[c].to = "REVOKED" /\ MyRow(c).serial # 0
                     THEN "revoke" ELSE "set"
               read == [calls[c] EXCEPT !.copy = MyRow(c), !.pc = pc]
    <3>1. calls[c] \in Call
      BY <1>0
    <3>2. read.new = calls[c].new /\ read.fresh = calls[c].fresh
      BY <3>1 DEF Call
    <3>3. calls'[c] = read
      BY <1>0, <1>14, <2>2 DEF AdminRead
    <3> HIDE DEF read
    <3> QED BY <1>14, <3>2, <3>3 DEF AdminRead, registry, GoesOn
  <2> QED BY <2>1, <2>2
<1>15. CASE AdminRevoke(c)
  BY <1>0, <1>15, StepMoves DEF AdminRevoke, GoesOn, Moved
<1>16. CASE AdminSet(c)
  BY <1>0, <1>16, OvertakeCloses, ClosedGoesOn DEF AdminSet
<1> QED BY <1>1, <1>2, <1>3, <1>4, <1>5, <1>6, <1>7, <1>8, <1>9, <1>10, <1>11, <1>12,
           <1>13, <1>14, <1>15, <1>16 DEF Handler

\* Only the handlers of an admin and of a renewal make a node revoked, and
\* they overtake the others; none makes a row revoked that is not there.
RevokedKnown(c) ==
  /\ rows'[Node(c)].identity = "REVOKED" /\ rows' # rows => Overtaken(c)
  /\ NoGhosts /\ ~rows'[Node(c)].here => rows'[Node(c)].identity # "REVOKED"

LEMMA HandlerRevokes ==
  ASSUME TypeOK, Linked, NEW c \in Calls, Handler(c)
  PROVE  RevokedKnown(c)
<1>0. /\ rows \in [Ids -> Row] /\ calls \in [Calls -> Call] /\ calls[c] \in Call
      /\ Node(c) \in Nodes /\ Node(c) \in Ids
  BY HandlerHandles DEF Handled, TypeOK, Linked, Ids
<1>1. CASE EnrollCheck(c) \/ EnrollSpend(c) \/ EnrollSign(c) \/ CheckNodeCert(c) \/ Beat(c)
           \/ RenewSign(c) \/ RenewRead(c) \/ LeaveRead(c) \/ AdminRead(c)
           \/ AdminRevoke(c)
  <2>1. rows' = rows
    BY <1>1 DEF EnrollCheck, EnrollSpend, EnrollSign, CheckNodeCert, Beat, RenewSign,
                RenewRead, LeaveRead, AdminRead, AdminRevoke, registry
  <2> QED BY <1>0, <2>1 DEF RevokedKnown, NoGhosts
<1>2. CASE EnrollUpsert(c)
  BY <1>0, <1>2, UpsertEffect DEF EnrollUpsert, Own, Identities, RevokedKnown
<1>3. CASE JoinUpsert(c)
  BY <1>0, <1>3, UpsertEffect DEF JoinUpsert, Identities, RevokedKnown
<1>4. CASE Promote(c)
  <2>1. /\ rows'[Node(c)].here = rows[Node(c)].here
        /\ rows'[Node(c)].identity =
              IF rows[Node(c)].here THEN "ACTIVE" ELSE rows[Node(c)].identity
        /\ rows' = IF rows[Node(c)].here THEN rows' ELSE rows
    BY <1>0, <1>4, SetIdentityEffect DEF Promote, Identities, Save, WithIdentity
  <2> QED BY <1>0, <2>1 DEF RevokedKnown, NoGhosts
<1>5. CASE RenewUpsert(c)
  <2>1. Overtaken(c)
    BY <1>0, <1>5, OvertakeCloses DEF RenewUpsert, Replies
  <2> DEFINE i == IF calls[c].copy.here THEN Node(c) ELSE NoNode
             identity == IF calls[c].copy.identity = "CERTIFIED" THEN "ACTIVE"
                         ELSE calls[c].copy.identity
  <2>2. i \in {Node(c), NoNode} /\ identity \in Identities
    BY <1>0 DEF Call, Row, Identities
  <2>3. Save(RowUpsert(i, identity, calls[c].new))
    BY <1>5 DEF RenewUpsert, Own
  <2> HIDE DEF i, identity
  <2>4. rows'[Node(c)].here \/ rows'[Node(c)] = rows[Node(c)]
    BY <1>0, <2>2, <2>3, UpsertEffect
  <2> QED BY <1>0, <2>1, <2>4 DEF RevokedKnown, NoGhosts
<1>6. CASE LeaveRemove(c)
  <2>1. rows' = [rows EXCEPT ![Node(c)] = Absent]
    BY <1>6 DEF LeaveRemove, Save, RowRemove
  <2> QED BY <1>0, <2>1 DEF RevokedKnown, Absent
<1>7. CASE AdminSet(c)
  <2>1. Overtaken(c) /\ calls[c].to \in Identities
    BY <1>0, <1>7, OvertakeCloses DEF AdminSet, Replies, Call
  <2>2. /\ rows'[Node(c)].here = rows[Node(c)].here
        /\ rows[Node(c)].here \/ rows'[Node(c)].identity = rows[Node(c)].identity
    BY <1>0, <1>7, <2>1, SetIdentityEffect DEF AdminSet
  <2> QED BY <1>0, <2>1, <2>2 DEF RevokedKnown, NoGhosts
<1> QED BY <1>1, <1>2, <1>3, <1>4, <1>5, <1>6, <1>7 DEF Handler

-----------------------------------------------------------------------------
(* The invariant is inductive.                                             *)

\* The key material is as the invariant says, whoever acts.
LEMMA KeysKept ==
  ASSUME IInv, KeysStep \/ PlaneEnds \/ Moves \/ UNCHANGED keys
  PROVE  KeysTyped' /\ CAOnDisk' /\ CAInHand'
<1>1. TypeOK /\ CAOnDisk /\ CAInHand /\ KeysTyped
  BY DEF IInv, TypeOK, KeysTyped
<1> QED BY <1>1, KeysPreserved, KeysTypes

\* TypeOK in its parts.
LEMMA TypeParts ==
  TypeOK <=> /\ RegistryTyped /\ calls \in [Calls -> Call] /\ sent \in Nat
             /\ host \in [Nodes -> Host] /\ KeysTyped /\ edits \in Nat
BY DEF TypeOK, RegistryTyped, KeysTyped

\* A step of a handler.
LEMMA HandlerPreserves ==
  ASSUME IInv, HandlerNext
  PROVE  IInv'
<1>1. PICK c \in Calls : Handler(c)
  BY DEF HandlerNext
<1>2. TypeOK /\ Linked /\ UNCHANGED <<host, keys, edits>> /\ Up /\ Up'
  BY DEF HandlerNext, IInv, keys, Up
<1>3. Handled(c) /\ RowsEffect(c) /\ FilesEffect(c) /\ RegistryTyped' /\ GoesOn(c)
      /\ RevokedKnown(c)
  BY <1>1, <1>2, HandlerHandles, HandlerRows, HandlerFiles, HandlerRegistryTyped,
     HandlerGoesOn, HandlerRevokes
<1>4. /\ calls \in [Calls -> Call] /\ calls[c] \in Call /\ Node(c) \in Nodes
      /\ issued \in Seq(Nodes) /\ calls[c].pc \notin {"idle", "done"}
  BY <1>2, <1>3 DEF TypeOK, Linked, Handled
<1>5. TypeOK'
  <2>1. sent' \in Nat /\ calls' \in [Calls -> Call] /\ host' \in [Nodes -> Host]
        /\ edits' \in Nat /\ KeysTyped'
    BY <1>2, <1>3 DEF GoesOn, TypeOK, Handled, keys, KeysTyped
  <2> QED BY <1>3, <2>1 DEF TypeOK, RegistryTyped, KeysTyped
<1>6. /\ NoCall.op = "none" /\ NoCall.pc = "idle"
  BY DEF NoCall
<1>7. Linked'
  <2>1. ASSUME NEW d \in Calls
        PROVE  /\ calls'[d].pc # "idle" => calls'[d].node \in Nodes
               /\ calls'[d].op = "enroll" => calls'[d].token # NoToken
    BY <1>2, <1>3, <1>4, <1>6 DEF Linked, Handled, OthersGoOn, SameCall, Node
  <2>2. ASSUME NEW n \in Nodes, host[n].call # NoCallId
        PROVE  /\ calls'[host[n].call].pc # "idle" /\ calls'[host[n].call].node = n
               /\ calls'[host[n].call].live
    <3>1. host[n].call \in Calls
      BY <1>2, <2>2 DEF TypeOK, Host
    <3>2. calls[host[n].call].pc # "idle" /\ calls[host[n].call].node = n
          /\ calls[host[n].call].live
      BY <1>2, <2>2 DEF Linked, Waits, Node
    <3> QED BY <1>3, <3>1, <3>2 DEF Handled, OthersGoOn, SameCall
  <2> QED BY <1>2, <2>1, <2>2 DEF Linked, Waits, Node
<1>8. \A n \in Nodes, s \in Nat : Owns(n, s) => Owns(n, s)'
  BY <1>3, <1>4, OwnsKept DEF FilesEffect
<1>9. NewIsOwn'
  <2>1. ASSUME NEW d \in Calls, calls'[d].pc # "idle"
        PROVE  Owns(Node(d), calls[d].new)'
    <3>1. CASE d # c
      <4>1. calls[d].new \in Nat /\ calls[d].node \in Nodes /\ Owns(Node(d), calls[d].new)
            /\ calls'[d].new = calls[d].new /\ calls'[d].node = calls[d].node
        BY <1>2, <1>3, <1>4, <2>1, <3>1
           DEF Handled, OthersGoOn, SameCall, Linked, IInv, NewIsOwn, Call, Node
      <4> QED BY <1>8, <4>1 DEF Node, Owns
    <3>2. CASE d = c
      <4>1. calls'[c].node = calls[c].node /\ calls[c].new \in Nat
            /\ Owns(Node(c), calls[c].new)
        BY <1>3, <1>4, <1>6, <2>1, <3>2 DEF Handled, SameCall, IInv, NewIsOwn, Call
      <4>2. CASE calls'[c].new = calls[c].new
        BY <1>4, <1>8, <3>2, <4>1, <4>2 DEF Node, Owns
      <4>3. CASE issued' = Append(issued, Node(c)) /\ calls'[c].new = Len(issued) + 1
        BY <1>4, <3>2, <4>1, <4>3, OwnsKept DEF Node, Owns
      <4> QED BY <1>3, <2>1, <3>2, <4>2, <4>3 DEF GoesOn
    <3> QED BY <3>1, <3>2
  <2> QED BY <2>1 DEF NewIsOwn
<1>10. CertIsOwn'
  <2>1. ASSUME NEW n \in Nodes
        PROVE  /\ Owns(n, rows[n].serial)' /\ Owns(n, saved[n].serial)'
               /\ Owns(n, host[n].cert)' /\ Owns(n, host[n].client)'
    <3>1. /\ rows[n].serial \in Nat /\ saved[n].serial \in Nat /\ host[n].cert \in Nat
          /\ host[n].client \in Nat /\ Owns(n, rows[n].serial) /\ Owns(n, saved[n].serial)
          /\ Owns(n, host[n].cert) /\ Owns(n, host[n].client)
      BY <1>2 DEF TypeOK, Row, Host, Ids, IInv, CertIsOwn
    <3>2. calls[c].new \in Nat /\ Owns(Node(c), calls[c].new)
      BY <1>4 DEF IInv, NewIsOwn, Call
    <3>3. Owns(n, host[n].cert)' /\ Owns(n, host[n].client)'
      BY <1>2, <1>8, <3>1 DEF Owns
    <3>4. CASE UNCHANGED <<rows, saved>>
      BY <1>8, <3>1, <3>3, <3>4 DEF Owns
    <3>5. CASE saved' = rows' /\ rows'[n] = rows[n]
      BY <1>8, <3>1, <3>3, <3>5 DEF Owns
    <3>6. CASE saved' = rows' /\ n = Node(c)
               /\ rows'[n].serial \in {rows[n].serial, calls[c].new, 0}
      BY <1>8, <3>1, <3>2, <3>3, <3>6 DEF Owns
    <3> QED BY <1>3, <3>4, <3>5, <3>6 DEF RowsEffect
  <2> QED BY <2>1 DEF CertIsOwn
<1>11. Accounted'
  <2>1. Accounted /\ uses \in [Tokens -> {Unissued, 0, 1}] /\ paid \in [Tokens -> Nat]
    BY <1>2 DEF IInv, TypeOK
  <2>2. CASE UNCHANGED <<uses, paid>>
    BY <2>1, <2>2 DEF Accounted
  <2>3. ASSUME NEW t \in Tokens, uses[t] = 1, uses' = [uses EXCEPT ![t] = 0],
               paid' = [paid EXCEPT ![t] = @ + 1]
        PROVE  Accounted'
    BY <2>1, <2>3 DEF Accounted
  <2> QED BY <1>3, <2>2, <2>3 DEF FilesEffect
<1>12. NoGhosts'
  BY <1>2, <1>3, <1>4 DEF IInv, NoGhosts, RowsEffect, RevokedKnown
<1>13. FreshIsTrusted'
  <2>1. ASSUME NEW d \in Calls, calls'[d].op \in {"join", "beat", "renew", "leave"},
               calls'[d].pc \notin {"idle", "check", "done"}, calls'[d].fresh
        PROVE  rows'[calls'[d].node].identity # "REVOKED"
    <3>1. CASE d = c
      <4>1. /\ calls[c].fresh /\ rows' = rows /\ calls'[c].node = calls[c].node
            /\ calls[c].op = calls'[c].op
            /\ calls[c].pc # "check" \/ calls[c].op = "enroll" \/ LetIn(c)
        BY <1>3, <1>6, <2>1, <3>1 DEF GoesOn, Handled, SameCall
      <4>2. CASE calls[c].pc # "check"
        BY <1>4, <2>1, <3>1, <4>1, <4>2 DEF IInv, FreshIsTrusted, Node
      <4>3. CASE LetIn(c)
        BY <1>4, <3>1, <4>1, <4>3 DEF IInv, NoGhosts, LetIn, Dead, MyRow, Node
      <4> QED BY <2>1, <3>1, <4>1, <4>2, <4>3
    <3>2. CASE d # c
      <4>1. /\ calls[d].op = calls'[d].op /\ calls[d].pc = calls'[d].pc /\ calls[d].fresh
            /\ calls[d].node = calls'[d].node
        BY <1>3, <2>1, <3>2 DEF Handled, OthersGoOn, SameCall
      <4>2. rows[calls[d].node].identity # "REVOKED" /\ calls[d].node \in Nodes
        BY <1>2, <2>1, <4>1 DEF IInv, FreshIsTrusted, Linked, Node
      <4>3. CASE rows' = rows \/ Node(d) # Node(c)
        BY <1>3, <4>1, <4>2, <4>3 DEF RowsEffect, Node
      <4>4. CASE rows' # rows /\ Node(d) = Node(c)
        BY <1>3, <2>1, <3>2, <4>1, <4>4 DEF RevokedKnown, Overtaken, Node
      <4> QED BY <4>3, <4>4
    <3> QED BY <3>1, <3>2
  <2> QED BY <2>1 DEF FreshIsTrusted, Node
<1>14. Quiet'
  BY <1>2 DEF Quiet
<1>15. CAOnDisk' /\ CAInHand'
  BY <1>2, KeysKept
<1> QED BY <1>5, <1>7, <1>9, <1>10, <1>11, <1>12, <1>13, <1>14, <1>15 DEF IInv

\* A step of a machine.
LEMMA HostPreserves ==
  ASSUME IInv, HostNext
  PROVE  IInv'
<1>1. PICK n \in Nodes : Register(n) \/ HostStep(n)
  BY DEF HostNext
<1>2. /\ TypeOK /\ Linked /\ UNCHANGED <<keys, edits>> /\ Up' = Up
      /\ sent' # sent => Up
  BY DEF HostNext, IInv, keys, Up
<1>3. HostEffect(n) /\ UNCHANGED registry
  BY <1>1, <1>2, HostActs
<1>4. /\ calls \in [Calls -> Call] /\ host \in [Nodes -> Host] /\ issued \in Seq(Nodes)
      /\ sent \in Nat /\ UNCHANGED <<rows, saved, uses, denied, issued, paid>>
  BY <1>2, <1>3 DEF TypeOK, registry
<1>5. KeysTyped' /\ CAOnDisk' /\ CAInHand'
  BY <1>2, KeysKept
<1>6. Accounted' /\ NoGhosts'
  BY <1>4 DEF IInv, Accounted, NoGhosts
<1>7. RegistryTyped' /\ edits' \in Nat
  BY <1>2, <1>4 DEF TypeOK, RegistryTyped
<1>8. \A m \in Nodes, s \in Nat : Owns(m, s) => Owns(m, s)'
  BY <1>4 DEF Owns
<1>9. /\ NoCall.op = "none" /\ NoCall.pc = "idle"
  BY DEF NoCall
<1>10. \A m \in Nodes : Owns(m, rows[m].serial)' /\ Owns(m, saved[m].serial)'
  BY <1>4 DEF IInv, CertIsOwn, Owns
<1>11. CASE Alone(n) /\ sent' = sent
  <2>1. /\ UNCHANGED calls
        /\ \A m \in Nodes : host'[m].call = host[m].call /\ Keeps(host'[m], host[m])
    BY <1>3, <1>11 DEF HostEffect, Alone, Keeps
  <2>2. TypeOK'
    BY <1>3, <1>4, <1>5, <1>7, <1>11, <2>1 DEF HostEffect, TypeOK, RegistryTyped, KeysTyped
  <2>3. Linked' /\ NewIsOwn' /\ Quiet' /\ FreshIsTrusted'
    BY <1>2, <1>4, <2>1
       DEF IInv, Linked, NewIsOwn, Quiet, FreshIsTrusted, Waits, Node, Owns
  <2>4. CertIsOwn'
    BY <1>4, <1>10, <2>1 DEF IInv, CertIsOwn, Owns, Keeps
  <2> QED BY <1>5, <1>6, <2>2, <2>3, <2>4 DEF IInv
<1>12. CASE \E c \in Calls : Asks(n, c)
  <2>1. PICK c \in Calls : Asks(n, c)
    BY <1>12
  <2>2. /\ calls' \in [Calls -> Call] /\ \A d \in Calls \ {c} : calls'[d] = calls[d]
        /\ sent' = sent + 1 /\ Up /\ Up'
        /\ calls'[c].pc = "check" /\ calls'[c].node = n /\ calls'[c].new = 0
        /\ calls'[c].live /\ (calls'[c].op = "enroll" => calls'[c].token # NoToken)
    <3>1. calls' = [calls EXCEPT ![c] = calls'[c]] /\ calls'[c] \in Call
      BY <2>1 DEF Asks
    <3>2. calls' \in [Calls -> Call] /\ \A d \in Calls \ {c} : calls'[d] = calls[d]
      BY <1>4, <3>1
    <3> QED BY <1>2, <1>4, <2>1, <3>2 DEF Asks
  <2>3. /\ host'[n].call = c /\ Keeps(host'[n], host[n]) /\ host' \in [Nodes -> Host]
        /\ \A m \in Nodes \ {n} : host'[m] = host[m]
    BY <1>3, <2>1 DEF Asks, HostEffect
  <2>4. \A m \in Nodes \ {n} : Waits(m) => host[m].call # c
    BY <1>2, <2>1 DEF Linked, Asks, Free, Waits, Node
  <2>5. TypeOK'
    BY <1>4, <1>5, <1>7, <2>2, <2>3 DEF TypeOK, RegistryTyped, KeysTyped
  <2>6. Linked'
    <3>1. ASSUME NEW d \in Calls
          PROVE  /\ calls'[d].pc # "idle" => calls'[d].node \in Nodes
                 /\ calls'[d].op = "enroll" => calls'[d].token # NoToken
      BY <1>2, <2>2 DEF Linked, Node
    <3>2. ASSUME NEW m \in Nodes, host'[m].call # NoCallId
          PROVE  /\ calls'[host'[m].call].pc # "idle" /\ calls'[host'[m].call].node = m
                 /\ calls'[host'[m].call].live
      <4>1. CASE m = n
        BY <2>2, <2>3, <4>1
      <4>2. CASE m # n
        <5>1. host'[m] = host[m] /\ Waits(m) /\ host[m].call \in Calls
              /\ host[m].call # c
          BY <1>4, <2>3, <2>4, <3>2, <4>2 DEF Waits, Host
        <5> QED BY <1>2, <2>2, <5>1 DEF Linked, Node
      <4> QED BY <4>1, <4>2
    <3> QED BY <3>1, <3>2 DEF Linked, Waits, Node
  <2>7. NewIsOwn' /\ Quiet' /\ FreshIsTrusted'
    BY <1>4, <2>2 DEF IInv, NewIsOwn, Quiet, FreshIsTrusted, Node, Owns
  <2>8. CertIsOwn'
    BY <1>4, <1>10, <2>3 DEF IInv, CertIsOwn, Owns, Keeps
  <2> QED BY <1>5, <1>6, <2>5, <2>6, <2>7, <2>8 DEF IInv
<1>13. CASE Closes(n) /\ sent' = sent
  <2> DEFINE c == host[n].call
  <2>1. /\ c \in Calls /\ Waits(n) /\ host'[n].call = NoCallId
        /\ host'[n].cert \in {host[n].cert, calls[c].new} /\ host'[n].client = host[n].client
        /\ calls' \in [Calls -> Call] /\ \A d \in Calls \ {c} : calls'[d] = calls[d]
    <3>1. c \in Calls /\ calls' = [calls EXCEPT ![c] = calls'[c]] /\ calls'[c] \in Call
      BY <1>13 DEF Closes
    <3>2. calls' \in [Calls -> Call] /\ \A d \in Calls \ {c} : calls'[d] = calls[d]
      BY <1>4, <3>1
    <3> QED BY <1>13, <3>2 DEF Closes
  <2>2. \/ calls'[c].pc = "idle" /\ calls'[c].op = "none"
        \/ /\ calls'[c].op = calls[c].op /\ calls'[c].node = calls[c].node
           /\ calls'[c].token = calls[c].token
           /\ calls'[c].pc = calls[c].pc /\ calls'[c].new = calls[c].new
           /\ calls'[c].fresh = calls[c].fresh
    <3>1. calls[c] \in Call
      BY <1>4, <2>1
    <3>2. CASE calls'[c] = [calls[c] EXCEPT !.live = FALSE]
      BY <3>1, <3>2 DEF Call
    <3> QED BY <1>9, <1>13, <3>2 DEF Closes
  <2>3. host' \in [Nodes -> Host] /\ \A m \in Nodes \ {n} : host'[m] = host[m]
    BY <1>3 DEF HostEffect
  <2>4. \A m \in Nodes \ {n} : Waits(m) => host[m].call # c
    BY <1>2, <2>1 DEF Linked, Waits, Node
  <2>5. TypeOK'
    BY <1>4, <1>5, <1>7, <1>13, <2>1, <2>3 DEF TypeOK, RegistryTyped, KeysTyped
  <2>6. Linked'
    <3>1. ASSUME NEW d \in Calls
          PROVE  /\ calls'[d].pc # "idle" => calls'[d].node \in Nodes
                 /\ calls'[d].op = "enroll" => calls'[d].token # NoToken
      BY <1>2, <2>1, <2>2 DEF Linked, Node
    <3>2. ASSUME NEW m \in Nodes, host'[m].call # NoCallId
          PROVE  /\ calls'[host'[m].call].pc # "idle" /\ calls'[host'[m].call].node = m
                 /\ calls'[host'[m].call].live
      <4>1. m # n
        BY <2>1, <3>2
      <4>2. host'[m] = host[m] /\ Waits(m) /\ host[m].call \in Calls /\ host[m].call # c
        BY <1>4, <2>3, <2>4, <3>2, <4>1 DEF Waits, Host
      <4> QED BY <1>2, <2>1, <4>2 DEF Linked, Node
    <3> QED BY <3>1, <3>2 DEF Linked, Waits, Node
  <2>7. NewIsOwn' /\ Quiet' /\ FreshIsTrusted'
    <3>1. ASSUME NEW d \in Calls
          PROVE  \/ calls'[d].pc = "idle"
                 \/ /\ calls'[d].op = calls[d].op /\ calls'[d].node = calls[d].node
                    /\ calls'[d].pc = calls[d].pc /\ calls'[d].new = calls[d].new
                    /\ calls'[d].fresh = calls[d].fresh
      BY <2>1, <2>2
    <3> QED BY <1>2, <1>4, <3>1 DEF IInv, NewIsOwn, Quiet, FreshIsTrusted, Node, Owns
  <2>8. CertIsOwn'
    <3>1. Owns(n, calls[c].new) /\ Owns(n, host[n].cert) /\ Owns(n, host[n].client)
      BY <1>2, <2>1 DEF IInv, NewIsOwn, CertIsOwn, Linked, Node
    <3> QED BY <1>4, <1>10, <2>1, <2>3, <3>1 DEF IInv, CertIsOwn, Owns
  <2> QED BY <1>5, <1>6, <2>5, <2>6, <2>7, <2>8 DEF IInv
<1> QED BY <1>3, <1>11, <1>12, <1>13 DEF HostEffect

\* A step of the plane itself.
LEMMA PlanePreserves ==
  ASSUME IInv, PlaneStarts \/ PlaneComesUp \/ PlaneGoes \/ PlaneMoves
  PROVE  IInv'
<1>1. /\ TypeOK /\ Linked /\ calls \in [Calls -> Call] /\ host \in [Nodes -> Host]
      /\ rows \in [Ids -> Row] /\ saved \in [Ids -> Row]
  BY DEF IInv, TypeOK
<1>2. KeysTyped' /\ CAOnDisk' /\ CAInHand'
  BY KeysKept DEF PlaneStarts, PlaneComesUp, PlaneGoes, PlaneMoves, KeysStep
<1>3. CASE PlaneStarts \/ PlaneComesUp \/ PlaneMoves
  <2>1. /\ rows' \in {rows, saved}
        /\ UNCHANGED <<saved, uses, denied, issued, paid, calls, sent, host, edits>>
        /\ ~Up
    BY <1>3 DEF PlaneStarts, PlaneComesUp, PlaneMoves, StartPlane, WriteCAKey, EnsureServer,
                WriteServerKey, Listen, Moves, registry, Up
  <2>2. TypeOK'
    BY <1>1, <1>2, <2>1 DEF TypeOK, KeysTyped
  <2>3. Linked' /\ Accounted' /\ Quiet' /\ FreshIsTrusted'
    BY <1>1, <2>1 DEF IInv, Linked, Accounted, Quiet, FreshIsTrusted, Waits, Node
  <2>4. NewIsOwn' /\ CertIsOwn' /\ NoGhosts'
    BY <2>1 DEF IInv, NewIsOwn, CertIsOwn, NoGhosts, Node, Owns
  <2> QED BY <1>2, <2>2, <2>3, <2>4 DEF IInv
<1>4. CASE PlaneGoes
  <2>1. /\ UNCHANGED <<registry, sent, edits>>
        /\ calls' = [c \in Calls |-> IF calls[c].pc = "done" THEN calls[c] ELSE NoCall]
        /\ host' = [n \in Nodes |->
             IF Waits(n) /\ calls[host[n].call].pc # "done"
             THEN [host[n] EXCEPT !.call = NoCallId,
                     !.pc = IF @ \in {"beat", "renew"} THEN "on" ELSE "off"]
             ELSE host[n]]
    BY <1>4 DEF PlaneGoes
  <2>2. NoCall \in Call /\ NoCall.pc = "idle" /\ NoCall.op = "none"
    BY DEF NoCall, Call, Ops, CallPcs, Ids, Identities, Row, Absent, Replies
  <2>3. calls' \in [Calls -> Call]
    BY <1>1, <2>1, <2>2
  <2>4. ASSUME NEW n \in Nodes
        PROVE  /\ host'[n] \in Host /\ Keeps(host'[n], host[n])
               /\ \/ host'[n].call = NoCallId
                  \/ host'[n].call = host[n].call /\ (Waits(n) => calls[host[n].call].pc = "done")
    <3>1. host[n] \in Host
      BY <1>1
    <3> DEFINE gone == [host[n] EXCEPT !.call = NoCallId,
                          !.pc = IF @ \in {"beat", "renew"} THEN "on" ELSE "off"]
    <3>2. gone \in Host /\ Keeps(gone, host[n]) /\ gone.call = NoCallId
      BY <3>1 DEF Host, HostPcs, Keeps
    <3>3. host'[n] = IF Waits(n) /\ calls[host[n].call].pc # "done" THEN gone ELSE host[n]
      BY <2>1
    <3> HIDE DEF gone
    <3> QED BY <3>1, <3>2, <3>3 DEF Keeps
  <2>5. host' \in [Nodes -> Host]
    BY <2>1, <2>4
  <2>6. TypeOK'
    BY <1>1, <1>2, <2>1, <2>3, <2>5 DEF TypeOK, KeysTyped, registry
  <2>7. Linked'
    <3>1. ASSUME NEW d \in Calls
          PROVE  /\ calls'[d].pc # "idle" => calls'[d].node \in Nodes
                 /\ calls'[d].op = "enroll" => calls'[d].token # NoToken
      BY <1>1, <2>1, <2>2 DEF Linked, Node
    <3>2. ASSUME NEW m \in Nodes, host'[m].call # NoCallId
          PROVE  /\ calls'[host'[m].call].pc # "idle" /\ calls'[host'[m].call].node = m
                 /\ calls'[host'[m].call].live
      <4>1. /\ host'[m].call = host[m].call /\ Waits(m) /\ host[m].call \in Calls
            /\ calls[host[m].call].pc = "done"
        BY <1>1, <2>4, <3>2 DEF Waits, Host
      <4>2. calls'[host[m].call] = calls[host[m].call]
        BY <2>1, <4>1
      <4> QED BY <1>1, <4>1, <4>2 DEF Linked, Node
    <3> QED BY <3>1, <3>2 DEF Linked, Waits, Node
  <2>8. Accounted' /\ NoGhosts' /\ Quiet' /\ FreshIsTrusted' /\ NewIsOwn'
    BY <2>1, <2>2
       DEF IInv, Accounted, NoGhosts, Quiet, FreshIsTrusted, NewIsOwn, Node, Owns, registry
  <2>9. CertIsOwn'
    <3>1. CertIsOwn /\ UNCHANGED <<rows, saved, issued>>
      BY <2>1 DEF IInv, registry
    <3>2. ASSUME NEW n \in Nodes
          PROVE  Owns(n, host[n].cert)' /\ Owns(n, host[n].client)'
      BY <2>4, <3>1, <3>2 DEF CertIsOwn, Owns, Keeps
    <3> QED BY <3>1, <3>2 DEF CertIsOwn, Owns
  <2> QED BY <1>2, <2>6, <2>7, <2>8, <2>9 DEF IInv
<1> QED BY <1>3, <1>4

\* A step of the admin, over the API or on the plane's host.
LEMMA AdminPreserves ==
  ASSUME IInv, AdminAsks \/ CreatesToken \/ EditsFiles
  PROVE  IInv'
<1>1. /\ TypeOK /\ Linked /\ calls \in [Calls -> Call] /\ host \in [Nodes -> Host]
      /\ rows \in [Ids -> Row] /\ saved \in [Ids -> Row] /\ sent \in Nat /\ edits \in Nat
      /\ uses \in [Tokens -> {Unissued, 0, 1}] /\ paid \in [Tokens -> Nat] /\ denied \subseteq Nat
  BY DEF IInv, TypeOK
<1>2. UNCHANGED <<host, keys, issued, rows>> /\ Up' = Up
  BY DEF AdminAsks, CreatesToken, CreateToken, EditsFiles, registry, keys, Up
<1>3. KeysTyped' /\ CAOnDisk' /\ CAInHand'
  BY <1>2, KeysKept
<1>4. CASE AdminAsks
  <2>1. PICK c \in Calls, n \in Nodes, to \in AdminIdentities :
          Request(c, [NoCall EXCEPT !.op = "admin", !.pc = "read", !.node = n, !.to = to])
    BY <1>4 DEF AdminAsks
  <2> DEFINE request == [NoCall EXCEPT !.op = "admin", !.pc = "read", !.node = n, !.to = to]
  <2>2. /\ request \in Call /\ request.op = "admin" /\ request.pc = "read"
        /\ request.node = n /\ request.new = 0
    BY DEF NoCall, Call, Ops, CallPcs, Ids, Identities, Row, Absent, Replies, AdminIdentities
  <2>3. Free(c) /\ calls' = [calls EXCEPT ![c] = request] /\ sent' = sent + 1
    BY <2>1 DEF Request
  <2> HIDE DEF request
  <2>4. /\ calls'[c] = request /\ calls' \in [Calls -> Call]
        /\ \A d \in Calls \ {c} : calls'[d] = calls[d]
    BY <1>1, <2>2, <2>3
  <2>5. UNCHANGED <<registry, edits>> /\ Up
    BY <1>4 DEF AdminAsks
  <2>6. TypeOK'
    BY <1>1, <1>2, <1>3, <2>3, <2>4, <2>5 DEF TypeOK, KeysTyped, registry
  <2>7. Linked'
    <3>1. \A m \in Nodes : Waits(m) => host[m].call \in Calls \ {c}
      BY <1>1, <2>3 DEF Linked, Waits, Free, Host
    <3> QED BY <1>1, <1>2, <2>2, <2>4, <3>1 DEF Linked, Waits, Node
  <2>8. NewIsOwn' /\ FreshIsTrusted' /\ Quiet'
    BY <1>2, <2>2, <2>4, <2>5
       DEF IInv, NewIsOwn, FreshIsTrusted, Quiet, Node, Owns, registry
  <2>9. CertIsOwn' /\ Accounted' /\ NoGhosts'
    BY <1>2, <2>5 DEF IInv, CertIsOwn, Accounted, NoGhosts, Owns, registry
  <2> QED BY <1>3, <2>6, <2>7, <2>8, <2>9 DEF IInv
<1>5. CASE CreatesToken
  <2>1. PICK t \in Tokens : CreateToken(t)
    BY <1>5 DEF CreatesToken
  <2>2. UNCHANGED <<calls, sent, edits, saved, denied, paid>>
    BY <1>5, <2>1 DEF CreatesToken, CreateToken
  <2>3. TypeOK'
    BY <1>1, <1>2, <1>3, <2>1, <2>2 DEF TypeOK, KeysTyped, CreateToken
  <2>4. Accounted'
    BY <1>1, <2>1, <2>2, TokensAssumption DEF IInv, Accounted, CreateToken
  <2>5. Linked' /\ NewIsOwn' /\ FreshIsTrusted' /\ Quiet' /\ CertIsOwn' /\ NoGhosts'
    BY <1>2, <2>2
       DEF IInv, Linked, NewIsOwn, FreshIsTrusted, Quiet, CertIsOwn, NoGhosts, Waits, Node, Owns
  <2> QED BY <1>3, <2>3, <2>4, <2>5 DEF IInv
<1>6. CASE EditsFiles
  <2>1. PICK n \in Nodes, to \in AdminIdentities :
          /\ saved[n].here
          /\ saved' = WithIdentity(saved, n, to)
          /\ denied' = IF to = "REVOKED" /\ saved[n].serial # 0
                       THEN WithRevoked(saved[n].serial) ELSE denied
    BY <1>6 DEF EditsFiles
  <2> DEFINE new == [saved[n] EXCEPT !.identity = to]
  <2>2. saved[n] \in Row /\ n \in Ids
    BY <1>1 DEF Ids
  <2>3. new \in Row /\ new.here /\ new.serial = saved[n].serial
    BY <2>1, <2>2 DEF Row, Identities, AdminIdentities
  <2>4. saved' = [saved EXCEPT ![n] = new]
    BY <2>1 DEF WithIdentity
  <2> HIDE DEF new
  <2>5. /\ saved' \in [Ids -> Row] /\ saved'[n] = new
        /\ \A m \in Nodes \ {n} : saved'[m] = saved[m]
    BY <1>1, <2>2, <2>3, <2>4 DEF Ids
  <2>6. denied' \subseteq Nat
    BY <1>1, <2>1, <2>2 DEF WithRevoked, Row
  <2>7. UNCHANGED <<uses, paid, calls, sent>> /\ edits' = edits + 1
    BY <1>6 DEF EditsFiles
  <2>8. TypeOK'
    BY <1>1, <1>2, <1>3, <2>5, <2>6, <2>7 DEF TypeOK, KeysTyped
  <2>9. Linked' /\ NewIsOwn' /\ FreshIsTrusted' /\ Quiet' /\ Accounted'
    BY <1>2, <2>7
       DEF IInv, Linked, NewIsOwn, FreshIsTrusted, Quiet, Accounted, Waits, Node, Owns
  <2>10. CertIsOwn' /\ NoGhosts'
    <3>1. CertIsOwn /\ NoGhosts /\ UNCHANGED <<rows, host, issued>>
      BY <1>2 DEF IInv
    <3>2. ASSUME NEW m \in Nodes
          PROVE  /\ Owns(m, rows[m].serial)' /\ Owns(m, saved[m].serial)'
                 /\ Owns(m, host[m].cert)' /\ Owns(m, host[m].client)'
      <4>1. /\ Owns(m, rows[m].serial) /\ Owns(m, saved[m].serial)
            /\ Owns(m, host[m].cert) /\ Owns(m, host[m].client)
        BY <3>1 DEF CertIsOwn
      <4>2. saved'[m].serial = saved[m].serial
        BY <2>3, <2>5
      <4> QED BY <3>1, <4>1, <4>2 DEF Owns
    <3>3. ASSUME NEW m \in Nodes
          PROVE  /\ ~rows'[m].here => rows'[m].identity # "REVOKED"
                 /\ ~saved'[m].here => saved'[m].identity # "REVOKED"
      BY <2>3, <2>5, <3>1 DEF NoGhosts
    <3> QED BY <3>2, <3>3 DEF CertIsOwn, NoGhosts
  <2> QED BY <1>3, <2>8, <2>9, <2>10 DEF IInv
<1> QED BY <1>4, <1>5, <1>6

LEMMA InitHolds == Init => IInv
<1> SUFFICES ASSUME Init PROVE IInv
  OBVIOUS
<1>1. Absent \in Row /\ NoCall \in Call /\ NoCall.pc = "idle" /\ NoCall.op = "none"
      /\ ~Absent.here /\ Absent.identity = "" /\ Absent.serial = 0
  BY DEF NoCall, Call, Ops, CallPcs, Ids, Identities, Row, Absent, Replies
<1>2. \A n \in Nodes : NewHost \in Host /\ NewHost.call = NoCallId /\ NewHost.cert = 0
                       /\ NewHost.client = 0
  BY DEF NewHost, Host, HostPcs
<1>3. KeysTyped /\ CAOnDisk /\ CAInHand
  <2>1. /\ plane = [pc |-> "down", ca |-> NoKey, cert |-> NoCert, key |-> NoKey, starts |-> 0]
        /\ net = 0 /\ made = Legacy /\ history = NoKey
    BY DEF Init, KeysInit
  <2>2. /\ files \in Files /\ ~P256(files.caKey) /\ ~P256(files.serverCert.key)
    BY DEF Init, KeysInit, Files, Cert, NoCert, LegacyCert, P256, Legacy, NoKey
  <2>3. KeysTyped
    BY <2>1, <2>2 DEF KeysTyped, Plane, PlanePcs, Cert, NoCert, NoKey, Legacy
  <2> QED BY <2>1, <2>2, <2>3 DEF CAOnDisk, CAInHand, Up, Legacy
<1>4. TypeOK
  <2>1. RegistryTyped
    <3>1. issued \in Seq(Nodes)
      BY DEF Init
    <3>2. rows \in [Ids -> Row] /\ saved \in [Ids -> Row]
      BY <1>1 DEF Init
    <3>3. uses \in [Tokens -> {Unissued, 0, 1}] /\ paid \in [Tokens -> Nat]
      BY DEF Init
    <3>4. denied \subseteq Nat
      BY DEF Init
    <3> QED BY <3>1, <3>2, <3>3, <3>4 DEF RegistryTyped
  <2>2. /\ calls \in [Calls -> Call] /\ sent \in Nat /\ host \in [Nodes -> Host]
        /\ edits \in Nat
    BY <1>1, <1>2 DEF Init
  <2> QED BY <1>3, <2>1, <2>2, TypeParts
<1>5. Linked /\ NewIsOwn /\ Quiet /\ FreshIsTrusted
  BY <1>1, <1>2 DEF Init, Linked, NewIsOwn, Quiet, FreshIsTrusted, Waits
<1>6. CertIsOwn /\ NoGhosts
  BY <1>1, <1>2 DEF Init, CertIsOwn, NoGhosts, Owns, Ids
<1>7. Accounted
  BY TokensAssumption DEF Init, Accounted
<1> QED BY <1>3, <1>4, <1>5, <1>6, <1>7 DEF IInv

LEMMA NextPreserves == IInv /\ [Next]_vars => IInv'
<1> SUFFICES ASSUME IInv, [Next]_vars PROVE IInv'
  OBVIOUS
<1>1. CASE Next
  BY <1>1, HandlerPreserves, HostPreserves, PlanePreserves, AdminPreserves DEF Next
<1>2. CASE UNCHANGED vars
  BY <1>2 DEF vars, registry, keys, IInv, TypeOK, Linked, NewIsOwn, CertIsOwn, Accounted,
              Quiet, NoGhosts, FreshIsTrusted, CAOnDisk, CAInHand, Up, Waits, Node, Owns
<1> QED BY <1>1, <1>2

\* The invariant holds for every number of nodes, tokens and overlapping
\* requests, and however often the plane is started.
THEOREM MembershipInductive == Spec => []IInv
BY InitHolds, NextPreserves, PTL DEF Spec

\* The variables keep their types; in particular a token has one use left or
\* none.
THEOREM MembershipTypeCorrect == Spec => []TypeOK
<1>1. IInv => TypeOK
  BY DEF IInv
<1> QED BY <1>1, MembershipInductive, PTL

\* A token is spent once (Consume).
THEOREM TokenSpentOnce == Spec => []TokenOnce
<1>1. IInv => TokenOnce
  BY DEF IInv, Accounted, TokenOnce
<1> QED BY <1>1, MembershipInductive, PTL

\* The registry, its file and the machines know serials of their own nodes
\* only (handleEnroll, handleRenew, SaveEnrollment).
THEOREM CertificatesAreOwn == Spec => []CertIsOwn
<1>1. IInv => CertIsOwn
  BY DEF IInv
<1> QED BY <1>1, MembershipInductive, PTL

\* The CA never changes under a listener (loadOrCreateCA).
THEOREM CAIsStable == Spec => []CAStable
<1>1. IInv => CAStable
  BY DEF IInv, CAInHand, CAStable
<1> QED BY <1>1, MembershipInductive, PTL

\* A listener's certificate was signed by the CA it hands out
\* (loadOrCreateServer).
THEOREM ListenerIsTrusted == Spec => []ServesTrusted
<1>1. IInv => ServesTrusted
  BY DEF IInv, CAInHand, ServesTrusted, Up
<1> QED BY <1>1, MembershipInductive, PTL

\* The list of revoked serials never shrinks (Revoke).
THEOREM RevocationsGrow == Spec => DeniedGrows
<1>1. IInv /\ [Next]_vars => [denied \subseteq denied']_vars
  <2> SUFFICES ASSUME IInv, [Next]_vars PROVE denied \subseteq denied'
    BY DEF vars, registry
  <2>1. CASE HandlerNext
    <3>1. PICK c \in Calls : Handler(c)
      BY <2>1 DEF HandlerNext
    <3> QED BY <3>1, HandlerFiles DEF IInv, FilesEffect
  <2>2. CASE HostNext
    <3>1. PICK n \in Nodes : Register(n) \/ HostStep(n)
      BY <2>2 DEF HostNext
    <3> QED BY <3>1, HostActs DEF IInv, registry
  <2>3. CASE PlaneStarts \/ PlaneComesUp \/ PlaneGoes \/ PlaneMoves \/ AdminAsks \/ CreatesToken
             \/ EditsFiles \/ UNCHANGED vars
    BY <2>3 DEF PlaneStarts, PlaneComesUp, PlaneGoes, PlaneMoves, AdminAsks, CreatesToken,
                CreateToken, EditsFiles, WithRevoked, vars, registry
  <2> QED BY <2>1, <2>2, <2>3 DEF Next
<1> QED BY <1>1, MembershipInductive, PTL DEF Spec, DeniedGrows

\* What may make a revoked node anything else: an enrollment, an admin, or a
\* request that was let in before the revocation.
LEMMA HandlerUndoes ==
  ASSUME IInv, NEW c \in Calls, Handler(c), NEW n \in Nodes,
         rows[n].identity = "REVOKED", rows'[n].identity # "REVOKED"
  PROVE  Node(c) = n /\ Undoes(c)
<1>1. /\ TypeOK /\ Linked /\ Handled(c) /\ RowsEffect(c) /\ GoesOn(c)
      /\ calls \in [Calls -> Call] /\ calls[c] \in Call
  BY HandlerHandles, HandlerRows, HandlerGoesOn DEF IInv, TypeOK
<1>2. Node(c) = n
  BY <1>1 DEF RowsEffect
<1>3. calls'[c] # calls[c]
  BY <1>1 DEF GoesOn, Handled
<1>4. CASE calls[c].op \in {"enroll", "admin"}
  BY <1>2, <1>3, <1>4 DEF Undoes
<1>5. CASE calls[c].op \in {"join", "beat", "renew", "leave"}
  <2>1. calls[c].pc # "check"
    BY <1>5 DEF Handler, CheckNodeCert, EnrollCheck, EnrollSpend, EnrollSign, EnrollUpsert,
                JoinUpsert, Beat, Promote, RenewSign, RenewRead, RenewUpsert, LeaveRead,
                LeaveRemove, AdminRead, AdminRevoke, AdminSet, Is, registry
  <2> QED BY <1>1, <1>2, <1>3, <1>5, <2>1 DEF IInv, FreshIsTrusted, Handled, Undoes, Call
<1>6. calls[c].op # "none"
  BY DEF Handler, CheckNodeCert, EnrollCheck, EnrollSpend, EnrollSign, EnrollUpsert,
         JoinUpsert, Beat, Promote, RenewSign, RenewRead, RenewUpsert, LeaveRead,
         LeaveRemove, AdminRead, AdminRevoke, AdminSet, Is
<1> QED BY <1>1, <1>4, <1>5, <1>6 DEF Call, Ops

\* A revoked node stays revoked until it enrolls again or an admin says
\* otherwise, but for requests let in before (checkNodeCert).
THEOREM RevocationIsFinal == Spec => RevokedIsFinal
<1> DEFINE Final ==
      \A n \in Nodes :
        Up /\ rows[n].identity = "REVOKED" /\ rows'[n].identity # "REVOKED" =>
          \/ \E c \in Calls : Node(c) = n /\ Undoes(c)
          \/ plane'.pc # "up"
<1>1. IInv /\ [Next]_vars => [Final]_vars
  <2> SUFFICES ASSUME IInv, [Next]_vars, NEW n \in Nodes,
                      Up, rows[n].identity = "REVOKED", rows'[n].identity # "REVOKED"
               PROVE  \E c \in Calls : Node(c) = n /\ Undoes(c)
    OBVIOUS
  <2>1. CASE HandlerNext
    BY <2>1, HandlerUndoes DEF HandlerNext
  <2>2. CASE HostNext
    <3>1. PICK m \in Nodes : Register(m) \/ HostStep(m)
      BY <2>2 DEF HostNext
    <3> QED BY <3>1, HostActs DEF IInv, registry
  <2>3. CASE PlaneStarts \/ PlaneComesUp \/ PlaneGoes \/ PlaneMoves \/ AdminAsks \/ CreatesToken
             \/ EditsFiles \/ UNCHANGED vars
    BY <2>3 DEF PlaneStarts, StartPlane, PlaneComesUp, PlaneGoes, PlaneMoves, AdminAsks,
                CreatesToken, CreateToken, EditsFiles, vars, registry, Up
  <2> QED BY <2>1, <2>2, <2>3 DEF Next
<1> QED BY <1>1, MembershipInductive, PTL DEF Spec, RevokedIsFinal
=============================================================================
