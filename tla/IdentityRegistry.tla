---------------------------- MODULE IdentityRegistry ----------------------------
(***************************************************************************)
(* What the control plane remembers of its nodes' identities: the identity *)
(* fields of the registry (internal/server/store.go), the one-time tokens  *)
(* (internal/enrollment/store.go), the revoked serials (pki/revoke.go) and *)
(* the certificates it has signed.                                         *)
(*                                                                         *)
(* Every operation runs under its store's mutex and saves before it        *)
(* returns.  The tokens and the revoked serials are read from their files  *)
(* before every use, so the files are their state; the registry is read    *)
(* once, when serve starts.                                                *)
(***************************************************************************)
EXTENDS Integers, Sequences

CONSTANTS
  Nodes,
  NoNode,    \* the empty node ID
  Tokens,
  Unissued   \* a token that has not been created

ASSUME NamesAssumption == NoNode \notin Nodes
ASSUME TokensAssumption == Unissued \notin Int

VARIABLES
  rows,    \* the registry of the running plane
  saved,   \* nodes.json
  uses,    \* enrollment.json
  denied,  \* revoked.json
  issued,  \* issued[s] is the node whose certificate has serial s
  paid     \* history: how often each token was spent

registry == <<rows, saved, uses, denied, issued, paid>>

Ids == Nodes \cup {NoNode}

\* "" is the identity of a row nobody has enrolled or joined.
Identities == {"", "CERTIFIED", "ACTIVE", "SUSPENDED", "REVOKED"}

\* serial is 0 when the row knows of no certificate.
Row == [here : BOOLEAN, identity : Identities, serial : Nat]

Absent == [here |-> FALSE, identity |-> "", serial |-> 0]

-----------------------------------------------------------------------------
Save(newRows) == rows' = newRows /\ saved' = newRows

\* Store.Upsert: what the new row leaves open it takes from the old one.
RowUpsert(i, identity, serial) ==
  [rows EXCEPT ![i] =
     [here     |-> TRUE,
      identity |-> IF identity = "" THEN @.identity ELSE identity,
      serial   |-> IF serial = 0 THEN @.serial ELSE serial]]

\* Store.SetIdentity, on any copy of the registry.
WithIdentity(rs, i, identity) ==
  IF rs[i].here THEN [rs EXCEPT ![i].identity = identity] ELSE rs

RowRemove(i) == [rows EXCEPT ![i] = Absent]

-----------------------------------------------------------------------------
\* Mutant of Spendable: the uses are not looked at.
SpendableIfIssued(t) == uses[t] # Unissued

\* Store.Consume finds the token and it has a use left.
Spendable(t) == uses[t] # Unissued /\ uses[t] > 0

\* Mutant of UsesAfter: the use is not counted.
UsesKept(n) == n

UsesAfter(n) == n - 1

Spend(t) ==
  /\ uses' = [uses EXCEPT ![t] = UsesAfter(@)]
  /\ paid' = [paid EXCEPT ![t] = @ + 1]

\* houdry node enroll create, from another process.
CreateToken(t) ==
  /\ uses[t] = Unissued
  /\ uses' = [uses EXCEPT ![t] = 1]
  /\ UNCHANGED <<rows, saved, denied, issued, paid>>

-----------------------------------------------------------------------------
\* Mutant of WithRevoked: the file is written without having been read.
OnlyRevoked(s) == {s}

\* Revocation.Revoke.
WithRevoked(s) == denied \cup {s}

IsRevoked(s) == s \in denied

\* The serial of the next certificate.
NextSerial == Len(issued) + 1

Issue(n) == issued' = Append(issued, n)
=============================================================================
