------------------------------- MODULE PlaneKeys -------------------------------
(***************************************************************************)
(* The key material of the control plane (internal/pki/pki.go) and the     *)
(* start of houdry serve, which ensures it: Ensure, loadOrCreateCA,        *)
(* loadOrCreateServer and TLSConfig, one write of a file at a time, on a   *)
(* machine that may crash in between and whose addresses may change.       *)
(***************************************************************************)
EXTENDS Integers

CONSTANT MaxStarts  \* how often serve is started

ASSUME StartsAssumption == MaxStarts \in Nat

VARIABLES
  files,   \* the directory pki/
  plane,   \* the process, and what it has loaded or made
  net,     \* the host name and addresses of the machine
  made,    \* keys are numbered as they are generated
  history  \* the CA of the first listener

\* Keys: none, the Ed25519 key of release 0.6.8, and the P-256 keys.
NoKey == 0
Legacy == 1
P256(k) == k > Legacy

\* A certificate: its key, the CA's key, and the names it is valid for.
Cert == [key : Nat, by : Nat, names : Nat]
NoCert == [key |-> NoKey, by |-> NoKey, names |-> 0]

Files == [caCert : Nat, caKey : Nat, serverCert : Cert, serverKey : Nat]

PlanePcs == {"down", "caKey", "server", "serverKey", "tls", "up", "panicked"}

Plane == [pc : PlanePcs, ca : Nat, cert : Cert, key : Nat, starts : Nat]

Exists(k) == k # NoKey

\* A first start, or one after an upgrade from 0.6.8.
LegacyCert == [key |-> Legacy, by |-> Legacy, names |-> 0]

KeysInit ==
  /\ files \in {[caCert |-> NoKey, caKey |-> NoKey, serverCert |-> NoCert,
                 serverKey |-> NoKey],
                [caCert |-> Legacy, caKey |-> Legacy, serverCert |-> LegacyCert,
                 serverKey |-> Legacy]}
  /\ plane = [pc |-> "down", ca |-> NoKey, cert |-> NoCert, key |-> NoKey, starts |-> 0]
  /\ net = 0
  /\ made = Legacy
  /\ history = NoKey

-----------------------------------------------------------------------------
\* Mutant of CAUsable: the CA is renewed with the addresses, too.
CAUsableHere ==
  /\ P256(files.caCert) /\ P256(files.caKey)
  /\ files.serverCert.names = net

\* Both files are there, and neither is Ed25519.
CAUsable == P256(files.caCert) /\ P256(files.caKey)

\* loadOrCreateCA: load both files, or make a key and write the certificate.
LoadCA ==
  /\ CAUsable
  /\ plane' = [plane EXCEPT !.pc = "server", !.ca = files.caCert, !.starts = @ + 1]
  /\ UNCHANGED <<files, made>>

MakeCA ==
  /\ ~CAUsable
  /\ made' = made + 1
  /\ files' = [files EXCEPT !.caCert = made + 1]
  /\ plane' = [plane EXCEPT !.pc = "caKey", !.ca = made + 1, !.starts = @ + 1]

StartPlane ==
  /\ plane.pc = "down" /\ plane.starts < MaxStarts
  /\ LoadCA \/ MakeCA
  /\ UNCHANGED <<net, history>>

WriteCAKey ==
  /\ plane.pc = "caKey"
  /\ files' = [files EXCEPT !.caKey = plane.ca]
  /\ plane' = [plane EXCEPT !.pc = "server"]
  /\ UNCHANGED <<net, made, history>>

\* Mutant of ServerUsable: an Ed25519 certificate will do.
ServerUsableLegacy ==
  /\ Exists(files.serverKey) /\ Exists(files.serverCert.key)
  /\ files.serverCert.names = net

\* Both files are there, neither is Ed25519, and sansCover.
ServerUsable ==
  /\ P256(files.serverKey) /\ P256(files.serverCert.key)
  /\ files.serverCert.names = net

\* loadOrCreateServer: load both files, or make a key and a certificate and
\* write the certificate.  One that is about to expire is made anew as well.
LoadServer ==
  /\ ServerUsable
  /\ plane' = [plane EXCEPT !.pc = "tls", !.cert = files.serverCert,
                            !.key = files.serverKey]
  /\ UNCHANGED <<files, made>>

MakeServer ==
  LET cert == [key |-> made + 1, by |-> plane.ca, names |-> net]
  IN /\ made' = made + 1
     /\ files' = [files EXCEPT !.serverCert = cert]
     /\ plane' = [plane EXCEPT !.pc = "serverKey", !.cert = cert, !.key = made + 1]

EnsureServer ==
  /\ plane.pc = "server"
  /\ LoadServer \/ MakeServer
  /\ UNCHANGED <<net, history>>

WriteServerKey ==
  /\ plane.pc = "serverKey"
  /\ files' = [files EXCEPT !.serverKey = plane.key]
  /\ plane' = [plane EXCEPT !.pc = "tls"]
  /\ UNCHANGED <<net, made, history>>

\* TLSConfig: X509KeyPair fails when the two do not belong together.
Listen ==
  /\ plane.pc = "tls"
  /\ IF plane.cert.key = plane.key
     THEN /\ plane' = [plane EXCEPT !.pc = "up"]
          /\ history' = IF history = NoKey THEN plane.ca ELSE history
     ELSE /\ plane' = [plane EXCEPT !.pc = "panicked"]
          /\ UNCHANGED history
  /\ UNCHANGED <<files, net, made>>

\* The process ends, at whichever step: it is stopped, crashes, or has panicked.
PlaneEnds ==
  /\ plane.pc # "down"
  /\ plane' = [plane EXCEPT !.pc = "down", !.ca = NoKey, !.cert = NoCert, !.key = NoKey]
  /\ UNCHANGED <<files, net, made, history>>

\* Another WiFi: a certificate made before does not cover the new addresses.
\* A listener that is up does not notice.
Moves ==
  /\ plane.pc = "down"
  /\ net' = net + 1
  /\ UNCHANGED <<files, plane, made, history>>

KeysStep == StartPlane \/ WriteCAKey \/ EnsureServer \/ WriteServerKey \/ Listen
=============================================================================
